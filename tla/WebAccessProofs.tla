---------------------------- MODULE WebAccessProofs ----------------------------
(* Who gets in, and what a reader finds, in the TypeScript application, for any *)
(* sets of callers, links, people and invitations, and any dishes, wishes and   *)
(* orders of names: sessions and API keys run out (WebAccess), guests stay      *)
(* inside the list of their link (WebShares), memberships are earned            *)
(* (WebHouseholds), and search leaves nothing out (WebSearch).  Each part has   *)
(* its inductive invariant, one lemma that it holds initially, one that a step  *)
(* keeps it, and the theorems that follow.                                      *)
EXTENDS WebAccess, WebShares, WebHouseholds, WebSearch, FiniteSetTheorems,
        WellFoundedInduction, TLAPS

-------------------------------------------------------------------------------
(* WebAccess                                                                   *)

Moment == Int \cup {Never}

AccessTypeOK ==
    /\ clock \in Nat
    /\ entry \in [value : Nat, expires : Moment]
    /\ alarm \in Moment
    /\ torn \in BOOLEAN
    /\ served \in [value : Nat, expires : Moment, at : Nat]
    /\ apiKey \in {"none", "live", "expired", "revoked"}
    /\ keyCall \in [KeyCaller -> [pc : {"idle", "look", "member", "scope", "acts"}, late : BOOLEAN]]

\* A key that has ended does not come back to life for a request that is late.
LateIsTooLate ==
    \A k \in KeyCaller : keyCall[k].pc # "idle" /\ keyCall[k].late => apiKey \in {"expired", "revoked"}

AccessInv == AccessTypeOK /\ LateIsTooLate /\ AccessRunsOut

\* The value that stands for no moment is one of its own.
LEMMA MomentFacts == Never \in Moment /\ \A n \in Nat : n \in Moment /\ n # Never
  BY WebAccessAssumption DEF Moment

LEMMA AccessInitially == AccessInit => AccessInv
<1> USE WebAccessAssumption DEF AccessInit, NoEntry
<1>1. AccessInit => AccessTypeOK
  <2> SUFFICES ASSUME AccessInit PROVE AccessTypeOK
    OBVIOUS
  <2>1. entry \in [value : Nat, expires : Moment] /\ served \in [value : Nat, expires : Moment, at : Nat]
    BY MomentFacts
  <2>2. keyCall \in [KeyCaller -> [pc : {"idle", "look", "member", "scope", "acts"}, late : BOOLEAN]]
    OBVIOUS
  <2>3. QED
    BY <2>1, <2>2, MomentFacts DEF AccessTypeOK
<1>2. AccessInit => LateIsTooLate /\ AccessRunsOut
  BY DEF LateIsTooLate, AccessRunsOut
<1>3. QED
  BY <1>1, <1>2 DEF AccessInv

LEMMA AccessStep ==
    ASSUME AccessInv, [AccessNext]_accessVars
    PROVE  AccessInv'
<1> USE MomentFacts DEF AccessInv, AccessTypeOK, LateIsTooLate, AccessRunsOut
<1>f. /\ Found \in [value : Nat, expires : Moment]
      /\ Found.expires # Never => clock < Found.expires
      /\ Found \in {entry, NoEntry}
  <2>1. NoEntry \in [value : Nat, expires : Moment] /\ NoEntry.expires = Never
    BY DEF NoEntry
  <2>2. entry.expires # Never => entry.expires \in Int
    BY DEF Moment
  <2>3. QED
    BY <2>1, <2>2 DEF Found, Expired
<1>e. \A ttl \in Nat : ExpiryFor(ttl) \in Moment
  BY DEF ExpiryFor
<1>1. CASE Tick
  BY <1>1 DEF Tick, keyVars
<1>2. CASE GetValue
  BY <1>2, <1>f DEF GetValue, Serve, keyVars, NoEntry
<1>3. CASE DeleteValue
  BY <1>3 DEF DeleteValue, keyVars, NoEntry
<1>4. CASE GetAndDeleteValue
  BY <1>4, <1>f DEF GetAndDeleteValue, Serve, keyVars, NoEntry
<1>5. CASE Alarm
  BY <1>5 DEF Alarm, keyVars, NoEntry
<1>6. ASSUME NEW ttl \in 0 .. 2, NEW whole \in BOOLEAN, SetValue(1, ttl, whole)
      PROVE  AccessInv'
  <2>1. ttl \in Nat /\ ExpiryFor(ttl) \in Moment
    BY <1>e
  <2>2. /\ entry' = [value |-> 1, expires |-> ExpiryFor(ttl)]
        /\ alarm' \in Moment /\ torn' \in BOOLEAN
        /\ ~torn' => alarm' = entry'.expires
        /\ UNCHANGED <<clock, served, keyVars>>
    BY <1>6, <2>1 DEF SetValue, Value
  <2>3. entry' \in [value : Nat, expires : Moment]
    BY <2>1, <2>2
  <2>4. QED
    BY <2>2, <2>3 DEF keyVars
<1>7. ASSUME NEW ttl \in 1 .. 2, IncrementValue(ttl)
      PROVE  AccessInv'
  <2>1. /\ entry' \in [value : Nat, expires : Moment]
        /\ alarm' \in Moment /\ torn' \in BOOLEAN
        /\ UNCHANGED <<clock, served, keyVars>>
    BY <1>7, <1>e, <1>f DEF IncrementValue, Value
  <2>2. Found = entry => Found.expires \in {Never, entry.expires}
    OBVIOUS
  <2>3. entry' # NoEntry /\ ~torn' => alarm' \in {Never, entry'.expires}
    <3>1. CASE Found = NoEntry
      BY <3>1, <1>7 DEF IncrementValue, Value, NoEntry
    <3>2. CASE Found # NoEntry
      BY <3>2, <1>7, <1>f, <1>e DEF IncrementValue, Value
    <3>3. QED  BY <3>1, <3>2
  <2>4. QED
    BY <2>1, <2>3 DEF keyVars
<1>8. ASSUME CreateKey \/ \E s \in {"expired", "revoked"} : EndKey(s)
      PROVE  AccessInv'
  BY <1>8 DEF CreateKey, EndKey
<1>9. ASSUME NEW k \in KeyCaller,
             \/ CallWithKey(k) \/ FindKey(k) \/ EndKeyCall(k)
             \/ \E yes \in BOOLEAN : AdmitKey(k, yes) \/ CheckScope(k, yes)
      PROVE  AccessInv'
  <2>0. CASE CallWithKey(k)
    BY <2>0 DEF CallWithKey
  <2>1. CASE FindKey(k)
    BY <2>1 DEF FindKey
  <2>2. ASSUME NEW yes \in BOOLEAN, AdmitKey(k, yes) \/ CheckScope(k, yes)
        PROVE  AccessInv'
    BY <2>2 DEF AdmitKey, CheckScope
  <2>3. CASE EndKeyCall(k)
    BY <2>3 DEF EndKeyCall
  <2>4. QED
    BY <1>9, <2>0, <2>1, <2>2, <2>3
<1>10. CASE UNCHANGED accessVars
  BY <1>10 DEF accessVars
<1>11. QED
  <2> HIDE DEF AccessInv, AccessTypeOK, LateIsTooLate, AccessRunsOut
  <2>1. QED
    BY <1>1, <1>2, <1>3, <1>4, <1>5, <1>6, <1>7, <1>8, <1>9, <1>10 DEF AccessNext

\* No value is served past its expiry, no alarm of a replaced value takes its
\* successor away, and no request gets through with a key that had ended when
\* it came (auth-session-store.ts, api-keys.ts).
THEOREM AccessRunsOutHolds == AccessSpec => []AccessRunsOut
<1>1. AccessInv => AccessRunsOut
  BY DEF AccessInv
<1>2. QED
  BY <1>1, AccessInitially, AccessStep, PTL DEF AccessSpec

-------------------------------------------------------------------------------
(* WebShares                                                                   *)

AnyShare == Share \cup {NoShare}
Page == [list : Checklist, item : Nat]

SharesTypeOK ==
    /\ shares \in [Share -> [status : {"none", "live", "expired", "revoked"}, list : Checklist]]
    /\ checklist \in [Checklist -> [item : Nat, checked : BOOLEAN]]
    /\ cookie \in AnyShare
    /\ visitor \in [pc : {"closed", "exchange", "exchanged", "resolve", "read", "tick", "open"},
                    url : AnyShare, page : Page, does : {"read", "tick"}, sent : AnyShare,
                    list : Checklist, late : BOOLEAN]

\* The address of an open tab is that of a link which has been made.
TabHasLink == visitor.pc # "closed" => visitor.url \in Share /\ shares[visitor.url].status # "none"
\* A request that was late finds its link ended, however late it is resolved.
LateFindsItEnded == visitor.pc = "resolve" /\ visitor.late => shares[visitor.url].status # "live"
\* What has been resolved is the list of the link in the address.
ResolvedIsOwn ==
    visitor.pc \in {"read", "tick"} => ~visitor.late /\ visitor.list = shares[visitor.url].list

SharesInv == SharesTypeOK /\ TabHasLink /\ LateFindsItEnded /\ ResolvedIsOwn

LEMMA SharesInitially == SharesInit => SharesInv
  BY WebSharesAssumption
     DEF SharesInit, SharesInv, SharesTypeOK, TabHasLink, LateFindsItEnded, ResolvedIsOwn,
         AnyShare, Page, NoPage, Closed

\* The three facts about the tab survive whatever the household does to a link:
\* one that was made stays made, one that ended stays ended, and a list is for good.
LEMMA LinksOnlyEnd ==
    ASSUME SharesInv, UNCHANGED visitor, SharesTypeOK',
           \A s \in Share : shares[s].status # "none" =>
               /\ shares'[s].list = shares[s].list /\ shares'[s].status # "none"
               /\ shares'[s].status = "live" => shares[s].status = "live"
    PROVE  SharesInv'
  BY DEF SharesInv, TabHasLink, LateFindsItEnded, ResolvedIsOwn

\* A request that the tab sends is late only if its link has ended.
LEMMA SendingKeeps ==
    ASSUME SharesInv, visitor.pc # "closed", UNCHANGED shares, checklist' \in [Checklist -> [item : Nat, checked : BOOLEAN]],
           cookie' \in AnyShare, NEW does \in {"read", "tick"}, visitor' = Sent(does)
    PROVE  SharesInv'
<1> USE DEF SharesInv, SharesTypeOK, TabHasLink, LateFindsItEnded, ResolvedIsOwn
<1>1. /\ visitor' \in [pc : {"closed", "exchange", "exchanged", "resolve", "read", "tick", "open"},
                      url : AnyShare, page : Page, does : {"read", "tick"}, sent : AnyShare,
                      list : Checklist, late : BOOLEAN]
      /\ visitor'.pc = "resolve" /\ visitor'.url = visitor.url
      /\ visitor'.late = (shares[visitor.url].status # "live")
  BY DEF Sent
<1>2. QED
  BY <1>1

\* A tab that is closed says nothing.
LEMMA ClosingKeeps ==
    ASSUME SharesInv, Close, UNCHANGED shares, checklist' \in [Checklist -> [item : Nat, checked : BOOLEAN]],
           cookie' \in AnyShare
    PROVE  SharesInv'
<1>1. Closed \in [pc : {"closed", "exchange", "exchanged", "resolve", "read", "tick", "open"},
                  url : AnyShare, page : Page, does : {"read", "tick"}, sent : AnyShare,
                  list : Checklist, late : BOOLEAN]
  BY WebSharesAssumption DEF Closed, NoPage, Page, AnyShare
<1>2. Closed.pc = "closed"
  BY DEF Closed
<1>3. QED
  BY <1>1, <1>2 DEF Close, SharesInv, SharesTypeOK, TabHasLink, LateFindsItEnded, ResolvedIsOwn

LEMMA SharesStep ==
    ASSUME SharesInv, [WebSharesNext]_shareVars
    PROVE  SharesInv'
<1>t. SharesTypeOK /\ TabHasLink /\ LateFindsItEnded /\ ResolvedIsOwn
  BY DEF SharesInv
<1>c. /\ NoShare \in AnyShare /\ Share \subseteq AnyShare /\ cookie \in AnyShare
      /\ checklist \in [Checklist -> [item : Nat, checked : BOOLEAN]]
  BY <1>t DEF AnyShare, SharesTypeOK
<1>1. ASSUME NEW s \in Share, NEW l \in Checklist, CreateShare(s, l)
      PROVE  SharesInv'
  <2>1. SharesTypeOK'
    BY <1>t, <1>1 DEF CreateShare, SharesTypeOK
  <2>2. QED
    BY <1>t, <1>1, <2>1, LinksOnlyEnd DEF CreateShare, SharesTypeOK
<1>2. ASSUME NEW s \in Share, RevokeShare(s) \/ ExpireShare(s)
      PROVE  SharesInv'
  <2>1. PICK status \in {"revoked", "expired"} :
           /\ shares' = [shares EXCEPT ![s].status = status] /\ shares[s].status # "none"
           /\ cookie' \in {cookie, NoShare} /\ UNCHANGED <<checklist, visitor>>
    BY <1>2 DEF RevokeShare, ExpireShare
  <2>2. SharesTypeOK'
    BY <1>t, <1>c, <2>1 DEF SharesTypeOK
  <2>3. QED
    BY <1>t, <2>1, <2>2, LinksOnlyEnd DEF SharesTypeOK
<1>3. ASSUME NEW l \in Checklist, RefreshItems(l) \/ TickAsMember(l)
      PROVE  SharesInv'
  <2>0. checklist' \in [Checklist -> [item : Nat, checked : BOOLEAN]]
    <3>1. CASE RefreshItems(l)
      BY <1>c, <3>1 DEF RefreshItems
    <3>2. CASE TickAsMember(l)
      BY <1>c, <3>2 DEF TickAsMember
    <3>3. QED
      BY <1>3, <3>1, <3>2
  <2>1. SharesTypeOK'
    BY <1>t, <1>3, <2>0 DEF RefreshItems, TickAsMember, SharesTypeOK
  <2>2. QED
    BY <1>3, <2>1, LinksOnlyEnd DEF RefreshItems, TickAsMember
<1>4. ASSUME NEW s \in Share, FollowLink(s)
      PROVE  SharesInv'
  <2>1. /\ visitor' = [pc |-> "exchange", url |-> s, page |-> NoPage, does |-> "read", sent |-> NoShare,
                       list |-> NoPage.list, late |-> FALSE]
        /\ shares[s].status # "none" /\ UNCHANGED <<shares, checklist, cookie>>
    BY <1>4 DEF FollowLink, Closed
  <2>2. NoPage \in Page /\ NoPage.list \in Checklist
    BY WebSharesAssumption DEF NoPage, Page
  <2>3. SharesTypeOK'
    BY <1>t, <1>c, <2>1, <2>2 DEF SharesTypeOK
  <2>4. QED
    BY <2>1, <2>3 DEF SharesInv, TabHasLink, LateFindsItEnded, ResolvedIsOwn
<1>5. ASSUME NEW s \in Share, OtherTab(s)
      PROVE  SharesInv'
  <2>1. SharesTypeOK'
    BY <1>t, <1>c, <1>5 DEF OtherTab, SharesTypeOK
  <2>2. QED
    BY <1>5, <2>1, LinksOnlyEnd DEF OtherTab
<1>6. CASE Exchange
  <2>1. CASE TabAwaits("exchanged")
    BY <1>t, <1>6, <2>1 DEF Exchange, TabAwaits, SharesInv, SharesTypeOK, TabHasLink, LateFindsItEnded, ResolvedIsOwn
  <2>2. CASE Close
    BY <1>c, <1>6, <2>2, ClosingKeeps DEF Exchange
  <2>3. QED
    BY <1>6, <2>1, <2>2 DEF Exchange
<1>7. CASE TakeCookie
  <2>1. visitor.pc # "closed" /\ visitor.url \in AnyShare
    BY <1>7, <1>t DEF TakeCookie, SharesTypeOK
  <2>2. QED
    BY <1>c, <1>7, <2>1, SendingKeeps DEF TakeCookie
<1>8. CASE ResolveShare
  <2>1. CASE Resolves(visitor.sent, visitor.url)
    <3>1. /\ visitor.pc = "resolve" /\ UNCHANGED <<shares, checklist, cookie>>
          /\ visitor.sent = visitor.url /\ shares[visitor.url].status = "live"
          /\ visitor' = [visitor EXCEPT !.pc = visitor.does, !.list = shares[visitor.sent].list, !.sent = NoShare]
      BY <1>8, <2>1 DEF ResolveShare, Resolves
    <3>2. visitor.url \in Share /\ shares[visitor.url].list \in Checklist /\ ~visitor.late
      BY <1>t, <3>1 DEF SharesTypeOK, TabHasLink, LateFindsItEnded
    <3>3. QED
      BY <1>t, <1>c, <3>1, <3>2 DEF SharesInv, SharesTypeOK, TabHasLink, LateFindsItEnded, ResolvedIsOwn
  <2>2. CASE Close
    BY <1>c, <1>8, <2>2, ClosingKeeps DEF ResolveShare
  <2>3. QED
    BY <1>8, <2>1, <2>2 DEF ResolveShare
<1>9. CASE ReadPublic
  <2>1. /\ visitor.pc = "read" /\ UNCHANGED <<shares, checklist, cookie>>
        /\ visitor' = [pc |-> "open", url |-> visitor.url, does |-> "read", sent |-> NoShare,
                       list |-> NoPage.list, late |-> FALSE,
                       page |-> [list |-> visitor.list, item |-> checklist[visitor.list].item]]
    BY <1>9 DEF ReadPublic, Closed
  <2>2. NoPage.list \in Checklist
    BY WebSharesAssumption DEF NoPage
  <2>3. visitor.list \in Checklist /\ [list |-> visitor.list, item |-> checklist[visitor.list].item] \in Page
    BY <1>t DEF SharesTypeOK, Page
  <2>4. SharesTypeOK'
    BY <1>t, <1>c, <2>1, <2>2, <2>3 DEF SharesTypeOK
  <2>5. QED
    BY <1>t, <2>1, <2>4 DEF SharesInv, TabHasLink, LateFindsItEnded, ResolvedIsOwn
<1>10. CASE Logout
  BY <1>c, <1>10, ClosingKeeps DEF Logout
<1>11. ASSUME NEW does \in {"read", "tick"}, AskAgain(does)
       PROVE  SharesInv'
  BY <1>c, <1>11, SendingKeeps DEF AskAgain
<1>12. ASSUME NEW checked \in BOOLEAN, TickPublic(checked)
       PROVE  SharesInv'
  <2>1. visitor.list \in Checklist /\ UNCHANGED <<shares, cookie>> /\ visitor.pc = "tick"
    BY <1>t, <1>12 DEF TickPublic, SharesTypeOK
  <2>2. checklist' \in [Checklist -> [item : Nat, checked : BOOLEAN]]
    BY <1>c, <1>12, <2>1 DEF TickPublic
  <2>3. CASE visitor' = Sent("read")
    BY <1>c, <2>1, <2>2, <2>3, SendingKeeps
  <2>4. CASE Close
    BY <1>c, <2>1, <2>2, <2>4, ClosingKeeps
  <2>5. QED
    BY <1>12, <2>3, <2>4 DEF TickPublic
<1>13. CASE UNCHANGED shareVars
  BY <1>t, <1>13, LinksOnlyEnd DEF shareVars, SharesTypeOK
<1>14. QED
  BY <1>1, <1>2, <1>3, <1>4, <1>5, <1>6, <1>7, <1>8, <1>9, <1>10, <1>11, <1>12, <1>13
     DEF WebSharesNext, SharesPost, SharePage, CreateShoppingListLink, ShareDelete, SharePageRevoke,
         RevokeShoppingListLink

\* What a step does to the page and to the lists while the tab reads or ticks.
LEMMA GuestStaysInside ==
    ASSUME SharesInv, WebSharesNext, visitor.pc \in {"read", "tick"}, visitor' # visitor
    PROVE  /\ ~visitor.late
           /\ visitor'.page \notin {visitor.page, NoPage} => visitor'.page.list = shares[visitor.url].list
           /\ \A l \in Checklist : checklist'[l] # checklist[l] =>
                 /\ l = shares[visitor.url].list
                 /\ visitor.page = [list |-> shares[visitor.url].list, item |-> checklist[l].item]
<1>1. ~visitor.late /\ visitor.list = shares[visitor.url].list
  BY DEF SharesInv, ResolvedIsOwn
<1>2. ReadPublic \/ \E checked \in BOOLEAN : TickPublic(checked)
  BY DEF WebSharesNext, SharesPost, SharePage, CreateShoppingListLink, CreateShare, ShareDelete, SharePageRevoke,
         RevokeShoppingListLink, RevokeShare, ExpireShare, RefreshItems, TickAsMember, FollowLink, OtherTab,
         Exchange, TakeCookie, ResolveShare, Logout, AskAgain
<1>3. CASE ReadPublic
  BY <1>1, <1>3 DEF ReadPublic, Closed
<1>4. ASSUME NEW checked \in BOOLEAN, TickPublic(checked)
      PROVE  /\ visitor'.page \in {visitor.page, NoPage}
             /\ \A l \in Checklist : checklist'[l] # checklist[l] =>
                   l = visitor.list /\ visitor.page = [list |-> visitor.list, item |-> checklist[l].item]
  <2>1. visitor \in [pc : {"closed", "exchange", "exchanged", "resolve", "read", "tick", "open"},
                     url : AnyShare, page : Page, does : {"read", "tick"}, sent : AnyShare,
                     list : Checklist, late : BOOLEAN]
        /\ checklist \in [Checklist -> [item : Nat, checked : BOOLEAN]]
    BY DEF SharesInv, SharesTypeOK
  <2>2. CASE visitor.page = [list |-> visitor.list, item |-> checklist[visitor.list].item]
    BY <1>4, <2>1, <2>2 DEF TickPublic, Sent
  <2>3. CASE visitor.page # [list |-> visitor.list, item |-> checklist[visitor.list].item]
    BY <1>4, <2>3 DEF TickPublic, Close, Closed
  <2>4. QED
    BY <2>2, <2>3
<1>5. QED
  BY <1>1, <1>2, <1>3, <1>4

\* A guest reads and ticks the list of the link in the address, only by a request
\* that was sent while the link was live, and ticks an item only as the page shows
\* it (shares.ts, shopping.ts).
THEOREM GuestsStayInsideHolds == WebSharesSpec => GuestsStayInside
<1>1. SharesInv /\ [WebSharesNext]_shareVars =>
        [LET own == shares[visitor.url].list
         IN  visitor.pc \in {"read", "tick"} /\ visitor' # visitor =>
                /\ ~visitor.late
                /\ visitor'.page \notin {visitor.page, NoPage} => visitor'.page.list = own
                /\ \A l \in Checklist : checklist'[l] # checklist[l] =>
                      l = own /\ visitor.page = [list |-> own, item |-> checklist[l].item]]_shareVars
  BY GuestStaysInside DEF shareVars
<1>2. QED
  BY <1>1, SharesInitially, SharesStep, PTL DEF WebSharesSpec, GuestsStayInside

-------------------------------------------------------------------------------
(* WebHouseholds                                                               *)

SomeHouse == Person \cup {NoHouse}

Making  == {"house", "member"}
Settled == {"default", "settle"}
Wishes  == {"look", "switch", "revoke", "invite"}
Phases  == {"idle", "profile", "pick", "limit", "replace", "insert", "accept", "join"}
              \cup Making \cup Settled \cup Wishes

TabType == [pc : Phases, who : SomeHouse, kind : {"none"} \cup Wishes, house : SomeHouse,
            wanted : SUBSET (Person \cup Invite)]

HouseholdsTypeOK ==
    /\ accounts \subseteq Person /\ houses \subseteq Person
    /\ members \subseteq [house : Person, user : Person, role : {"owner", "adult"}]
    /\ default \in [Person -> SomeHouse]
    /\ invites \in [Invite -> [status : {"none", "pending", "accepted", "revoked"}, house : SomeHouse,
                              to : SomeHouse, by : SomeHouse, expired : BOOLEAN]]
    /\ tab \in [InviteTab -> TabType]

\* A request that is made of a wish does that, and for one person where it needs one.
WishIsKept(s) ==
    /\ s.pc # "idle" => s.who \in Person
    /\ s.pc \in {"profile", "pick", "default"} \cup Making => s.kind \in Wishes
    /\ s.pc \in Wishes => s.kind = s.pc
    /\ s.pc \in {"limit", "replace", "insert"} => s.kind = "invite"
    /\ s.kind \in {"switch", "invite"} => \E w \in Person : s.wanted = {w}

\* What entitles a request to the membership or the default that it writes next.
IsEntitled(s) ==
    /\ s.pc \in Making \cup Settled \cup Wishes \cup {"limit", "replace", "insert", "join"} => s.house \in Person
    /\ s.pc \in Making => s.house = s.who \/ IsMember(s.house, s.who)
    /\ s.pc \in Settled => IsMember(s.house, s.who)
    /\ s.pc = "join" => \E i \in Invite : /\ invites[i].status = "accepted"
                                         /\ invites[i].house = s.house /\ invites[i].to = s.who

TabInv(t) == tab[t] \in TabType /\ WishIsKept(tab[t]) /\ IsEntitled(tab[t])

\* An invitation that has been made is to a household.
InvitesHaveHouse == \A i \in Created : invites[i].house \in Person /\ invites[i].to \in Person

HouseholdsInv ==
    HouseholdsTypeOK /\ InvitesHaveHouse /\ MembershipsAreEarned /\ \A t \in InviteTab : TabInv(t)

LEMMA HouseholdsInitially == WebHouseholdsInit => HouseholdsInv
<1> SUFFICES ASSUME WebHouseholdsInit PROVE HouseholdsInv
  OBVIOUS
<1> USE DEF WebHouseholdsInit
<1>1. NoTab \in TabType /\ NoTab.pc = "idle" /\ NoTab.kind = "none"
  BY DEF NoTab, TabType, SomeHouse, Phases
<1>2. HouseholdsTypeOK
  BY <1>1 DEF HouseholdsTypeOK, SomeHouse
<1>3. \A t \in InviteTab : TabInv(t)
  BY <1>1 DEF TabInv, WishIsKept, IsEntitled, Making, Settled, Wishes
<1>4. InvitesHaveHouse
  BY DEF InvitesHaveHouse, Created
<1>5. MembershipsAreEarned
  BY DEF MembershipsAreEarned
<1>6. QED
  BY <1>2, <1>3, <1>4, <1>5 DEF HouseholdsInv

\* What a step may not take away: a membership, an accepted invitation.
HouseholdsGrow ==
    /\ \A m \in members : m \in members'
    /\ \A i \in Invite : invites[i].status = "accepted" => invites'[i] = invites[i]

\* What entitles a request to its next write stays when others write.
LEMMA EntitledStays ==
    ASSUME HouseholdsGrow, NEW s, IsEntitled(s)
    PROVE  IsEntitled(s)'
  BY DEF HouseholdsGrow, IsEntitled, IsMember

\* A step keeps the invariant if it keeps the types, what has been earned, and
\* the invariant of the one request that moves.
LEMMA OneTabMoves ==
    ASSUME HouseholdsInv, HouseholdsGrow, HouseholdsTypeOK', InvitesHaveHouse', MembershipsAreEarned',
           NEW t \in InviteTab, NEW s, tab' = [tab EXCEPT ![t] = s],
           s \in TabType, WishIsKept(s), IsEntitled(s)'
    PROVE  HouseholdsInv'
<1>0. tab \in [InviteTab -> TabType]
  BY DEF HouseholdsInv, HouseholdsTypeOK
<1>1. ASSUME NEW r \in InviteTab PROVE TabInv(r)'
  <2>1. CASE r = t
    BY <1>0, <2>1 DEF TabInv, WishIsKept
  <2>2. CASE r # t
    BY <1>0, <2>2, EntitledStays DEF HouseholdsInv, TabInv, WishIsKept
  <2>3. QED
    BY <2>1, <2>2
<1>2. QED
  BY <1>1 DEF HouseholdsInv

\* A request that is over, and one that only moves on, without a write.
LEMMA NothingWritten ==
    ASSUME HouseholdsInv, UNCHANGED <<houses, members, default, invites>>, accounts' \subseteq Person,
           NEW t \in InviteTab, NEW s, tab' = [tab EXCEPT ![t] = s],
           s \in TabType, WishIsKept(s), IsEntitled(s)
    PROVE  HouseholdsInv'
<1>1. HouseholdsTypeOK'
  BY DEF HouseholdsInv, HouseholdsTypeOK
<1>2. InvitesHaveHouse' /\ MembershipsAreEarned' /\ HouseholdsGrow
  BY DEF HouseholdsInv, InvitesHaveHouse, MembershipsAreEarned, HouseholdsGrow, Created, IsMember
<1>3. QED
  BY <1>1, <1>2, OneTabMoves, EntitledStays

\* A request that has ended is entitled to nothing.
LEMMA NoTabFacts == NoTab \in TabType /\ WishIsKept(NoTab) /\ IsEntitled(NoTab) /\ IsEntitled(NoTab)'
<1>1. NoTab \in TabType /\ NoTab.pc = "idle" /\ NoTab.kind = "none"
  BY DEF NoTab, TabType, SomeHouse, Phases
<1>2. QED
  BY <1>1 DEF WishIsKept, IsEntitled, Making, Settled, Wishes

\* A person's new default is one of that person's households.
LEMMA DefaultIsMembership ==
    ASSUME HouseholdsInv, UNCHANGED <<accounts, houses, members, invites>>, tab' \in [InviteTab -> TabType],
           NEW u \in Person, NEW h \in Person, IsMember(h, u), default' = [default EXCEPT ![u] = h]
    PROVE  HouseholdsTypeOK' /\ InvitesHaveHouse' /\ MembershipsAreEarned' /\ HouseholdsGrow
<1>1. HouseholdsTypeOK'
  BY DEF HouseholdsInv, HouseholdsTypeOK, SomeHouse
<1>2. InvitesHaveHouse' /\ HouseholdsGrow
  BY DEF HouseholdsInv, InvitesHaveHouse, Created, HouseholdsGrow
<1>3. \A v \in Person : default'[v] # NoHouse => IsMember(default'[v], v)
  BY DEF HouseholdsInv, HouseholdsTypeOK, MembershipsAreEarned
<1>4. MembershipsAreEarned'
  BY <1>3 DEF HouseholdsInv, MembershipsAreEarned, IsMember
<1>5. QED
  BY <1>1, <1>2, <1>4

\* What the writes of the invitations have in common: those that are accepted stay
\* as they are, those that are new have a household, and an accepted one is by its
\* addressee.
LEMMA InvitesChange ==
    ASSUME HouseholdsInv, UNCHANGED <<houses, members, default>>, accounts' \subseteq Person,
           tab' \in [InviteTab -> TabType],
           invites' \in [Invite -> [status : {"none", "pending", "accepted", "revoked"}, house : SomeHouse,
                                   to : SomeHouse, by : SomeHouse, expired : BOOLEAN]],
           \A i \in Invite : invites'[i] = invites[i] \/
              /\ invites[i].status # "accepted"
              /\ invites'[i].house \in Person /\ invites'[i].to \in Person
              /\ invites'[i].status = "accepted" => invites'[i].by = invites'[i].to
    PROVE  HouseholdsTypeOK' /\ InvitesHaveHouse' /\ MembershipsAreEarned' /\ HouseholdsGrow
<1>1. HouseholdsTypeOK'
  BY DEF HouseholdsInv, HouseholdsTypeOK
<1>2. InvitesHaveHouse' /\ HouseholdsGrow
  BY DEF HouseholdsInv, InvitesHaveHouse, Created, HouseholdsGrow
<1>3. MembershipsAreEarned'
  BY <1>2 DEF HouseholdsInv, MembershipsAreEarned, IsMember, HouseholdsGrow
<1>4. QED
  BY <1>1, <1>2, <1>3

LEMMA HouseholdsStep ==
    ASSUME HouseholdsInv, [WebHouseholdsNext]_householdVars
    PROVE  HouseholdsInv'
<1>t. /\ HouseholdsTypeOK /\ InvitesHaveHouse /\ MembershipsAreEarned
      /\ \A t \in InviteTab : tab[t] \in TabType /\ WishIsKept(tab[t]) /\ IsEntitled(tab[t])
  BY DEF HouseholdsInv, TabInv
<1>s. NoHouse \in SomeHouse /\ Person \subseteq SomeHouse /\ NoHouse \notin Person
  BY WebHouseholdsAssumption DEF SomeHouse
<1>1. ASSUME NEW u \in Person, SignUp(u)
      PROVE  HouseholdsInv'
  BY <1>1, <1>t DEF SignUp, HouseholdsInv, HouseholdsTypeOK, InvitesHaveHouse, MembershipsAreEarned, TabInv,
     IsEntitled, IsMember, Created, WishIsKept
<1>2. ASSUME NEW t \in InviteTab, NEW u \in Person, NEW kind \in Wishes,
             NEW wanted \in SUBSET Person, BeginRequest(t, u, kind, wanted),
             kind \in {"switch", "invite"} => \E w \in Person : wanted = {w}
      PROVE  HouseholdsInv'
  <2> DEFINE s == [NoTab EXCEPT !.pc = "profile", !.who = u, !.kind = kind, !.wanted = wanted]
  <2>1. s \in TabType
    BY <1>s, NoTabFacts DEF TabType, Phases
  <2>2. s.pc = "profile" /\ s.who = u /\ s.kind = kind /\ s.wanted = wanted
    BY DEF NoTab
  <2>3. WishIsKept(s) /\ IsEntitled(s)
    BY <1>2, <2>2 DEF WishIsKept, IsEntitled, Making, Settled, Wishes
  <2>4. tab' = [tab EXCEPT ![t] = s] /\ UNCHANGED <<accounts, houses, members, default, invites>>
    BY <1>2 DEF BeginRequest
  <2>5. accounts' \subseteq Person
    BY <1>t, <2>4 DEF HouseholdsTypeOK
  <2> HIDE DEF s
  <2>6. QED
    BY <2>1, <2>3, <2>4, <2>5, NothingWritten
<1>3. ASSUME NEW t \in InviteTab, ReadProfile(t)
      PROVE  HouseholdsInv'
  <2> DEFINE s == [tab[t] EXCEPT !.pc = "pick", !.house = default[tab[t].who]]
  <2>1. tab[t] \in TabType /\ tab[t].pc = "profile" /\ tab[t].who \in Person
    BY <1>t, <1>3 DEF ReadProfile, TabAt, WishIsKept
  <2>2. default[tab[t].who] \in SomeHouse
    BY <1>t, <2>1 DEF HouseholdsTypeOK
  <2>3. s \in TabType /\ WishIsKept(s) /\ IsEntitled(s)
    BY <1>t, <2>1, <2>2 DEF TabType, Phases, WishIsKept, IsEntitled, Making, Settled, Wishes
  <2>4. tab' = [tab EXCEPT ![t] = s] /\ UNCHANGED <<accounts, houses, members, default, invites>>
    BY <1>t, <1>3 DEF ReadProfile, HouseholdsTypeOK
  <2>5. accounts' \subseteq Person
    BY <1>t, <2>4 DEF HouseholdsTypeOK
  <2> HIDE DEF s
  <2>6. QED
    BY <2>3, <2>4, <2>5, NothingWritten
<1>4. ASSUME NEW t \in InviteTab, NEW h \in Person, PickHousehold(t, h)
      PROVE  HouseholdsInv'
  <2> DEFINE mine == {m.house : m \in {n \in members : n.user = tab[t].who}}
             s == IF tab[t].house \in mine THEN [tab[t] EXCEPT !.pc = tab[t].kind]
                  ELSE [tab[t] EXCEPT !.pc = "house", !.house = h]
  <2>1. tab[t] \in TabType /\ tab[t].pc = "pick" /\ tab[t].who \in Person /\ tab[t].kind \in Wishes
    BY <1>t, <1>4 DEF PickHousehold, TabAt, WishIsKept
  <2>2. tab[t].house \notin mine => h \in mine \/ h = tab[t].who
    BY <1>4 DEF PickHousehold
  <2>3. /\ h \in mine => IsMember(h, tab[t].who)
        /\ tab[t].house \in mine => tab[t].house \in Person
    BY <1>t DEF IsMember, HouseholdsTypeOK
  <2>4. tab' = [tab EXCEPT ![t] = s] /\ UNCHANGED <<accounts, houses, members, default, invites>>
    BY <1>t, <1>4 DEF PickHousehold, TabGoto, HouseholdsTypeOK
  <2>5. s \in TabType
    <3>1. CASE tab[t].house \in mine
      BY <2>1, <3>1 DEF TabType, Phases
    <3>2. CASE tab[t].house \notin mine
      BY <2>1, <3>2, <1>s DEF TabType, Phases, Making
    <3>3. QED
      BY <3>1, <3>2
  <2>6. WishIsKept(s) /\ IsEntitled(s)
    <3>1. CASE tab[t].house \in mine
      BY <1>t, <2>1, <2>3, <3>1 DEF TabType, WishIsKept, IsEntitled, Making, Settled, Wishes
    <3>2. CASE tab[t].house \notin mine
      BY <1>t, <2>1, <2>2, <2>3, <3>2 DEF TabType, WishIsKept, IsEntitled, Making, Settled, Wishes
    <3>3. QED
      BY <3>1, <3>2
  <2>7. accounts' \subseteq Person
    BY <1>t, <2>4 DEF HouseholdsTypeOK
  <2> HIDE DEF s
  <2>8. QED
    BY <2>4, <2>5, <2>6, <2>7, NothingWritten
<1>5. ASSUME NEW t \in InviteTab, UpsertHousehold(t)
      PROVE  HouseholdsInv'
  <2> DEFINE s == [tab[t] EXCEPT !.pc = "member"]
  <2>1. tab[t] \in TabType /\ tab[t].pc = "house" /\ WishIsKept(tab[t]) /\ IsEntitled(tab[t])
    BY <1>t, <1>5 DEF UpsertHousehold, TabAt
  <2>2. s \in TabType /\ WishIsKept(s) /\ IsEntitled(s) /\ tab[t].house \in Person
    BY <2>1 DEF TabType, Phases, WishIsKept, IsEntitled, Making, Settled, Wishes
  <2>3. /\ tab' = [tab EXCEPT ![t] = s] /\ houses' = houses \cup {tab[t].house}
        /\ UNCHANGED <<accounts, members, default, invites>>
    BY <1>t, <1>5 DEF UpsertHousehold, TabGoto, HouseholdsTypeOK
  <2>4. tab' \in [InviteTab -> TabType]
    BY <1>t, <2>2, <2>3 DEF HouseholdsTypeOK
  <2>5. HouseholdsTypeOK' /\ InvitesHaveHouse' /\ MembershipsAreEarned' /\ HouseholdsGrow
    BY <1>t, <2>2, <2>3, <2>4 DEF HouseholdsTypeOK, InvitesHaveHouse, MembershipsAreEarned, HouseholdsGrow, Created, IsMember
  <2> HIDE DEF s
  <2>6. QED
    BY <2>2, <2>3, <2>5, OneTabMoves, EntitledStays
<1>6. ASSUME NEW t \in InviteTab, UpsertMembership(t)
      PROVE  HouseholdsInv'
  <2>0. PICK s, m : s = [tab[t] EXCEPT !.pc = "default"] /\ m = Membership(tab[t].house, tab[t].who, "owner")
    OBVIOUS
  <2>1. tab[t] \in TabType /\ tab[t].pc = "member" /\ WishIsKept(tab[t]) /\ IsEntitled(tab[t])
    BY <1>t, <1>6 DEF UpsertMembership, TabAt
  <2>2. /\ s \in TabType /\ WishIsKept(s) /\ tab[t].house \in Person /\ tab[t].who \in Person
        /\ tab[t].house = tab[t].who \/ IsMember(tab[t].house, tab[t].who)
    BY <2>0, <2>1 DEF TabType, Phases, WishIsKept, IsEntitled, Making, Settled, Wishes
  <2>3. /\ tab' = [tab EXCEPT ![t] = s] /\ members' = WithMember(tab[t].house, tab[t].who, "owner")
        /\ UNCHANGED <<accounts, houses, default, invites>>
    BY <1>t, <1>6, <2>0 DEF UpsertMembership, TabGoto, HouseholdsTypeOK
  <2>4. tab' \in [InviteTab -> TabType]
    BY <1>t, <2>2, <2>3 DEF HouseholdsTypeOK
  <2>5. /\ m \in [house : Person, user : Person, role : {"owner", "adult"}]
        /\ m.house = tab[t].house /\ m.user = tab[t].who /\ m.role = "owner"
    BY <2>0, <2>2 DEF Membership
  <2>6. /\ members' = members \/ (members' = members \cup {m} /\ m.house = m.user)
        /\ \E n \in members' : n.house = tab[t].house /\ n.user = tab[t].who
    <3>1. CASE IsMember(tab[t].house, tab[t].who)
      BY <2>3, <3>1 DEF WithMember, IsMember
    <3>2. CASE ~IsMember(tab[t].house, tab[t].who)
      BY <2>0, <2>2, <2>3, <2>5, <3>2 DEF WithMember
    <3>3. QED
      BY <3>1, <3>2
  <2>7. HouseholdsTypeOK' /\ InvitesHaveHouse' /\ HouseholdsGrow
    BY <1>t, <2>3, <2>4, <2>5, <2>6 DEF HouseholdsTypeOK, InvitesHaveHouse, HouseholdsGrow, Created
  <2>8. MembershipsAreEarned'
    BY <1>t, <2>3, <2>5, <2>6 DEF MembershipsAreEarned, IsMember
  <2>9. IsEntitled(s)'
    BY <2>0, <2>1, <2>2, <2>6 DEF TabType, IsEntitled, IsMember, Making, Settled, Wishes
  <2>10. QED
    BY <2>2, <2>3, <2>7, <2>8, <2>9, OneTabMoves
<1>7. ASSUME NEW t \in InviteTab, WriteDefault(t)
      PROVE  HouseholdsInv'
  <2> DEFINE s == [tab[t] EXCEPT !.pc = tab[t].kind]
  <2>1. tab[t] \in TabType /\ tab[t].pc = "default" /\ WishIsKept(tab[t]) /\ IsEntitled(tab[t])
    BY <1>t, <1>7 DEF WriteDefault, TabAt
  <2>2. /\ s \in TabType /\ WishIsKept(s) /\ IsEntitled(s) /\ tab[t].house \in Person /\ tab[t].who \in Person
        /\ IsMember(tab[t].house, tab[t].who)
    BY <2>1 DEF TabType, Phases, WishIsKept, IsEntitled, Making, Settled, Wishes
  <2>3. /\ tab' = [tab EXCEPT ![t] = s] /\ default' = [default EXCEPT ![tab[t].who] = tab[t].house]
        /\ UNCHANGED <<accounts, houses, members, invites>>
    BY <1>t, <1>7 DEF WriteDefault, TabGoto, HouseholdsTypeOK
  <2>4. tab' \in [InviteTab -> TabType]
    BY <1>t, <2>2, <2>3 DEF HouseholdsTypeOK
  <2> HIDE DEF s
  <2>5. QED
    BY <1>t, <1>s, <2>2, <2>3, <2>4, DefaultIsMembership, OneTabMoves, EntitledStays
<1>8. ASSUME NEW t \in InviteTab, Look(t) \/ TabLost(t)
      PROVE  HouseholdsInv'
  <2>1. tab' = [tab EXCEPT ![t] = NoTab] /\ UNCHANGED <<accounts, houses, members, default, invites>>
    BY <1>8 DEF Look, TabLost, TabOver
  <2>2. accounts' \subseteq Person
    BY <1>t, <2>1 DEF HouseholdsTypeOK
  <2>3. QED
    BY <2>1, <2>2, NoTabFacts, NothingWritten
<1>9. ASSUME NEW t \in InviteTab, SwitchDefault(t)
      PROVE  HouseholdsInv'
  <2>1. tab[t] \in TabType /\ tab[t].pc = "switch" /\ WishIsKept(tab[t])
    BY <1>t, <1>9 DEF SwitchDefault, TabAt
  <2>2. PICK w \in Person : tab[t].wanted = {w}
    BY <2>1 DEF WishIsKept, Wishes
  <2>3. tab[t].who \in Person
    BY <2>1 DEF WishIsKept
  <2>4. /\ tab' = [tab EXCEPT ![t] = NoTab] /\ UNCHANGED <<accounts, houses, members, invites>>
        /\ default' = default \/ (default' = [default EXCEPT ![tab[t].who] = w] /\ IsMember(w, tab[t].who))
    <3>1. CASE IsMember(w, tab[t].who)
      BY <1>9, <2>2, <3>1 DEF SwitchDefault, TabOver
    <3>2. CASE ~IsMember(w, tab[t].who)
      BY <1>t, <1>9, <2>2, <2>3, <3>2 DEF SwitchDefault, TabOver, HouseholdsTypeOK
    <3>3. QED
      BY <3>1, <3>2
  <2>5. tab' \in [InviteTab -> TabType]
    BY <1>t, <2>4, NoTabFacts DEF HouseholdsTypeOK
  <2>6. CASE default' = default
    BY <1>t, <2>4, <2>6, NoTabFacts, NothingWritten DEF HouseholdsTypeOK
  <2>7. CASE default' = [default EXCEPT ![tab[t].who] = w] /\ IsMember(w, tab[t].who)
    BY <1>t, <2>3, <2>4, <2>5, <2>7, NoTabFacts, DefaultIsMembership, OneTabMoves
  <2>8. QED
    BY <2>4, <2>6, <2>7
<1>10. ASSUME NEW t \in InviteTab, InviteCheck(t) \/ InviteCount(t)
       PROVE  HouseholdsInv'
  <2>1. PICK s \in {NoTab, [tab[t] EXCEPT !.pc = "limit"], [tab[t] EXCEPT !.pc = "replace"]} :
          tab' = [tab EXCEPT ![t] = s]
    BY <1>10, <1>t DEF InviteCheck, InviteCount, TabGoto, TabOver, HouseholdsTypeOK
  <2>2. /\ tab[t] \in TabType /\ tab[t].pc \in {"invite", "limit"} /\ WishIsKept(tab[t])
        /\ UNCHANGED <<accounts, houses, members, default, invites>>
    BY <1>t, <1>10 DEF InviteCheck, InviteCount, TabAt
  <2>3. /\ s \in TabType /\ WishIsKept(s) /\ IsEntitled(s)
        /\ accounts' \subseteq Person
    BY <1>t, <2>2, NoTabFacts DEF TabType, Phases, WishIsKept, IsEntitled, Making, Settled, Wishes, HouseholdsTypeOK
  <2>4. QED
    BY <2>1, <2>2, <2>3, NothingWritten
<1>11. ASSUME NEW t \in InviteTab, InviteReplace(t)
       PROVE  HouseholdsInv'
  <2>0. PICK s : s = [tab[t] EXCEPT !.pc = "insert"]
    OBVIOUS
  <2>1. tab[t] \in TabType /\ tab[t].pc = "replace" /\ WishIsKept(tab[t]) /\ IsEntitled(tab[t])
    BY <1>t, <1>11 DEF InviteReplace, TabAt
  <2>2. s \in TabType /\ WishIsKept(s) /\ IsEntitled(s)
    BY <2>0, <2>1 DEF TabType, Phases, WishIsKept, IsEntitled, Making, Settled, Wishes
  <2>3. /\ tab' = [tab EXCEPT ![t] = s] /\ UNCHANGED <<accounts, houses, members, default>>
        /\ invites' = [i \in Invite |->
                     IF \E u \in tab[t].wanted : i \in Pending(tab[t].house, u)
                     THEN [invites[i] EXCEPT !.status = "revoked"] ELSE invites[i]]
    BY <1>t, <1>11, <2>0 DEF InviteReplace, TabGoto, HouseholdsTypeOK
  <2>4. \A i \in Invite : invites[i] \in [status : {"none", "pending", "accepted", "revoked"}, house : SomeHouse,
                                          to : SomeHouse, by : SomeHouse, expired : BOOLEAN]
    BY <1>t DEF HouseholdsTypeOK
  <2>5. \A i \in Invite : invites'[i] = invites[i] \/
            (invites[i].status = "pending" /\ invites'[i] = [invites[i] EXCEPT !.status = "revoked"])
    BY <2>3 DEF Pending
  <2>6. \A i \in Invite : invites[i].status = "pending" => invites[i].house \in Person /\ invites[i].to \in Person
    BY <1>t DEF InvitesHaveHouse, Created
  <2>7. tab' \in [InviteTab -> TabType] /\ accounts' \subseteq Person
    BY <1>t, <2>2, <2>3 DEF HouseholdsTypeOK
  <2>8. invites' \in [Invite -> [status : {"none", "pending", "accepted", "revoked"}, house : SomeHouse,
                               to : SomeHouse, by : SomeHouse, expired : BOOLEAN]]
    BY <2>3, <2>4
  <2>9. HouseholdsTypeOK' /\ InvitesHaveHouse' /\ MembershipsAreEarned' /\ HouseholdsGrow
    BY <2>3, <2>4, <2>5, <2>6, <2>7, <2>8, InvitesChange
  <2>10. QED
    BY <2>2, <2>3, <2>9, OneTabMoves, EntitledStays
<1>12. ASSUME NEW t \in InviteTab, NEW i \in Invite, InviteInsert(t, i)
       PROVE  HouseholdsInv'
  <2>1. tab[t] \in TabType /\ tab[t].pc = "insert" /\ WishIsKept(tab[t])
    BY <1>t, <1>12 DEF InviteInsert, TabAt
  <2>2. tab[t].wanted \subseteq Person /\ tab[t].house \in SomeHouse
    BY <2>1 DEF TabType, WishIsKept
  <2>3. PICK u \in tab[t].wanted :
          invites' = [invites EXCEPT ![i] = [status |-> "pending", house |-> tab[t].house,
                                             to |-> u, by |-> NoHouse, expired |-> FALSE]]
    BY <1>12 DEF InviteInsert
  <2>4. tab' = [tab EXCEPT ![t] = NoTab] /\ UNCHANGED <<accounts, houses, members, default>> /\ invites[i].status = "none"
    BY <1>12 DEF InviteInsert, TabOver, Created
  <2>5. tab' \in [InviteTab -> TabType] /\ accounts' \subseteq Person
    BY <1>t, <2>4, NoTabFacts DEF HouseholdsTypeOK
  <2>6. invites' \in [Invite -> [status : {"none", "pending", "accepted", "revoked"}, house : SomeHouse,
                               to : SomeHouse, by : SomeHouse, expired : BOOLEAN]]
    BY <1>t, <1>s, <2>2, <2>3 DEF HouseholdsTypeOK
  <2>7. tab[t].house \in Person
    BY <1>t, <2>1 DEF IsEntitled
  <2>8. HouseholdsTypeOK' /\ InvitesHaveHouse' /\ MembershipsAreEarned' /\ HouseholdsGrow
    BY <1>t, <2>2, <2>3, <2>4, <2>5, <2>6, <2>7, InvitesChange DEF HouseholdsTypeOK
  <2>9. QED
    BY <2>4, <2>8, NoTabFacts, OneTabMoves
<1>13. ASSUME NEW t \in InviteTab, NEW i \in Invite, RevokeInvitation(t, i)
       PROVE  HouseholdsInv'
  <2>1. tab' = [tab EXCEPT ![t] = NoTab] /\ UNCHANGED <<accounts, houses, members, default>>
    BY <1>13 DEF RevokeInvitation, TabOver
  <2>2. invites' = invites \/ (invites[i].status = "pending" /\ invites' = [invites EXCEPT ![i].status = "revoked"])
    BY <1>13 DEF RevokeInvitation
  <2>3. tab' \in [InviteTab -> TabType] /\ accounts' \subseteq Person
    BY <1>t, <2>1, NoTabFacts DEF HouseholdsTypeOK
  <2>4. invites[i].status = "pending" => invites[i].house \in Person /\ invites[i].to \in Person
    BY <1>t DEF InvitesHaveHouse, Created
  <2>5. HouseholdsTypeOK' /\ InvitesHaveHouse' /\ MembershipsAreEarned' /\ HouseholdsGrow
    BY <1>t, <2>1, <2>2, <2>3, <2>4, InvitesChange DEF HouseholdsTypeOK
  <2>6. QED
    BY <2>1, <2>5, NoTabFacts, OneTabMoves
<1>14. ASSUME NEW i \in Invite, Lapse(i)
       PROVE  HouseholdsInv'
  <2>1. /\ UNCHANGED <<accounts, houses, members, default, tab>> /\ invites[i].status = "pending"
        /\ invites' = [invites EXCEPT ![i].expired = TRUE]
    BY <1>14 DEF Lapse
  <2>2. invites[i].house \in Person /\ invites[i].to \in Person
    BY <1>t, <2>1 DEF InvitesHaveHouse, Created
  <2>3. HouseholdsTypeOK' /\ InvitesHaveHouse' /\ MembershipsAreEarned' /\ HouseholdsGrow
    BY <1>t, <2>1, <2>2, InvitesChange DEF HouseholdsTypeOK
  <2>4. \A t \in InviteTab : TabInv(t)'
    BY <1>t, <2>1, <2>3, EntitledStays DEF TabInv, WishIsKept
  <2>5. QED
    BY <2>3, <2>4 DEF HouseholdsInv
<1>15. ASSUME NEW t \in InviteTab, NEW u \in Person, NEW i \in Invite, ResolveInvitation(t, u, i)
       PROVE  HouseholdsInv'
  <2>0. PICK s : s = [NoTab EXCEPT !.pc = "accept", !.who = u, !.wanted = {i}]
    OBVIOUS
  <2>1. s \in TabType
    BY <1>s, <2>0, NoTabFacts DEF TabType, Phases
  <2>2. s.pc = "accept" /\ s.who = u /\ s.kind = "none"
    BY <2>0 DEF NoTab
  <2>3. WishIsKept(s) /\ IsEntitled(s)
    BY <2>2 DEF WishIsKept, IsEntitled, Making, Settled, Wishes
  <2>4. tab' = [tab EXCEPT ![t] = s] /\ UNCHANGED <<houses, members, default, invites>> /\ accounts' = accounts \cup {u}
    BY <1>15, <2>0 DEF ResolveInvitation
  <2>5. accounts' \subseteq Person
    BY <1>t, <2>4 DEF HouseholdsTypeOK
  <2>6. QED
    BY <2>1, <2>3, <2>4, <2>5, NothingWritten
<1>16. ASSUME NEW t \in InviteTab, NEW i \in Invite, AcceptInvitation(t, i)
       PROVE  HouseholdsInv'
  <2>1. tab[t] \in TabType /\ tab[t].pc = "accept" /\ WishIsKept(tab[t]) /\ tab[t].who \in Person
    BY <1>t, <1>16 DEF AcceptInvitation, TabAt, WishIsKept
  <2>2. CASE invites[i].to = tab[t].who /\ Valid(i)
    <3>0. PICK s : s = [tab[t] EXCEPT !.pc = "join", !.house = invites[i].house]
      OBVIOUS
    <3>1. /\ invites' = [invites EXCEPT ![i].status = "accepted", ![i].by = tab[t].who]
          /\ tab' = [tab EXCEPT ![t] = s] /\ UNCHANGED <<accounts, houses, members, default>>
          /\ invites[i].status = "pending"
      BY <1>t, <1>16, <2>2, <3>0 DEF AcceptInvitation, Valid, HouseholdsTypeOK
    <3>2. invites[i].house \in Person /\ invites[i].to \in Person
      BY <1>t, <3>1 DEF InvitesHaveHouse, Created
    <3>3. s \in TabType /\ WishIsKept(s)
      BY <1>s, <2>1, <3>0, <3>2 DEF TabType, Phases, WishIsKept, Making, Wishes
    <3>4. tab' \in [InviteTab -> TabType] /\ accounts' \subseteq Person
      BY <1>t, <3>1, <3>3 DEF HouseholdsTypeOK
    <3>5. /\ invites' \in [Invite -> [status : {"none", "pending", "accepted", "revoked"}, house : SomeHouse,
                                     to : SomeHouse, by : SomeHouse, expired : BOOLEAN]]
          /\ \A j \in Invite : j # i => invites'[j] = invites[j]
          /\ invites'[i].status = "accepted" /\ invites'[i].house = invites[i].house
          /\ invites'[i].to = tab[t].who /\ invites'[i].by = tab[t].who
      BY <1>t, <1>s, <2>1, <2>2, <3>1 DEF HouseholdsTypeOK
    <3>6. HouseholdsTypeOK' /\ InvitesHaveHouse' /\ MembershipsAreEarned' /\ HouseholdsGrow
      BY <2>1, <3>1, <3>2, <3>4, <3>5, InvitesChange
    <3>7. IsEntitled(s)'
      BY <2>1, <3>0, <3>2, <3>5 DEF TabType, IsEntitled, Making, Settled, Wishes
    <3>8. QED
      BY <3>1, <3>3, <3>6, <3>7, OneTabMoves
  <2>3. CASE ~(invites[i].to = tab[t].who /\ Valid(i))
    <3>1. tab' = [tab EXCEPT ![t] = NoTab] /\ UNCHANGED <<accounts, houses, members, default, invites>>
      BY <1>16, <2>3 DEF AcceptInvitation, TabOver
    <3>2. accounts' \subseteq Person
      BY <1>t, <3>1 DEF HouseholdsTypeOK
    <3>3. QED
      BY <3>1, <3>2, NoTabFacts, NothingWritten
  <2>4. QED
    BY <2>2, <2>3
<1>17. ASSUME NEW t \in InviteTab, JoinHousehold(t)
       PROVE  HouseholdsInv'
  <2>0. PICK s, m : s = [tab[t] EXCEPT !.pc = "settle"] /\ m = Membership(tab[t].house, tab[t].who, "adult")
    OBVIOUS
  <2>1. tab[t] \in TabType /\ tab[t].pc = "join" /\ WishIsKept(tab[t]) /\ IsEntitled(tab[t])
    BY <1>t, <1>17 DEF JoinHousehold, TabAt
  <2>2. /\ s \in TabType /\ WishIsKept(s) /\ tab[t].house \in Person /\ tab[t].who \in Person
        /\ \E i \in Invite : /\ invites[i].status = "accepted"
                            /\ invites[i].house = tab[t].house /\ invites[i].to = tab[t].who
    BY <2>0, <2>1 DEF TabType, Phases, WishIsKept, IsEntitled, Making, Settled, Wishes
  <2>3. /\ tab' = [tab EXCEPT ![t] = s] /\ members' = WithMember(tab[t].house, tab[t].who, "adult")
        /\ UNCHANGED <<accounts, houses, default, invites>>
    BY <1>t, <1>17, <2>0 DEF JoinHousehold, TabGoto, HouseholdsTypeOK
  <2>4. tab' \in [InviteTab -> TabType]
    BY <1>t, <2>2, <2>3 DEF HouseholdsTypeOK
  <2>5. /\ m \in [house : Person, user : Person, role : {"owner", "adult"}]
        /\ m.house = tab[t].house /\ m.user = tab[t].who /\ m.role = "adult"
    BY <2>0, <2>2 DEF Membership
  <2>6. /\ members' \in {members, members \cup {m}}
        /\ \E n \in members' : n.house = tab[t].house /\ n.user = tab[t].who
    <3>1. CASE IsMember(tab[t].house, tab[t].who)
      BY <2>3, <3>1 DEF WithMember, IsMember
    <3>2. CASE ~IsMember(tab[t].house, tab[t].who)
      BY <2>0, <2>2, <2>3, <2>5, <3>2 DEF WithMember
    <3>3. QED
      BY <3>1, <3>2
  <2>7. HouseholdsTypeOK' /\ InvitesHaveHouse' /\ HouseholdsGrow
    BY <1>t, <2>3, <2>4, <2>5, <2>6 DEF HouseholdsTypeOK, InvitesHaveHouse, HouseholdsGrow, Created
  <2>8. MembershipsAreEarned'
    BY <1>t, <2>2, <2>3, <2>5, <2>6 DEF MembershipsAreEarned, IsMember
  <2>9. IsEntitled(s)'
    BY <2>0, <2>1, <2>2, <2>6 DEF TabType, IsEntitled, IsMember, Making, Settled, Wishes
  <2>10. QED
    BY <2>2, <2>3, <2>7, <2>8, <2>9, OneTabMoves
<1>18. ASSUME NEW t \in InviteTab, SettleDefault(t)
       PROVE  HouseholdsInv'
  <2>1. tab[t] \in TabType /\ tab[t].pc = "settle" /\ WishIsKept(tab[t]) /\ IsEntitled(tab[t])
    BY <1>t, <1>18 DEF SettleDefault, TabAt
  <2>2. tab[t].house \in Person /\ tab[t].who \in Person /\ IsMember(tab[t].house, tab[t].who)
    BY <2>1 DEF WishIsKept, IsEntitled, Settled
  <2>3. /\ tab' = [tab EXCEPT ![t] = NoTab] /\ default' = [default EXCEPT ![tab[t].who] = tab[t].house]
        /\ UNCHANGED <<accounts, houses, members, invites>>
    BY <1>18 DEF SettleDefault, TabOver
  <2>4. tab' \in [InviteTab -> TabType]
    BY <1>t, <2>3, NoTabFacts DEF HouseholdsTypeOK
  <2>5. QED
    BY <2>2, <2>3, <2>4, NoTabFacts, DefaultIsMembership, OneTabMoves
<1>19. CASE UNCHANGED householdVars
  BY <1>t, <1>19 DEF householdVars, HouseholdsInv, HouseholdsTypeOK, InvitesHaveHouse, MembershipsAreEarned,
     TabInv, IsEntitled, IsMember, Created, WishIsKept
<1>20. ASSUME NEW t \in InviteTab, NEW u \in Person,
              \/ \E kind \in {"look", "revoke"} : BeginRequest(t, u, kind, {})
              \/ \E kind \in {"switch", "invite"}, w \in Person : BeginRequest(t, u, kind, {w})
       PROVE  HouseholdsInv'
  <2>1. ASSUME NEW kind \in {"look", "revoke"}, BeginRequest(t, u, kind, {})
        PROVE  HouseholdsInv'
    BY <1>2, <2>1 DEF Wishes
  <2>2. ASSUME NEW kind \in {"switch", "invite"}, NEW w \in Person, BeginRequest(t, u, kind, {w})
        PROVE  HouseholdsInv'
    BY <1>2, <2>2 DEF Wishes
  <2>3. QED
    BY <1>20, <2>1, <2>2
<1>21. QED
  BY <1>1, <1>3, <1>4, <1>5, <1>6, <1>7, <1>8, <1>9, <1>10, <1>11, <1>12, <1>13, <1>14, <1>15, <1>16,
     <1>17, <1>18, <1>19, <1>20
     DEF WebHouseholdsNext

\* Nobody is in a household without a right to it, and a default household is one
\* of the person's own, however the requests overlap (households.ts, tenant.ts).
THEOREM MembershipsAreEarnedHolds == WebHouseholdsSpec => []MembershipsAreEarned
<1>1. HouseholdsInv => MembershipsAreEarned
  BY DEF HouseholdsInv
<1>2. QED
  BY <1>1, HouseholdsInitially, HouseholdsStep, PTL DEF WebHouseholdsSpec

\* What a step may do to an invitation that has been made.
LEMMA SettledInvitesStep ==
    ASSUME HouseholdsInv, WebHouseholdsNext, NEW i \in Created
    PROVE  /\ invites[i].status # "pending" => invites'[i] = invites[i]
           /\ invites[i].expired => invites'[i].status # "accepted" \/ invites[i].status = "accepted"
<1>1. i \in Invite /\ invites[i].status # "none"
  BY DEF Created
<1>2. invites \in [Invite -> [status : {"none", "pending", "accepted", "revoked"}, house : SomeHouse,
                            to : SomeHouse, by : SomeHouse, expired : BOOLEAN]]
  BY DEF HouseholdsInv, HouseholdsTypeOK
<1>3. ASSUME NEW t \in InviteTab, InviteReplace(t) PROVE invites'[i] = invites[i] \/
          (invites[i].status = "pending" /\ invites'[i].status = "revoked")
  BY <1>1, <1>2, <1>3 DEF InviteReplace, Pending
<1>4. ASSUME NEW t \in InviteTab, NEW j \in Invite, InviteInsert(t, j) PROVE invites'[i] = invites[i]
  BY <1>1, <1>2, <1>4 DEF InviteInsert, Created
<1>5. ASSUME NEW t \in InviteTab, NEW j \in Invite, RevokeInvitation(t, j) PROVE invites'[i] = invites[i] \/
          (invites[i].status = "pending" /\ invites'[i].status = "revoked")
  BY <1>1, <1>2, <1>5 DEF RevokeInvitation
<1>6. ASSUME NEW t \in InviteTab, NEW j \in Invite, AcceptInvitation(t, j) PROVE invites'[i] = invites[i] \/
          (invites[i].status = "pending" /\ ~invites[i].expired)
  BY <1>1, <1>2, <1>6 DEF AcceptInvitation, Valid
<1>7. ASSUME NEW j \in Invite, Lapse(j) PROVE invites'[i] = invites[i] \/
          (invites[i].status = "pending" /\ invites'[i].status = "pending")
  <2>1. invites[j].status = "pending" /\ invites' = [invites EXCEPT ![j].expired = TRUE]
    BY <1>7 DEF Lapse
  <2>2. CASE i = j
    BY <1>1, <1>2, <2>1, <2>2
  <2>3. CASE i # j
    <3>1. i \in DOMAIN invites
      BY <1>1, <1>2
    <3>2. PICK r : r = [invites[j] EXCEPT !.expired = TRUE]
      OBVIOUS
    <3>3. invites' = [invites EXCEPT ![j] = r]
      BY <2>1, <3>2
    <3>4. invites'[i] = invites[i]
      BY <2>3, <3>1, <3>3
    <3>5. QED
      BY <3>4
  <2>4. QED
    BY <2>2, <2>3
<1>8. \/ invites' = invites
      \/ \E t \in InviteTab :
            InviteReplace(t) \/ \E j \in Invite : InviteInsert(t, j) \/ RevokeInvitation(t, j) \/ AcceptInvitation(t, j)
      \/ \E j \in Invite : Lapse(j)
  BY DEF WebHouseholdsNext, SignUp, BeginRequest, ResolveInvitation, ReadProfile, PickHousehold, UpsertHousehold,
     UpsertMembership, WriteDefault, Look, SwitchDefault, InviteCheck, InviteCount, JoinHousehold, SettleDefault, TabLost
<1>9. QED
  BY <1>3, <1>4, <1>5, <1>6, <1>7, <1>8

\* An invitation that was accepted, revoked or has expired admits nobody any more
\* (households.ts).
THEOREM SettledInvitesStayHolds == WebHouseholdsSpec => SettledInvitesStay
<1>1. HouseholdsInv /\ [WebHouseholdsNext]_householdVars =>
        [\A i \in Created : /\ invites[i].status # "pending" => invites'[i] = invites[i]
                            /\ invites[i].expired => invites'[i].status # "accepted" \/ invites[i].status = "accepted"
        ]_householdVars
  BY SettledInvitesStep
<1>2. QED
  BY <1>1, HouseholdsInitially, HouseholdsStep, PTL DEF WebHouseholdsSpec, SettledInvitesStay

-------------------------------------------------------------------------------
(* Recipe search.                                                              *)

\* What the database orders the matches by, the first the least.
OrderKey(f) == [d \in Dish |-> IF f.text # "" THEN 0 - DishTable[d].score ELSE d]

\* A search of the whole library, which is kept in two halves.
Browses(f) == f.text = "" /\ f.scope = "all"

\* The others that come before a, by a key that tells dishes apart, and what
\* such a count makes of a sequence.
Ahead(k, S, a)     == {b \in S : k[b] < k[a]}
Leading(k, S, n)   == {b \in S : Cardinality(Ahead(k, S, b)) < n}
Halves(k, C, U, n) == Leading(k, C, n) \cup Leading(k, U, n)
Orders(k, S) ==
    IsFiniteSet(S) /\ (\A a \in S : k[a] \in Int) /\ \A a, b \in S : k[a] = k[b] => a = b
Ranked(rows, k, S) ==
    /\ rows \in [1 .. Cardinality(S) -> S]
    /\ \A i \in DOMAIN rows : Cardinality(Ahead(k, S, rows[i])) = i - 1

\* A part in which n dishes suffice to know what comes first of all the matches.
Begins(k, M, hits, n) ==
    /\ \A e \in hits \ M : Cardinality(M) >= n
    /\ \A z \in M, e \in hits : Cardinality(Ahead(k, M, z)) < n /\ k[e] < k[z] => e \in M
    /\ \A z \in M : Cardinality(Ahead(k, M, z)) < n => Ahead(k, hits, z) = Ahead(k, M, z)

\* What a window shows of the rows.
WindowIs(seen, rows, offset, S) ==
    /\ seen.rows \in Seq(S) /\ Len(seen.rows) <= PageLimit
    /\ \A i \in 1 .. Len(seen.rows) : offset + i \in 1 .. Len(rows) /\ seen.rows[i] = rows[offset + i]
    /\ \A j \in 1 .. Len(rows) : offset < j /\ j <= offset + PageLimit =>
          j - offset \in 1 .. Len(seen.rows) /\ seen.rows[j - offset] = rows[j]
    /\ seen.hasMore \in BOOLEAN /\ (seen.hasMore <=> Len(rows) > offset + PageLimit)
    /\ offset = 0 /\ seen.total.relation = "exact" => Len(rows) <= PageLimit /\ seen.total.value = Len(rows)

\* What a page of the matches is: a dish that it leaves out although others come
\* later, or although it says that it is the last, belongs to a page before it.
PageIs(seen, offset, hits, k, one) ==
    /\ seen.rows \in Seq(Dish) /\ IsInjective(seen.rows) /\ Range(seen.rows) \subseteq hits /\ seen.hasMore \in BOOLEAN
    /\ one => \A e \in hits \ Range(seen.rows) :
                 ~seen.hasMore \/ (\E z \in Range(seen.rows) : k[e] < k[z]) => Cardinality(Ahead(k, hits, e)) < offset
    /\ offset = 0 /\ seen.total.relation = "exact" => seen.total.value = Cardinality(hits)

\* What is owed and comes before a dish that is there is there as well.
Gapless(k, there, owed) == \A e \in owed, z \in there : k[e] < k[z] => e \in there

\* The dishes a page has, and a page that says it has them all.
Covers(p, there, hasMore, hits, one) ==
    ~p.shrunk => /\ there \subseteq hits /\ p.owed \subseteq hits
                 /\ one => Gapless(OrderKey(p.wanted), there, p.owed)
                 /\ one /\ ~hasMore => p.owed \subseteq there

GoodPage(p, hits, one) ==
    /\ p.filters = p.wanted /\ IsInjective(p.shown) /\ p.length <= Len(p.shown)
    /\ Covers(p, Range(p.shown), p.hasMore, hits, one)

GoodAnswer(p, result, hits, one) ==
    /\ result.rows \in Seq(Dish) /\ IsInjective(result.rows) /\ result.hasMore \in BOOLEAN
    /\ Covers(p, Range(p.shown) \cup Range(result.rows), result.hasMore, hits, one)

\* The catalog and the custom recipes have nothing in common.
Parted == \A d \in Dish : library[d] = "catalog" => DishTable[d].owner = "dataset"

SearchInv ==
    /\ library \in [Dish -> {"none", "catalog", "user_private", "household"}] /\ locale \in LocaleOrders
    /\ Parted
    /\ saved \in Filters \cup {NoSearch} /\ page \in Grid \cup {NoSearch}
    /\ page # NoSearch => GoodPage(page, Hits(page.wanted), OneOrder(page.wanted))
    /\ DOMAIN fetch = DOMAIN NoFetch
    /\ fetch = NoFetch \/ (fetch.at \in {"sent", "answered"} /\ page # NoSearch)
    /\ fetch.at = "sent" => fetch.offset \in 0 .. Len(page.shown)
    /\ fetch.at = "answered" => GoodAnswer(page, fetch.result, Hits(page.wanted), OneOrder(page.wanted))

\* Dishes are the places of a table, so that finitely many are found.
LEMMA DishFacts ==
    /\ IsFiniteSet(Dish) /\ Dish \in SUBSET Int /\ PageLimit \in Nat
    /\ \A S \in SUBSET Dish : S \in SUBSET Int /\ IsFiniteSet(S) /\ Cardinality(S) \in Nat
    /\ \A d \in Dish : DishTable[d].score \in Int
<1>1. Dish = 1 .. Len(DishTable) /\ Len(DishTable) \in Nat
  BY WebSearchAssumption DEF Dish
<1>2. IsFiniteSet(Dish) /\ Dish \subseteq Int
  BY <1>1, FS_Interval
<1>3. ASSUME NEW S \in SUBSET Dish PROVE S \in SUBSET Int /\ IsFiniteSet(S) /\ Cardinality(S) \in Nat
  BY <1>2, FS_Subset, FS_CardinalityType
<1>4. ASSUME NEW d \in Dish PROVE DishTable[d].score \in Int
  <2> DEFINE Row == [owner : STRING, tags : SUBSET STRING, found : BOOLEAN, score : Int,
                     first : SUBSET {"none", "catalog", "user_private", "household"}]
  <2>1. DishTable \in Seq(Row)
    BY WebSearchAssumption
  <2>2. \A row \in Row : row.score \in Int
    OBVIOUS
  <2> HIDE DEF Row
  <2>3. DishTable[d] \in Row
    BY <1>1, <2>1
  <2>4. QED
    BY <2>2, <2>3
<1>5. PageLimit \in Nat
  BY SearchBoundsAssumption
<1>6. QED
  BY <1>2, <1>3, <1>4, <1>5

\* How many come before a dish tells dishes apart, and all counts occur.
LEMMA RanksExist ==
    ASSUME NEW S, NEW k, Orders(k, S)
    PROVE  /\ \A i \in 1 .. Cardinality(S) : \E a \in S : Cardinality(Ahead(k, S, a)) = i - 1
           /\ \A a \in S : Cardinality(Ahead(k, S, a)) \in Nat /\ Cardinality(Ahead(k, S, a)) < Cardinality(S)
           /\ \A a, b \in S : k[a] < k[b] <=> Cardinality(Ahead(k, S, a)) < Cardinality(Ahead(k, S, b))
<1> DEFINE n == Cardinality(S)
           rank == [a \in S |-> Cardinality(Ahead(k, S, a))]
<1>0. IsFiniteSet(S) /\ (\A a \in S : k[a] \in Int) /\ \A a, b \in S : k[a] = k[b] => a = b
  BY DEF Orders
<1>1. n \in Nat
  BY <1>0, FS_CardinalityType
<1>2. ASSUME NEW a \in S
      PROVE  /\ IsFiniteSet(Ahead(k, S, a)) /\ rank[a] \in Nat /\ a \notin Ahead(k, S, a)
             /\ Cardinality(Ahead(k, S, a) \cup {a}) = rank[a] + 1
  <2>1. Ahead(k, S, a) \subseteq S /\ a \notin Ahead(k, S, a)
    BY <1>0 DEF Ahead
  <2>2. IsFiniteSet(Ahead(k, S, a)) /\ Cardinality(Ahead(k, S, a)) \in Nat
    BY <1>0, <2>1, FS_Subset, FS_CardinalityType
  <2>3. QED
    BY <2>1, <2>2, FS_AddElement
<1>3. ASSUME NEW a \in S PROVE rank[a] + 1 <= n
  <2>1. Ahead(k, S, a) \cup {a} \in SUBSET S
    BY DEF Ahead
  <2>2. Cardinality(Ahead(k, S, a) \cup {a}) <= n
    BY <1>0, <2>1, FS_Subset
  <2>3. QED
    BY <1>2, <2>2
<1>4. ASSUME NEW a \in S, NEW b \in S, k[a] < k[b] PROVE rank[a] + 1 <= rank[b]
  <2>1. Ahead(k, S, a) \cup {a} \in SUBSET Ahead(k, S, b)
    <3>1. ASSUME NEW c \in S, k[c] < k[a] PROVE k[c] < k[b]
      BY <1>0, <1>4, <3>1
    <3>2. QED
      BY <1>4, <3>1 DEF Ahead
  <2>2. Cardinality(Ahead(k, S, a) \cup {a}) <= Cardinality(Ahead(k, S, b))
    BY <1>2, <2>1, FS_Subset
  <2>3. QED
    BY <1>2, <2>2
<1>5. rank \in Injection(S, 0 .. n - 1)
  <2>1. rank \in [S -> 0 .. n - 1]
    <3>1. ASSUME NEW a \in S PROVE rank[a] \in 0 .. n - 1
      <4> HIDE DEF n, rank
      <4>1. QED
        <5>1. rank[a] \in Nat
          BY <1>2
        <5>2. rank[a] + 1 <= n
          BY <1>3
        <5>3. QED
          BY <1>1, <5>1, <5>2
    <3>2. QED
      BY <3>1
  <2>2. ASSUME NEW a \in S, NEW b \in S, rank[a] = rank[b] PROVE a = b
    <3> HIDE DEF rank
    <3>1. ~(k[a] < k[b]) /\ ~(k[b] < k[a])
      <4>1. rank[a] \in Nat /\ (k[a] < k[b] => rank[a] + 1 <= rank[b]) /\ (k[b] < k[a] => rank[b] + 1 <= rank[a])
        BY <1>2, <1>4
      <4>2. QED
        BY <2>2, <4>1
    <3>2. k[a] = k[b]
      BY <1>0, <3>1
    <3>3. QED
      BY <1>0, <3>2
  <2>3. DOMAIN rank = S
    OBVIOUS
  <2> HIDE DEF rank
  <2>4. QED
    BY <2>1, <2>2, <2>3 DEF Injection, IsInjective
<1>6. IsFiniteSet(0 .. n - 1) /\ Cardinality(0 .. n - 1) = n
  <2>1. 0 \in Int /\ n - 1 \in Int
    BY <1>1
  <2> HIDE DEF n
  <2>2. QED
    BY <1>1, <2>1, FS_Interval
<1>7. rank \in Surjection(S, 0 .. n - 1)
  <2> HIDE DEF rank
  <2>1. Cardinality(S) = Cardinality(0 .. n - 1)
    BY <1>6
  <2> HIDE DEF n
  <2>2. QED
    BY <1>5, <1>6, <2>1, FS_Injection
<1>8. ASSUME NEW i \in 1 .. n PROVE \E a \in S : rank[a] = i - 1
  <2>1. i - 1 \in 0 .. n - 1
    BY <1>1
  <2> HIDE DEF rank, n
  <2>2. QED
    BY <1>7, <2>1 DEF Surjection
<1>9. ASSUME NEW a \in S, NEW b \in S PROVE k[a] < k[b] <=> rank[a] < rank[b]
  <2> HIDE DEF rank
  <2>1. k[a] < k[b] \/ k[b] < k[a] \/ k[a] = k[b]
    BY <1>0
  <2>2. k[a] = k[b] => a = b
    BY <1>0
  <2>3. /\ rank[a] \in Nat /\ rank[b] \in Nat
        /\ k[a] < k[b] => rank[a] + 1 <= rank[b]
        /\ k[b] < k[a] => rank[b] + 1 <= rank[a]
    BY <1>2, <1>4
  <2>4. k[a] \in Int /\ k[b] \in Int
    BY <1>0
  <2>5. QED
    BY <2>2, <2>3, <2>4
<1>10. \A a \in S : rank[a] = Cardinality(Ahead(k, S, a))
  OBVIOUS
<1>11. ASSUME NEW a \in S
       PROVE  Cardinality(Ahead(k, S, a)) \in Nat /\ Cardinality(Ahead(k, S, a)) < Cardinality(S)
  <2>1. rank[a] \in Nat /\ rank[a] + 1 <= n /\ rank[a] = Cardinality(Ahead(k, S, a))
    BY <1>2, <1>3, <1>10
  <2> HIDE DEF rank
  <2>2. QED
    BY <1>1, <2>1
<1>12. QED
  BY <1>8, <1>9, <1>10, <1>11

\* Rows in order are the dishes of the set, each once, the least first.
LEMMA RankedRows ==
    ASSUME NEW S, NEW k, Orders(k, S), NEW rows, Ranked(rows, k, S)
    PROVE  /\ rows \in Seq(S) /\ Len(rows) = Cardinality(S) /\ Cardinality(S) \in Nat
           /\ IsInjective(rows) /\ Range(rows) = S
           /\ \A i \in 1 .. Len(rows) : Cardinality(Ahead(k, S, rows[i])) = i - 1
           /\ \A a \in S : \E i \in 1 .. Len(rows) : rows[i] = a /\ i = Cardinality(Ahead(k, S, a)) + 1
<1> DEFINE n == Cardinality(S)
<1>1. n \in Nat
  BY FS_CardinalityType DEF Orders
<1>2. rows \in [1 .. n -> S] /\ \A i \in 1 .. n : Cardinality(Ahead(k, S, rows[i])) = i - 1
  BY DEF Ranked
<1> HIDE DEF n
<1>3. rows \in Seq(S) /\ Len(rows) = n /\ DOMAIN rows = 1 .. n
  BY <1>1, <1>2
<1>4. ASSUME NEW i \in 1 .. n, NEW j \in 1 .. n, rows[i] = rows[j] PROVE i = j
  <2>1. i - 1 = j - 1
    BY <1>2, <1>4
  <2>2. QED
    BY <2>1
<1>5. ASSUME NEW a \in S PROVE \E i \in 1 .. n : rows[i] = a /\ i = Cardinality(Ahead(k, S, a)) + 1
  <2> DEFINE r == Cardinality(Ahead(k, S, a))
  <2>1. r \in Nat /\ r < n
    BY RanksExist DEF n
  <2>2. r + 1 \in 1 .. n
    BY <1>1, <2>1
  <2>3. rows[r + 1] \in S /\ Cardinality(Ahead(k, S, rows[r + 1])) = r
    BY <1>2, <2>1, <2>2
  <2>4. \A b, c \in S : Cardinality(Ahead(k, S, b)) = Cardinality(Ahead(k, S, c)) => b = c
    <3> SUFFICES ASSUME NEW b \in S, NEW c \in S, Cardinality(Ahead(k, S, b)) = Cardinality(Ahead(k, S, c))
                 PROVE  b = c
      OBVIOUS
    <3>1. /\ Cardinality(Ahead(k, S, b)) \in Nat
          /\ k[b] < k[c] <=> Cardinality(Ahead(k, S, b)) < Cardinality(Ahead(k, S, c))
          /\ k[c] < k[b] <=> Cardinality(Ahead(k, S, c)) < Cardinality(Ahead(k, S, b))
      BY RanksExist
    <3>2. k[b] = k[c]
      BY <3>1 DEF Orders
    <3>3. QED
      BY <3>2 DEF Orders
  <2>5. rows[r + 1] = a
    BY <2>3, <2>4
  <2> HIDE DEF r
  <2>6. QED
    <3>1. r = Cardinality(Ahead(k, S, a))
      BY DEF r
    <3>2. QED
      BY <2>2, <2>5, <3>1
<1>6. Range(rows) = S
  BY <1>2, <1>3, <1>5 DEF Range
<1>7. IsInjective(rows)
  BY <1>3, <1>4 DEF IsInjective
<1>8. QED
  BY <1>1, <1>2, <1>3, <1>5, <1>6, <1>7 DEF n

\* Sorting by name, by score and by localeCompare each puts a set in order.
LEMMA NamesRanked ==
    ASSUME NEW S \in SUBSET Int, IsFiniteSet(S), NEW k, \A a \in S : k[a] = a
    PROVE  Orders(k, S) /\ Ranked(ByName(S), k, S)
<1>1. ASSUME NEW a \in S PROVE {b \in S : b < a} = Ahead(k, S, a)
  BY DEF Ahead
<1>2. IsFiniteSet(S) /\ \A a \in S : k[a] \in Int
  OBVIOUS
<1>3. \A a, b \in S : k[a] = k[b] => a = b
  OBVIOUS
<1>7. Orders(k, S)
  BY <1>2, <1>3 DEF Orders
<1> DEFINE pick(i) == CHOOSE a \in S : Cardinality({b \in S : b < a}) = i - 1
<1>4. ASSUME NEW i \in 1 .. Cardinality(S)
      PROVE  pick(i) \in S /\ Cardinality(Ahead(k, S, pick(i))) = i - 1
  <2>1. \E a \in S : Cardinality(Ahead(k, S, a)) = i - 1
    BY <1>7, RanksExist
  <2>2. \E a \in S : Cardinality({b \in S : b < a}) = i - 1
    BY <1>1, <2>1
  <2>3. pick(i) \in S /\ Cardinality({b \in S : b < pick(i)}) = i - 1
    BY <2>2
  <2> HIDE DEF pick
  <2>4. QED
    BY <1>1, <2>3
<1>5. ByName(S) = [i \in 1 .. Cardinality(S) |-> pick(i)]
  BY DEF ByName, Sorted
<1> HIDE DEF pick
<1>6. QED
  BY <1>4, <1>5, <1>7 DEF Ranked

\* The greater score comes first.
LEMMA ScoresRanked ==
    ASSUME NEW S \in SUBSET Dish, NEW k, \A a \in Dish : k[a] = 0 - DishTable[a].score
    PROVE  Orders(k, S) /\ Ranked(ByScore(S), k, S)
<1>1. ASSUME NEW a \in S PROVE {b \in S : DishTable[b].score > DishTable[a].score} = Ahead(k, S, a)
  <2>1. \A b \in S : DishTable[b].score > DishTable[a].score <=> k[b] < k[a]
    <3> SUFFICES ASSUME NEW b \in S PROVE DishTable[b].score > DishTable[a].score <=> k[b] < k[a]
      OBVIOUS
    <3>1. DishTable[a].score \in Int /\ DishTable[b].score \in Int
      BY DishFacts
    <3>2. k[a] = 0 - DishTable[a].score /\ k[b] = 0 - DishTable[b].score
      OBVIOUS
    <3>3. QED
      BY <3>1, <3>2
  <2>2. QED
    BY <2>1 DEF Ahead
<1>2. IsFiniteSet(S) /\ \A a \in S : k[a] \in Int
  <2>1. ASSUME NEW a \in S PROVE k[a] \in Int
    <3>1. DishTable[a].score \in Int
      BY DishFacts
    <3>2. k[a] = 0 - DishTable[a].score
      OBVIOUS
    <3>3. QED
      BY <3>1, <3>2
  <2>2. QED
    BY <2>1, DishFacts
<1>3. \A a, b \in S : k[a] = k[b] => a = b
  <2>1. ASSUME NEW a \in S, NEW b \in S, k[a] = k[b] PROVE DishTable[a].score = DishTable[b].score
    <3>1. DishTable[a].score \in Int /\ DishTable[b].score \in Int
      BY DishFacts
    <3>2. k[a] = 0 - DishTable[a].score /\ k[b] = 0 - DishTable[b].score
      OBVIOUS
    <3>3. 0 - DishTable[a].score = 0 - DishTable[b].score
      BY <2>1, <3>2, Zenon
    <3>4. \A x, y \in Int : 0 - x = 0 - y => x = y
      OBVIOUS
    <3>5. QED
      BY <3>1, <3>3, <3>4, Zenon
  <2>2. QED
    BY <2>1, WebSearchAssumption DEF Dish
<1> DEFINE pick(i) == CHOOSE a \in S : Cardinality({b \in S : DishTable[b].score > DishTable[a].score}) = i - 1
<1>4. ASSUME NEW i \in 1 .. Cardinality(S)
      PROVE  pick(i) \in S /\ Cardinality(Ahead(k, S, pick(i))) = i - 1
  <2>1. \E a \in S : Cardinality(Ahead(k, S, a)) = i - 1
    BY <1>2, <1>3, RanksExist DEF Orders
  <2>2. \E a \in S : Cardinality({b \in S : DishTable[b].score > DishTable[a].score}) = i - 1
    BY <1>1, <2>1
  <2>3. pick(i) \in S /\ Cardinality({b \in S : DishTable[b].score > DishTable[pick(i)].score}) = i - 1
    BY <2>2
  <2> HIDE DEF pick
  <2>4. QED
    BY <1>1, <2>3
<1>5. ByScore(S) = [i \in 1 .. Cardinality(S) |-> pick(i)]
  BY DEF ByScore, Sorted
<1> HIDE DEF pick
<1>6. QED
  BY <1>2, <1>3, <1>4, <1>5 DEF Ranked, Orders

\* localeCompare tells all dishes apart, by the id if by nothing else.
LEMMA LocaleRanked ==
    ASSUME NEW S \in SUBSET Dish, locale \in LocaleOrders
    PROVE  Orders(locale, S) /\ Ranked(ByLocale(S), locale, S)
<1>1. ASSUME NEW a \in S PROVE {b \in S : locale[b] < locale[a]} = Ahead(locale, S, a)
  BY DEF Ahead
<1>2. IsFiniteSet(S) /\ \A a \in S : locale[a] \in Int
  BY DishFacts, WebSearchAssumption DEF Dish
<1>3. \A a, b \in S : locale[a] = locale[b] => a = b
  BY WebSearchAssumption DEF Dish, IsInjective
<1> DEFINE pick(i) == CHOOSE a \in S : Cardinality({b \in S : locale[b] < locale[a]}) = i - 1
<1>4. ASSUME NEW i \in 1 .. Cardinality(S)
      PROVE  pick(i) \in S /\ Cardinality(Ahead(locale, S, pick(i))) = i - 1
  <2>1. \E a \in S : Cardinality(Ahead(locale, S, a)) = i - 1
    BY <1>2, <1>3, RanksExist DEF Orders
  <2>2. \E a \in S : Cardinality({b \in S : locale[b] < locale[a]}) = i - 1
    BY <1>1, <2>1
  <2>3. pick(i) \in S /\ Cardinality({b \in S : locale[b] < locale[pick(i)]}) = i - 1
    BY <2>2
  <2> HIDE DEF pick
  <2>4. QED
    BY <1>1, <2>3
<1>5. ByLocale(S) = [i \in 1 .. Cardinality(S) |-> pick(i)]
  BY DEF ByLocale, Sorted
<1> HIDE DEF pick
<1>6. QED
  BY <1>2, <1>3, <1>4, <1>5 DEF Ranked, Orders

\* What a window shows and says of rows of which there may be more.
LEMMA WindowOfRows ==
    ASSUME NEW S, NEW rows \in Seq(S), NEW offset \in Nat, NEW seen,
           seen = WindowResult(Window(rows, offset, PageLimit + 1), offset)
    PROVE  WindowIs(seen, rows, offset, S)
<1> DEFINE n == Len(rows)
           rest == SubSeq(rows, offset + 1, n)
           w == FirstOf(rest, PageLimit + 1)
<1>1. PageLimit \in Nat /\ n \in Nat
  BY DishFacts
<1>2. rest \in Seq(S) /\ Len(rest) = (IF offset < n THEN n - offset ELSE 0) /\ \A i \in 1 .. Len(rest) : rest[i] = rows[offset + i]
  BY <1>1
<1>3. ASSUME NEW s \in Seq(S), NEW m \in Nat
      PROVE  /\ FirstOf(s, m) \in Seq(S) /\ Len(FirstOf(s, m)) = (IF m < Len(s) THEN m ELSE Len(s))
             /\ \A i \in 1 .. Len(FirstOf(s, m)) : FirstOf(s, m)[i] = s[i]
  BY DEF FirstOf
<1> HIDE DEF rest
<1>4. w \in Seq(S) /\ Len(w) = (IF PageLimit + 1 < Len(rest) THEN PageLimit + 1 ELSE Len(rest)) /\ \A i \in 1 .. Len(w) : w[i] = rest[i]
  <2>1. PageLimit + 1 \in Nat
    BY <1>1
  <2>2. QED
    BY <1>2, <1>3, <2>1
<1>5. seen = WindowResult(w, offset)
  BY DEF Window, rest
<1> HIDE DEF w
<1>15. seen.rows = FirstOf(w, PageLimit)
  BY <1>5 DEF WindowResult
<1>16. seen.hasMore \in BOOLEAN /\ (seen.hasMore <=> Len(w) > PageLimit)
  <2> DEFINE more == Len(w) > PageLimit
             total == CASE Len(w) > PageLimit -> [relation |-> "lowerBound", value |-> offset + PageLimit + 1]
                        [] w = <<>> /\ offset > 0 -> [relation |-> "unknown", value |-> 0]
                        [] OTHER -> [relation |-> "exact", value |-> offset + Len(w)]
  <2>1. seen = [rows |-> FirstOf(w, PageLimit), hasMore |-> more, total |-> total]
    BY <1>5, Zenon DEF WindowResult
  <2>2. more \in BOOLEAN
    OBVIOUS
  <2> HIDE DEF total, more
  <2>3. seen.hasMore = more
    BY <2>1
  <2>4. QED
    BY <2>2, <2>3 DEF more
<1>6. seen.total = CASE Len(w) > PageLimit -> [relation |-> "lowerBound", value |-> offset + PageLimit + 1]
                     [] w = <<>> /\ offset > 0 -> [relation |-> "unknown", value |-> 0]
                     [] OTHER -> [relation |-> "exact", value |-> offset + Len(w)]
  BY <1>5 DEF WindowResult
<1>7. /\ seen.rows \in Seq(S) /\ Len(seen.rows) = (IF PageLimit < Len(w) THEN PageLimit ELSE Len(w))
      /\ \A i \in 1 .. Len(seen.rows) : seen.rows[i] = w[i]
  <2> DEFINE s == FirstOf(w, PageLimit)
  <2>1. /\ s \in Seq(S) /\ Len(s) = (IF PageLimit < Len(w) THEN PageLimit ELSE Len(w))
        /\ \A i \in 1 .. Len(s) : s[i] = w[i]
    BY <1>1, <1>3, <1>4
  <2> HIDE DEF s
  <2>2. seen.rows = s
    BY <1>15 DEF s
  <2>3. QED
    BY <2>1, <2>2
<1>8. Len(w) \in Nat /\ Len(rest) \in Nat /\ Len(seen.rows) \in Nat
  BY <1>2, <1>4, <1>7
<1>9. ASSUME NEW i \in 1 .. Len(seen.rows) PROVE offset + i \in 1 .. n /\ seen.rows[i] = rows[offset + i]
  <2>1. i \in 1 .. Len(w) /\ i \in 1 .. Len(rest) /\ offset + i \in 1 .. n
    <3>1. i \in Int /\ 1 <= i /\ i <= Len(seen.rows)
      BY <1>8
    <3>2. i <= Len(w)
      BY <1>1, <1>7, <1>8, <3>1
    <3>3. i <= Len(rest)
      BY <1>1, <1>4, <1>8, <3>1, <3>2
    <3>4. i <= n - offset
      BY <1>1, <1>2, <3>1, <3>3
    <3>5. QED
      BY <1>1, <1>8, <3>1, <3>2, <3>3, <3>4
  <2>2. QED
    BY <1>2, <1>4, <1>7, <2>1
<1>10. ASSUME NEW j \in 1 .. n, offset < j, j <= offset + PageLimit
       PROVE  j - offset \in 1 .. Len(seen.rows) /\ seen.rows[j - offset] = rows[j]
  <2>1. j - offset \in 1 .. Len(seen.rows) /\ offset + (j - offset) = j
    <3>1. /\ j \in Int /\ 1 <= j /\ j <= n /\ offset \in Nat /\ n \in Nat /\ PageLimit \in Nat
          /\ offset < j /\ j <= offset + PageLimit
      BY <1>1, <1>10
    <3>2. offset + (j - offset) = j /\ 1 <= j - offset /\ j - offset \in Int /\ j - offset <= PageLimit /\ j - offset <= n - offset
      BY <3>1
    <3>3. j - offset <= Len(rest)
      BY <1>2, <3>1, <3>2
    <3>4. j - offset <= Len(w)
      BY <1>4, <1>8, <3>1, <3>2, <3>3
    <3>5. j - offset <= Len(seen.rows)
      BY <1>7, <1>8, <3>1, <3>2, <3>4
    <3>6. QED
      BY <1>8, <3>2, <3>5
  <2>2. QED
    BY <1>9, <2>1
<1>11. seen.hasMore \in BOOLEAN /\ (seen.hasMore <=> n > offset + PageLimit)
  BY <1>1, <1>2, <1>4, <1>16, <1>8
<1>12. ASSUME offset = 0, seen.total.relation = "exact" PROVE n <= PageLimit /\ seen.total.value = n
  <2>1. ~(Len(w) > PageLimit)
    BY <1>6, <1>12
  <2>2. Len(w) = n
    BY <1>1, <1>2, <1>4, <1>8, <1>12, <2>1
  <2>3. seen.total = [relation |-> "exact", value |-> offset + Len(w)]
    BY <1>6, <1>12, <2>1
  <2>4. QED
    BY <1>1, <1>12, <2>1, <2>2, <2>3
<1>13. Len(seen.rows) <= PageLimit
  BY <1>1, <1>7, <1>8
<1>14. QED
  BY <1>7, <1>13, <1>9, <1>10, <1>11, <1>12 DEF WindowIs

\* A page of ordered rows has those with enough, but not too many, before them.
LEMMA PageOfRanked ==
    ASSUME NEW S, NEW k, Orders(k, S), NEW rows, Ranked(rows, k, S), NEW offset \in Nat,
           NEW seen, seen = WindowResult(Window(rows, offset, PageLimit + 1), offset)
    PROVE  /\ seen.rows \in Seq(S) /\ IsInjective(seen.rows) /\ seen.hasMore \in BOOLEAN
           /\ \A a \in S : a \in Range(seen.rows) <=>
                 offset <= Cardinality(Ahead(k, S, a)) /\ Cardinality(Ahead(k, S, a)) < offset + PageLimit
           /\ seen.hasMore <=> Cardinality(S) > offset + PageLimit
           /\ offset = 0 /\ seen.total.relation = "exact" =>
                 Cardinality(S) <= PageLimit /\ seen.total.value = Cardinality(S)
<1>1. /\ rows \in Seq(S) /\ Len(rows) = Cardinality(S) /\ Cardinality(S) \in Nat /\ IsInjective(rows)
      /\ \A i \in 1 .. Len(rows) : Cardinality(Ahead(k, S, rows[i])) = i - 1
      /\ \A a \in S : \E i \in 1 .. Len(rows) : rows[i] = a /\ i = Cardinality(Ahead(k, S, a)) + 1
  BY RankedRows
<1>2. PageLimit \in Nat
  BY DishFacts
<1>3. /\ seen.rows \in Seq(S) /\ Len(seen.rows) <= PageLimit
      /\ \A i \in 1 .. Len(seen.rows) : offset + i \in 1 .. Len(rows) /\ seen.rows[i] = rows[offset + i]
      /\ \A j \in 1 .. Len(rows) : offset < j /\ j <= offset + PageLimit =>
            j - offset \in 1 .. Len(seen.rows) /\ seen.rows[j - offset] = rows[j]
      /\ seen.hasMore \in BOOLEAN /\ (seen.hasMore <=> Len(rows) > offset + PageLimit)
      /\ offset = 0 /\ seen.total.relation = "exact" => Len(rows) <= PageLimit /\ seen.total.value = Len(rows)
  <2>1. rows \in Seq(S)
    BY <1>1
  <2>2. QED
    <3>1. WindowIs(seen, rows, offset, S)
      BY <2>1, WindowOfRows
    <3>2. QED
      BY <3>1 DEF WindowIs
<1>4. DOMAIN seen.rows = 1 .. Len(seen.rows) /\ Len(seen.rows) \in Nat /\ DOMAIN rows = 1 .. Len(rows)
  BY <1>1, <1>3
<1>5. IsInjective(seen.rows)
  <2> SUFFICES ASSUME NEW i \in 1 .. Len(seen.rows), NEW j \in 1 .. Len(seen.rows), seen.rows[i] = seen.rows[j]
               PROVE  i = j
    BY <1>4 DEF IsInjective
  <2>1. offset + i \in 1 .. Len(rows) /\ offset + j \in 1 .. Len(rows) /\ rows[offset + i] = rows[offset + j]
    BY <1>3
  <2>2. offset + i = offset + j
    BY <1>1, <1>4, <2>1 DEF IsInjective
  <2>3. QED
    BY <1>4, <2>2
<1>6. ASSUME NEW a \in S, offset <= Cardinality(Ahead(k, S, a)), Cardinality(Ahead(k, S, a)) < offset + PageLimit
      PROVE  a \in Range(seen.rows)
  <2>1. PICK j \in 1 .. Len(rows) : rows[j] = a /\ j = Cardinality(Ahead(k, S, a)) + 1
    BY <1>1
  <2>2. offset < j /\ j <= offset + PageLimit
    <3>1. Cardinality(Ahead(k, S, a)) = j - 1 /\ j \in Int
      BY <1>1, <2>1
    <3>2. QED
      BY <1>2, <1>6, <3>1
  <2>3. j - offset \in 1 .. Len(seen.rows) /\ seen.rows[j - offset] = a
    BY <1>3, <2>1, <2>2
  <2>4. QED
    BY <1>4, <2>3 DEF Range
<1>7. ASSUME NEW a \in S, a \in Range(seen.rows)
      PROVE  offset <= Cardinality(Ahead(k, S, a)) /\ Cardinality(Ahead(k, S, a)) < offset + PageLimit
  <2>1. PICK i \in 1 .. Len(seen.rows) : seen.rows[i] = a
    BY <1>4, <1>7 DEF Range
  <2>2. offset + i \in 1 .. Len(rows) /\ rows[offset + i] = a
    BY <1>3, <2>1
  <2>3. Cardinality(Ahead(k, S, a)) = offset + i - 1
    BY <1>1, <2>2
  <2>4. i <= PageLimit
    BY <1>2, <1>3, <1>4, <2>1
  <2>5. QED
    BY <1>2, <1>4, <2>3, <2>4
<1>8. QED
  BY <1>1, <1>3, <1>5, <1>6, <1>7

\* The first rows are the dishes with few before them.
LEMMA FirstOfRanked ==
    ASSUME NEW S, NEW k, Orders(k, S), NEW rows, Ranked(rows, k, S), NEW n \in Nat
    PROVE  Range(FirstOf(rows, n)) = Leading(k, S, n)
<1>1. /\ rows \in Seq(S) /\ Len(rows) \in Nat
      /\ \A i \in 1 .. Len(rows) : Cardinality(Ahead(k, S, rows[i])) = i - 1
      /\ \A a \in S : \E i \in 1 .. Len(rows) : rows[i] = a /\ i = Cardinality(Ahead(k, S, a)) + 1
  BY RankedRows
<1> DEFINE m == IF n < Len(rows) THEN n ELSE Len(rows)
           first == SubSeq(rows, 1, m)
<1>2. first = FirstOf(rows, n)
  BY DEF FirstOf
<1>3. m \in Nat /\ m <= Len(rows) /\ m <= n /\ \A i \in 1 .. Len(rows) : i <= n => i <= m
  BY <1>1
<1> HIDE DEF m
<1>4. first \in Seq(S) /\ DOMAIN first = 1 .. m /\ \A i \in 1 .. m : first[i] = rows[i]
  BY <1>1, <1>3
<1> HIDE DEF first
<1>5. ASSUME NEW a \in S, Cardinality(Ahead(k, S, a)) < n PROVE a \in Range(first)
  <2>1. PICK i \in 1 .. Len(rows) : rows[i] = a /\ i = Cardinality(Ahead(k, S, a)) + 1
    BY <1>1
  <2>2. i <= n
    <3>1. Cardinality(Ahead(k, S, a)) = i - 1
      BY <1>1, <2>1
    <3>2. i \in Int
      OBVIOUS
    <3>3. QED
      BY <1>5, <3>1, <3>2
  <2>3. i \in 1 .. m
    BY <1>3, <2>2
  <2>4. QED
    BY <1>4, <2>1, <2>3 DEF Range
<1>6. ASSUME NEW a \in Range(first) PROVE a \in S /\ Cardinality(Ahead(k, S, a)) < n
  <2>1. PICK i \in 1 .. m : a = rows[i]
    BY <1>4 DEF Range
  <2>2. i \in 1 .. Len(rows) /\ i - 1 < n
    BY <1>1, <1>3
  <2>3. rows[i] \in S
    BY <1>1, <2>2
  <2>4. Cardinality(Ahead(k, S, rows[i])) = i - 1
    BY <1>1, <2>2
  <2>5. QED
    BY <2>1, <2>2, <2>3, <2>4
<1>7. QED
  BY <1>2, <1>5, <1>6 DEF Leading

\* A dish that the first rows leave out has as many of them before it.
LEMMA CutOff ==
    ASSUME NEW S, NEW k, Orders(k, S), NEW n \in Nat, NEW e \in S, ~(Cardinality(Ahead(k, S, e)) < n)
    PROVE  \E T \in SUBSET Leading(k, S, n) :
              Cardinality(T) = n /\ \A t \in T : k[t] < k[e]
<1>1. /\ Cardinality(S) \in Nat /\ Cardinality(Ahead(k, S, e)) \in Nat
      /\ Cardinality(Ahead(k, S, e)) < Cardinality(S)
  BY RanksExist, FS_CardinalityType DEF Orders
<1>2. n + 1 \in 1 .. Cardinality(S) /\ (n + 1) - 1 = n
  BY <1>1
<1>3. \A i \in 1 .. Cardinality(S) : \E a \in S : Cardinality(Ahead(k, S, a)) = i - 1
  BY RanksExist
<1>4. PICK x \in S : Cardinality(Ahead(k, S, x)) = n
  BY <1>2, <1>3
<1>5. \A a, b \in S : k[a] < k[b] <=> Cardinality(Ahead(k, S, a)) < Cardinality(Ahead(k, S, b))
  BY RanksExist
<1>6. ASSUME NEW t \in Ahead(k, S, x)
      PROVE  t \in S /\ Cardinality(Ahead(k, S, t)) < n /\ k[t] < k[e]
  <2>1. t \in S /\ k[t] < k[x]
    BY DEF Ahead
  <2>2. Cardinality(Ahead(k, S, t)) < n
    BY <1>4, <1>5, <2>1
  <2>3. Cardinality(Ahead(k, S, t)) \in Nat
    BY <2>1, RanksExist
  <2>4. Cardinality(Ahead(k, S, t)) < Cardinality(Ahead(k, S, e))
    BY <1>1, <2>2, <2>3
  <2>5. QED
    BY <1>5, <2>1, <2>2, <2>4
<1>7. Ahead(k, S, x) \in SUBSET Leading(k, S, n)
  BY <1>6 DEF Leading
<1>8. \A t \in Ahead(k, S, x) : k[t] < k[e]
  BY <1>6
<1>9. QED
  BY <1>4, <1>7, <1>8

\* The merge of the first rows of two halves begins as the whole does.
LEMMA MergeBegins ==
    ASSUME NEW C \in SUBSET Dish, NEW U \in SUBSET Dish, NEW k, Orders(k, Dish), NEW n \in Nat,
           NEW M, M = Halves(k, C, U, n), NEW hits, hits = C \cup U
    PROVE  Begins(k, M, hits, n)
<1>1. Orders(k, C) /\ Orders(k, U) /\ Orders(k, M) /\ IsFiniteSet(M) /\ M \in SUBSET Dish
  <2>1. M \in SUBSET Dish
    BY DEF Leading, Halves
  <2>2. ASSUME NEW S \in SUBSET Dish PROVE Orders(k, S)
    BY FS_Subset DEF Orders
  <2>3. QED
    BY <2>1, <2>2, DishFacts
<1>2. ASSUME NEW e \in hits \ M
      PROVE  \E T \in SUBSET M : Cardinality(T) = n /\ \A t \in T : k[t] < k[e]
  <2>1. CASE e \in C
    <3>1. ~(Cardinality(Ahead(k, C, e)) < n)
      BY <2>1 DEF Leading, Halves
    <3>2. Leading(k, C, n) \subseteq M
      BY DEF Halves
    <3>3. QED
      BY <1>1, <2>1, <3>1, <3>2, CutOff
  <2>2. CASE e \in U
    <3>1. ~(Cardinality(Ahead(k, U, e)) < n)
      BY <2>2 DEF Leading, Halves
    <3>2. Leading(k, U, n) \subseteq M
      BY DEF Halves
    <3>3. QED
      BY <1>1, <2>2, <3>1, <3>2, CutOff
  <2>3. QED
    BY <2>1, <2>2
<1>3. ASSUME NEW e \in hits \ M PROVE Cardinality(M) >= n
  <2>1. PICK T \in SUBSET M : Cardinality(T) = n /\ \A t \in T : k[t] < k[e]
    BY <1>2
  <2>2. Cardinality(T) <= Cardinality(M) /\ Cardinality(M) \in Nat
    BY <1>1, FS_Subset, FS_CardinalityType
  <2>3. QED
    BY <2>1, <2>2
<1>4. ASSUME NEW z \in M, NEW e \in hits, Cardinality(Ahead(k, M, z)) < n, k[e] < k[z] PROVE e \in M
  <2> SUFFICES ASSUME e \notin M PROVE FALSE
    OBVIOUS
  <2>1. PICK T \in SUBSET M : Cardinality(T) = n /\ \A t \in T : k[t] < k[e]
    BY <1>2
  <2>2. T \in SUBSET Ahead(k, M, z)
    <3>1. k[e] \in Int /\ k[z] \in Int /\ \A t \in T : k[t] \in Int
      BY <1>1 DEF Orders
    <3>2. \A t \in T : k[t] < k[z]
      BY <1>4, <2>1, <3>1
    <3>3. QED
      BY <3>2 DEF Ahead
  <2>3. IsFiniteSet(Ahead(k, M, z)) /\ Ahead(k, M, z) \in SUBSET M
    BY <1>1, FS_Subset DEF Ahead
  <2>4. Cardinality(T) <= Cardinality(Ahead(k, M, z)) /\ Cardinality(Ahead(k, M, z)) \in Nat
    BY <2>2, <2>3, FS_Subset, FS_CardinalityType
  <2>5. QED
    BY <1>4, <2>1, <2>4
<1>5. ASSUME NEW z \in M, Cardinality(Ahead(k, M, z)) < n PROVE Ahead(k, hits, z) = Ahead(k, M, z)
  <2>1. M \subseteq hits
    BY DEF Leading, Halves
  <2>2. \A e \in hits : k[e] < k[z] => e \in M
    BY <1>4, <1>5
  <2>3. QED
    BY <2>1, <2>2 DEF Ahead
<1>6. QED
  BY <1>3, <1>4, <1>5 DEF Begins

\* A page of the matches, where they are read in one order.
LEMMA PlainPage ==
    ASSUME NEW hits \in SUBSET Dish, NEW k, Orders(k, hits), NEW rows, Ranked(rows, k, hits), NEW offset \in Nat,
           NEW one, NEW seen, seen = WindowResult(Window(rows, offset, PageLimit + 1), offset)
    PROVE  PageIs(seen, offset, hits, k, one)
<1>1. /\ seen.rows \in Seq(hits) /\ IsInjective(seen.rows) /\ seen.hasMore \in BOOLEAN
      /\ \A a \in hits : a \in Range(seen.rows) <=>
            offset <= Cardinality(Ahead(k, hits, a)) /\ Cardinality(Ahead(k, hits, a)) < offset + PageLimit
      /\ seen.hasMore <=> Cardinality(hits) > offset + PageLimit
      /\ offset = 0 /\ seen.total.relation = "exact" =>
            Cardinality(hits) <= PageLimit /\ seen.total.value = Cardinality(hits)
  BY PageOfRanked
<1>2. PageLimit \in Nat /\ Cardinality(hits) \in Nat
  BY DishFacts
<1>3. seen.rows \in Seq(Dish) /\ Range(seen.rows) \subseteq hits
  BY <1>1 DEF Range
<1>4. ASSUME NEW e \in hits, e \notin Range(seen.rows),
             ~seen.hasMore \/ \E z \in Range(seen.rows) : k[e] < k[z]
      PROVE  Cardinality(Ahead(k, hits, e)) < offset
  <2>1. Cardinality(Ahead(k, hits, e)) \in Nat /\ Cardinality(Ahead(k, hits, e)) < Cardinality(hits)
    BY RanksExist
  <2>2. Cardinality(Ahead(k, hits, e)) < offset + PageLimit
    <3>1. CASE ~seen.hasMore
      BY <1>1, <1>2, <2>1, <3>1
    <3>2. CASE \E z \in Range(seen.rows) : k[e] < k[z]
      <4>1. PICK z \in Range(seen.rows) : k[e] < k[z]
        BY <3>2
      <4>2. z \in hits
        BY <1>3
      <4>3. Cardinality(Ahead(k, hits, z)) < offset + PageLimit
        BY <1>1, <4>2
      <4>4. Cardinality(Ahead(k, hits, z)) \in Nat /\ Cardinality(Ahead(k, hits, e)) < Cardinality(Ahead(k, hits, z))
        BY <4>1, <4>2, RanksExist
      <4>5. QED
        BY <1>2, <2>1, <4>3, <4>4
    <3>3. QED
      BY <1>4, <3>1, <3>2
  <2>3. ~(offset <= Cardinality(Ahead(k, hits, e)))
    BY <1>1, <1>4, <2>2
  <2>4. QED
    BY <2>1, <2>3
<1>5. QED
  BY <1>1, <1>3, <1>4 DEF PageIs

\* A page of the merge of two halves, each read as far as the page may need it.
LEMMA MergedPage ==
    ASSUME NEW C \in SUBSET Dish, NEW U \in SUBSET Dish, NEW offset \in Nat,
           locale \in LocaleOrders, NEW f, Browses(f), NEW k, k = OrderKey(f),
           NEW M, M = Halves(k, C, U, FetchLimit(offset)), NEW hits, hits = C \cup U,
           NEW seen, seen = WindowResult(Window(ByLocale(M), offset, PageLimit + 1), offset)
    PROVE  PageIs(seen, offset, hits, k, OneOrder(f))
<1> DEFINE n == offset + PageLimit + 1
<1>1. PageLimit \in Nat /\ n \in Nat /\ FetchLimit(offset) = n
  BY DishFacts DEF FetchLimit
<1>2. Orders(k, Dish)
  <2>1. \A a \in Dish : k[a] = a
    BY DEF OrderKey, Browses
  <2>2. Dish \in SUBSET Int /\ IsFiniteSet(Dish)
    BY DishFacts
  <2>3. QED
    BY <2>1, <2>2, NamesRanked
<1>3. M \in SUBSET Dish /\ M \subseteq hits /\ hits \in SUBSET Dish
  BY DEF Leading, Halves
<1>4. /\ \A e \in hits \ M : Cardinality(M) >= n
      /\ \A z \in M, e \in hits : Cardinality(Ahead(k, M, z)) < n /\ k[e] < k[z] => e \in M
      /\ \A z \in M : Cardinality(Ahead(k, M, z)) < n => Ahead(k, hits, z) = Ahead(k, M, z)
  <2> HIDE DEF n
  <2>1. M = Halves(k, C, U, n)
    BY <1>1
  <2>2. n \in Nat
    BY <1>1
  <2>3. Begins(k, M, hits, n)
    BY <1>2, <2>1, <2>2, MergeBegins
  <2>4. QED
    BY <2>3 DEF Begins
<1>5. Orders(locale, M) /\ Ranked(ByLocale(M), locale, M)
  BY <1>3, LocaleRanked
<1>6. PageIs(seen, offset, M, locale, TRUE)
  BY <1>3, <1>5, PlainPage
<1>7. /\ seen.rows \in Seq(Dish) /\ IsInjective(seen.rows) /\ Range(seen.rows) \subseteq M /\ seen.hasMore \in BOOLEAN
      /\ offset = 0 /\ seen.total.relation = "exact" => Cardinality(M) <= PageLimit /\ seen.total.value = Cardinality(M)
      /\ seen.hasMore <=> Cardinality(M) > offset + PageLimit
  BY <1>3, <1>5, <1>6, PageOfRanked DEF PageIs
<1>8. \A a \in M : a \in Range(seen.rows) =>
         offset <= Cardinality(Ahead(locale, M, a)) /\ Cardinality(Ahead(locale, M, a)) < offset + PageLimit
  BY <1>5, PageOfRanked
<1>9. Cardinality(M) \in Nat /\ (Cardinality(M) <= offset + PageLimit => hits = M)
  <2>1. Cardinality(M) \in Nat
    BY <1>3, DishFacts
  <2>2. QED
    BY <1>1, <1>3, <1>4, <2>1
<1>10. ASSUME OneOrder(f), NEW e \in hits, e \notin Range(seen.rows),
              ~seen.hasMore \/ \E z \in Range(seen.rows) : k[e] < k[z]
       PROVE  Cardinality(Ahead(k, hits, e)) < offset
  <2>1. \A a, b \in Dish : a < b <=> locale[a] < locale[b]
    <3> SUFFICES ASSUME NEW a \in Dish, NEW b \in Dish PROVE a < b <=> locale[a] < locale[b]
      OBVIOUS
    <3>1. a < b => locale[a] < locale[b]
      BY <1>10 DEF OneOrder, Browses
    <3>2. b < a => locale[b] < locale[a]
      BY <1>10 DEF OneOrder, Browses
    <3>3. a \in Int /\ b \in Int
      BY DishFacts
    <3>4. locale[a] \in Int /\ locale[b] \in Int
      BY WebSearchAssumption DEF Dish
    <3>5. a < b \/ b < a \/ a = b
      BY <3>3
    <3>6. QED
      BY <3>1, <3>2, <3>3, <3>4, <3>5
  <2>9. \A a \in Dish : k[a] = a
    BY DEF OrderKey, Browses
  <2>2. ASSUME NEW a \in M PROVE Ahead(locale, M, a) = Ahead(k, M, a)
    BY <1>3, <2>1, <2>9 DEF Ahead
  <2>3. e \in M
    <3>1. CASE ~seen.hasMore
      BY <1>1, <1>7, <1>9, <3>1
    <3>2. CASE \E z \in Range(seen.rows) : k[e] < k[z]
      <4>1. PICK z \in Range(seen.rows) : k[e] < k[z]
        BY <3>2
      <4>2. z \in M
        BY <1>7
      <4>3. Cardinality(Ahead(k, M, z)) < offset + PageLimit /\ Cardinality(Ahead(k, M, z)) \in Nat
        BY <1>8, <2>2, <4>2, <1>5, RanksExist
      <4>4. Cardinality(Ahead(k, M, z)) < n
        BY <1>1, <4>3
      <4>5. QED
        BY <1>4, <4>1, <4>2, <4>4
    <3>3. QED
      BY <1>10, <3>1, <3>2
  <2>4. Cardinality(Ahead(locale, M, e)) < offset
    <3>1. \A z \in Range(seen.rows) : k[e] < k[z] => locale[e] < locale[z]
      <4> SUFFICES ASSUME NEW z \in Range(seen.rows), k[e] < k[z] PROVE locale[e] < locale[z]
        OBVIOUS
      <4>1. e \in Dish /\ z \in Dish
        BY <1>3, <1>7, <2>3
      <4>2. k[e] = e /\ k[z] = z
        BY <2>9, <4>1
      <4>3. QED
        BY <2>1, <4>1, <4>2
    <3>2. ~seen.hasMore \/ \E z \in Range(seen.rows) : locale[e] < locale[z]
      BY <1>10, <3>1
    <3>3. e \in M \ Range(seen.rows)
      BY <1>10, <2>3
    <3>4. QED
      BY <1>6, <3>2, <3>3 DEF PageIs
  <2>5. Cardinality(Ahead(k, M, e)) < offset
    BY <2>2, <2>3, <2>4
  <2>6. Cardinality(Ahead(k, M, e)) < n
    <3>1. Cardinality(Ahead(k, M, e)) \in Nat
      BY <1>5, <2>2, <2>3, RanksExist
    <3>2. QED
      BY <1>1, <2>5, <3>1
  <2>7. Ahead(k, hits, e) = Ahead(k, M, e)
    BY <1>4, <2>3, <2>6
  <2>8. QED
    BY <2>5, <2>7
<1>11. ASSUME offset = 0, seen.total.relation = "exact" PROVE seen.total.value = Cardinality(hits)
  <2>1. Cardinality(M) <= PageLimit /\ seen.total.value = Cardinality(M)
    BY <1>7, <1>11
  <2>2. hits = M
    BY <1>1, <1>9, <1>11, <2>1
  <2>3. QED
    BY <2>1, <2>2
<1>12. QED
  BY <1>3, <1>7, <1>10, <1>11 DEF PageIs

\* Every page that search returns is one of the matches.
LEMMA SearchPageIs ==
    ASSUME NEW f, NEW offset \in Nat, locale \in LocaleOrders
    PROVE  PageIs(SearchPage(f, offset), offset, Hits(f), OrderKey(f), OneOrder(f))
<1> DEFINE k == OrderKey(f)
<1>1. Hits(f) \in SUBSET Dish
  BY DEF Hits, TagFilter
<1>2. f.text = "" => \A a \in Dish : k[a] = a
  BY DEF OrderKey
<1>3. f.text # "" => \A a \in Dish : k[a] = 0 - DishTable[a].score
  BY DEF OrderKey
<1> HIDE DEF k
<1>4. CASE f.text # ""
  <2>1. SearchPage(f, offset) = WindowResult(Window(ByScore(Hits(f)), offset, PageLimit + 1), offset)
    BY <1>4 DEF SearchPage
  <2>2. Orders(k, Hits(f)) /\ Ranked(ByScore(Hits(f)), k, Hits(f))
    BY <1>1, <1>3, <1>4, ScoresRanked
  <2>3. QED
    BY <1>1, <2>1, <2>2, PlainPage DEF k
<1>5. CASE f.text = "" /\ f.scope # "all"
  <2>1. SearchPage(f, offset) = WindowResult(Window(ByName(Hits(f)), offset, PageLimit + 1), offset)
    BY <1>5 DEF SearchPage
  <2>2. Orders(k, Hits(f)) /\ Ranked(ByName(Hits(f)), k, Hits(f))
    <3>1. Hits(f) \in SUBSET Int /\ IsFiniteSet(Hits(f)) /\ \A a \in Hits(f) : k[a] = a
      BY <1>1, <1>2, <1>5, DishFacts
    <3>2. QED
      BY <3>1, NamesRanked
  <2>3. QED
    BY <1>1, <2>1, <2>2, PlainPage DEF k
<1>6. CASE f.text = "" /\ f.scope = "all"
  <2> DEFINE C == {d \in Active : library[d] = "catalog"} \cap TagFilter(f)
             U == Custom \cap TagFilter(f)
             n == FetchLimit(offset)
             M == Halves(k, C, U, n)
  <2>1. C \in SUBSET Dish /\ U \in SUBSET Dish /\ n \in Nat
    <3>1. C \in SUBSET Dish /\ U \in SUBSET Dish
      BY DEF TagFilter
    <3>2. PageLimit \in Nat
      BY DishFacts
    <3>3. QED
      BY <3>1, <3>2 DEF FetchLimit
  <2>2. Hits(f) = C \cup U
    <3>1. AccessFilter(f.scope) = {d \in Active : library[d] = "catalog"} \cup Custom
      BY <1>6 DEF AccessFilter
    <3>2. TextMatch(f) = Dish /\ TagFilter(f) \subseteq Dish
      BY <1>6 DEF TextMatch, TagFilter
    <3>3. QED
      BY <3>1, <3>2 DEF Hits
  <2>3. SearchPage(f, offset) = WindowResult(Window(Merged(f, offset), offset, PageLimit + 1), offset)
    BY <1>6 DEF SearchPage
  <2>4. Merged(f, offset) = ByLocale(Range(FirstOf(ByName(C), n)) \cup Range(FirstOf(ByName(U), n)))
    BY DEF Merged
  <2> HIDE DEF C, U, n
  <2>5. ASSUME NEW S \in SUBSET Dish
        PROVE  Range(FirstOf(ByName(S), n)) = Leading(k, S, n)
    <3>1. Orders(k, S) /\ Ranked(ByName(S), k, S)
      <4>1. S \in SUBSET Int /\ IsFiniteSet(S) /\ \A a \in S : k[a] = a
        BY <1>2, <1>6, DishFacts
      <4>2. QED
        BY <4>1, NamesRanked
    <3>2. QED
      BY <2>1, <3>1, FirstOfRanked
  <2>6. Merged(f, offset) = ByLocale(M)
    BY <2>1, <2>4, <2>5 DEF Halves
  <2>8. M = Halves(k, C, U, FetchLimit(offset))
    BY DEF n
  <2> HIDE DEF M
  <2>9. PageIs(SearchPage(f, offset), offset, Hits(f), k, OneOrder(f))
    BY <1>6, <2>1, <2>2, <2>3, <2>6, <2>8, MergedPage DEF k, Browses
  <2>10. QED
    BY <2>9 DEF k
<1>7. QED
  BY <1>4, <1>5, <1>6

\* Two sequences in a row.
LEMMA ConcatIs ==
    ASSUME NEW S, NEW s \in Seq(S), NEW t \in Seq(S)
    PROVE  /\ s \o t \in Seq(S) /\ Len(s) \in Nat /\ Len(t) \in Nat /\ Len(s \o t) = Len(s) + Len(t)
           /\ DOMAIN (s \o t) = 1 .. Len(s) + Len(t)
           /\ \A i \in 1 .. Len(s) + Len(t) : (s \o t)[i] = IF i <= Len(s) THEN s[i] ELSE t[i - Len(s)]
OBVIOUS

\* What is added to a grid follows what is there, and nothing comes twice.
LEMMA AppendedRows ==
    ASSUME page.shown \in Seq(Dish), IsInjective(page.shown), NEW rows \in Seq(Dish), IsInjective(rows)
    PROVE  /\ AppendNew(rows) \in Seq(Dish) /\ IsInjective(AppendNew(rows)) /\ Len(page.shown) <= Len(AppendNew(rows))
           /\ Range(AppendNew(rows)) = Range(page.shown) \cup Range(rows)
<1> DEFINE s == page.shown
           N == {i \in DOMAIN rows : rows[i] \notin Range(s)}
           new == ByName(N)
           k == [i \in N |-> i]
           t == [i \in DOMAIN new |-> rows[new[i]]]
           n == Len(s)
<1>1. AppendNew(rows) = s \o t
  BY DEF AppendNew, ByName, Sorted
<1>2. N \in SUBSET Int /\ IsFiniteSet(N) /\ DOMAIN rows = 1 .. Len(rows) /\ Len(rows) \in Nat /\ N \subseteq DOMAIN rows
  <2>1. DOMAIN rows = 1 .. Len(rows) /\ Len(rows) \in Nat /\ N \in SUBSET (1 .. Len(rows))
    OBVIOUS
  <2> HIDE DEF N
  <2>2. IsFiniteSet(1 .. Len(rows))
    BY <2>1, FS_Interval
  <2>3. IsFiniteSet(N)
    BY <2>1, <2>2, FS_Subset
  <2>4. QED
    BY <2>1, <2>3
<1>3. \A i \in N : rows[i] \notin Range(s)
  OBVIOUS
<1>4. \A i \in DOMAIN rows : rows[i] \notin Range(s) => i \in N
  OBVIOUS
<1> HIDE DEF N
<1>5. Orders(k, N) /\ Ranked(new, k, N)
  BY <1>2, NamesRanked
<1> HIDE DEF new, k
<1>6. new \in Seq(N) /\ IsInjective(new) /\ Range(new) = N
  BY <1>5, RankedRows
<1>7. DOMAIN new = 1 .. Len(new) /\ Len(new) \in Nat /\ \A i \in DOMAIN new : new[i] \in N
  BY <1>6
<1>8. t \in Seq(Dish) /\ Len(t) = Len(new) /\ \A i \in 1 .. Len(new) : t[i] = rows[new[i]]
  <2>1. ASSUME NEW i \in 1 .. Len(new) PROVE rows[new[i]] \in Dish
    <3>1. new[i] \in 1 .. Len(rows)
      BY <1>2, <1>7
    <3>2. QED
      BY <3>1
  <2>2. QED
    BY <1>7, <2>1
<1> HIDE DEF t
<1>9. s \in Seq(Dish) /\ n \in Nat /\ DOMAIN s = 1 .. n
  OBVIOUS
<1>10. IsInjective(s) /\ IsInjective(rows)
  OBVIOUS
<1> HIDE DEF s
<1>11. /\ s \o t \in Seq(Dish) /\ Len(s \o t) = n + Len(new) /\ DOMAIN (s \o t) = 1 .. n + Len(new)
       /\ \A i \in 1 .. n : (s \o t)[i] = s[i]
       /\ \A i \in 1 .. Len(new) : n + i \in 1 .. n + Len(new) /\ (s \o t)[n + i] = rows[new[i]]
  <2>0. t \in Seq(Dish) /\ Len(t) = Len(new)
    BY <1>8
  <2>1. /\ s \o t \in Seq(Dish) /\ Len(s \o t) = n + Len(t) /\ DOMAIN (s \o t) = 1 .. n + Len(t)
        /\ \A i \in 1 .. n + Len(t) : (s \o t)[i] = IF i <= n THEN s[i] ELSE t[i - n]
    <3>1. /\ s \o t \in Seq(Dish) /\ Len(s \o t) = Len(s) + Len(t) /\ DOMAIN (s \o t) = 1 .. Len(s) + Len(t)
          /\ \A i \in 1 .. Len(s) + Len(t) : (s \o t)[i] = IF i <= Len(s) THEN s[i] ELSE t[i - Len(s)]
      <4> HIDE DEF n
      <4>1. s \in Seq(Dish) /\ t \in Seq(Dish)
        BY <1>9, <2>0
      <4>2. QED
        BY <4>1, ConcatIs
    <3>2. QED
      BY <3>1
  <2>2. \A i \in 1 .. n + Len(new) : (s \o t)[i] = IF i <= n THEN s[i] ELSE t[i - n]
    BY <2>0, <2>1
  <2>3. \A i \in 1 .. n : (s \o t)[i] = s[i]
    <3>1. \A i \in 1 .. n : i \in 1 .. n + Len(new) /\ i <= n
      BY <1>7, <1>9
    <3>2. QED
      BY <2>2, <3>1
  <2>4. ASSUME NEW i \in 1 .. Len(new) PROVE n + i \in 1 .. n + Len(new) /\ (s \o t)[n + i] = rows[new[i]]
    <3>1. n + i \in 1 .. n + Len(new) /\ n + i > n /\ (n + i) - n = i
      BY <1>7, <1>9
    <3>4. n + i > n => ~(n + i <= n)
      BY <1>7, <1>9
    <3>2. (s \o t)[n + i] = t[i]
      BY <2>2, <3>1, <3>4
    <3>3. QED
      BY <1>8, <3>1, <3>2
  <2>5. QED
    BY <2>0, <2>1, <2>3, <2>4
<1> DEFINE u == s \o t
<1>12. \A i \in 1 .. n + Len(new) : i \in 1 .. n \/ \E j \in 1 .. Len(new) : i = n + j
  <2> SUFFICES ASSUME NEW i \in 1 .. n + Len(new), i \notin 1 .. n PROVE \E j \in 1 .. Len(new) : i = n + j
    OBVIOUS
  <2>1. i - n \in 1 .. Len(new) /\ i = n + (i - n)
    BY <1>7, <1>9
  <2>2. QED
    BY <2>1
<1> HIDE DEF u
<1>13. /\ u \in Seq(Dish) /\ Len(u) = n + Len(new) /\ DOMAIN u = 1 .. n + Len(new)
       /\ \A i \in 1 .. n : u[i] = s[i] /\ i \in 1 .. n + Len(new)
       /\ \A i \in 1 .. Len(new) : n + i \in 1 .. n + Len(new) /\ u[n + i] = rows[new[i]]
  BY <1>7, <1>9, <1>11 DEF u
<1>14. ASSUME NEW i \in 1 .. n, NEW j \in 1 .. Len(new) PROVE s[i] # rows[new[j]]
  BY <1>3, <1>7, <1>9 DEF Range
<1>15. ASSUME NEW i \in DOMAIN u, NEW j \in DOMAIN u, u[i] = u[j] PROVE i = j
  <2>1. CASE i \in 1 .. n /\ j \in 1 .. n
    BY <1>9, <1>10, <1>13, <1>15, <2>1 DEF IsInjective
  <2>2. CASE \E a, b \in 1 .. Len(new) : i = n + a /\ j = n + b
    <3>1. PICK a \in 1 .. Len(new), b \in 1 .. Len(new) : i = n + a /\ j = n + b
      BY <2>2
    <3>2. rows[new[a]] = rows[new[b]]
      BY <1>13, <1>15, <3>1
    <3>3. new[a] = new[b]
      BY <1>2, <1>7, <1>10, <3>2 DEF IsInjective
    <3>4. a = b
      BY <1>6, <1>7, <3>3 DEF IsInjective
    <3>5. QED
      BY <3>1, <3>4
  <2>3. CASE i \in 1 .. n /\ \E b \in 1 .. Len(new) : j = n + b
    BY <1>13, <1>14, <1>15, <2>3
  <2>4. CASE j \in 1 .. n /\ \E a \in 1 .. Len(new) : i = n + a
    BY <1>13, <1>14, <1>15, <2>4
  <2>5. QED
    <3>1. i \in 1 .. n \/ \E b \in 1 .. Len(new) : i = n + b
      BY <1>12, <1>13
    <3>2. j \in 1 .. n \/ \E b \in 1 .. Len(new) : j = n + b
      BY <1>12, <1>13
    <3>3. QED
      BY <2>1, <2>2, <2>3, <2>4, <3>1, <3>2
<1>16. Range(u) \subseteq Range(s) \cup Range(rows)
  <2> SUFFICES ASSUME NEW i \in DOMAIN u PROVE u[i] \in Range(s) \cup Range(rows)
    BY DEF Range
  <2>1. CASE i \in 1 .. n
    BY <1>9, <1>13, <2>1 DEF Range
  <2>2. CASE \E b \in 1 .. Len(new) : i = n + b
    BY <1>2, <1>7, <1>13, <2>2 DEF Range
  <2>3. QED
    BY <1>12, <1>13, <2>1, <2>2
<1>17. Range(s) \subseteq Range(u)
  BY <1>9, <1>13 DEF Range
<1>18. ASSUME NEW i \in DOMAIN rows, rows[i] \notin Range(s) PROVE rows[i] \in Range(u)
  <2>1. i \in Range(new)
    BY <1>4, <1>6, <1>18
  <2>2. PICK j \in 1 .. Len(new) : i = new[j]
    BY <1>7, <2>1 DEF Range
  <2>3. QED
    BY <1>13, <2>2 DEF Range
<1>19. Range(u) = Range(s) \cup Range(rows)
  <2>1. Range(rows) \subseteq Range(u)
    BY <1>17, <1>18 DEF Range
  <2>2. QED
    BY <1>16, <1>17, <2>1
<1>20. n <= Len(u)
  BY <1>7, <1>9, <1>13
<1>21. IsInjective(u)
  BY <1>15 DEF IsInjective
<1>22. QED
  BY <1>1, <1>13, <1>19, <1>20, <1>21 DEF u, s

\* What the URL carries is read as what was asked for, and asked for again it is
\* the same.
LEMMA RoundTrip ==
    ASSUME NEW w
    PROVE  /\ ReadFilters(RecipeSearchParams(w)) = NormalizeRecipeSearch(w)
           /\ NormalizeRecipeSearch(NormalizeRecipeSearch(w)) = NormalizeRecipeSearch(w)
<1> DEFINE f == NormalizeRecipeSearch(w)
           url == RecipeSearchParams(w)
           Get(p, missing) == IF p \in DOMAIN url THEN url[p] ELSE missing
           many == Cardinality(f.tags) > 1
           Set(q) == CASE q = "text" -> f.text # "" [] q = "tags" -> f.tags # {}
                       [] q = "tagMatch" -> many \/ f.tagMatch = "any" [] q = "scope" -> f.scope # "all"
<1>1. f = [text |-> f.text, tags |-> f.tags, tagMatch |-> f.tagMatch, scope |-> f.scope]
  BY DEF NormalizeRecipeSearch
<1>2. /\ f.tags = f.tags \ {""} /\ f.tagMatch \in {"any", "all"}
      /\ f.scope \in {"catalog", "mine", "household", "all"}
  BY DEF NormalizeRecipeSearch, NormalizeRecipeTags, NormalizeTagMatch, NormalizeRecipeScope
<1>3. url = [p \in {q \in DOMAIN f : Set(q)} |-> f[p]]
  BY Zenon DEF RecipeSearchParams
<1>4. ReadFilters(url) =
        NormalizeRecipeSearch([text |-> Get("text", ""), tags |-> Get("tags", {}),
                               tagMatch |-> Get("tagMatch", "none"), scope |-> Get("scope", "none")])
  BY Zenon DEF ReadFilters
<1> HIDE DEF f, url, many
<1>5. DOMAIN f = {"text", "tags", "tagMatch", "scope"}
  BY <1>1
<1>6. DOMAIN url = {q \in DOMAIN f : Set(q)} /\ \A p \in DOMAIN url : url[p] = f[p]
  BY <1>3
<1>7. /\ "text" \in DOMAIN url <=> f.text # ""
      /\ "tags" \in DOMAIN url <=> f.tags # {}
      /\ "tagMatch" \in DOMAIN url <=> many \/ f.tagMatch = "any"
      /\ "scope" \in DOMAIN url <=> f.scope # "all"
  BY <1>5, <1>6
<1>8. Get("text", "") = f.text /\ Get("tags", {}) = f.tags
  BY <1>6, <1>7
<1>9. NormalizeTagMatch(Get("tagMatch", "none")) = f.tagMatch
  BY <1>2, <1>6, <1>7 DEF NormalizeTagMatch
<1>10. NormalizeRecipeScope(Get("scope", "none")) = f.scope
  BY <1>2, <1>6, <1>7 DEF NormalizeRecipeScope
<1> HIDE DEF Get
<1>11. ReadFilters(url) = f
  BY <1>1, <1>2, <1>4, <1>8, <1>9, <1>10 DEF NormalizeRecipeSearch, NormalizeRecipeTags
<1>12. NormalizeTagMatch(f.tagMatch) = f.tagMatch /\ NormalizeRecipeScope(f.scope) = f.scope
  BY <1>2 DEF NormalizeTagMatch, NormalizeRecipeScope
<1>13. NormalizeRecipeSearch(f) = f
  BY <1>1, <1>2, <1>12 DEF NormalizeRecipeSearch, NormalizeRecipeTags
<1>14. QED
  BY <1>11, <1>13 DEF f, url

\* The count next to a tag is the number of matches that have it.
LEMMA FacetsCount ==
    ASSUME Parted, NEW f, NEW g, NEW tag, g.text = f.text, g.scope = f.scope, f.tags = {},
           f.scope \in {"catalog", "mine", "household", "all"}, g.tags = {tag}, g.tagMatch = "all"
    PROVE  Facets(f, tag) = Cardinality(Hits(g))
<1> DEFINE Tagged(S) == {d \in S : tag \in DishTable[d].tags}
           catalog == {d \in Active : library[d] = "catalog"}
<1>1. TagFilter(g) = Tagged(Dish) /\ TagFilter(f) = Dish /\ TextMatch(g) = TextMatch(f)
  BY DEF TagFilter, TextMatch
<1>2. AccessFilter(g.scope) = AccessFilter(f.scope)
  OBVIOUS
<1>3. \A S : TagCount(S, tag) = Cardinality(Tagged(S))
  BY DEF TagCount
<1>4. CASE f.text # "" \/ f.scope \in {"mine", "household"}
  <2>1. Facets(f, tag) = TagCount(Hits(f), tag)
    BY <1>4 DEF Facets
  <2>2. Hits(g) = Tagged(Hits(f))
    BY <1>1, <1>2 DEF Hits, TextMatch
  <2>3. QED
    BY <1>3, <2>1, <2>2
<1>5. CASE f.text = "" /\ f.scope = "catalog"
  <2>1. Facets(f, tag) = TagCount(catalog, tag)
    BY <1>5 DEF Facets
  <2>2. AccessFilter(f.scope) = catalog /\ TextMatch(f) = Dish
    BY <1>5 DEF AccessFilter, TextMatch
  <2>3. Hits(g) = Tagged(catalog)
    BY <1>1, <1>2, <2>2 DEF Hits, Active
  <2>4. QED
    BY <1>3, <2>1, <2>3
<1>6. CASE f.text = "" /\ f.scope = "all"
  <2>1. Facets(f, tag) = TagCount(catalog, tag) + TagCount(Custom, tag)
    BY <1>6 DEF Facets
  <2>2. AccessFilter(f.scope) = catalog \cup Custom /\ TextMatch(f) = Dish
    BY <1>6 DEF AccessFilter, TextMatch
  <2>3. Hits(g) = Tagged(catalog) \cup Tagged(Custom)
    BY <1>1, <1>2, <2>2 DEF Hits, Active, Custom, Mine
  <2>4. Tagged(catalog) \cap Tagged(Custom) = {}
    <3>1. catalog \cap Custom = {}
      BY DEF Parted, Custom, Mine, Active
    <3>2. QED
      BY <3>1
  <2>5. Tagged(catalog) \in SUBSET Dish /\ Tagged(Custom) \in SUBSET Dish
    BY DEF Custom, Mine, Active
  <2> DEFINE A == Tagged(catalog)
             B == Tagged(Custom)
  <2>6. Facets(f, tag) = Cardinality(A) + Cardinality(B) /\ Hits(g) = A \cup B /\ A \cap B = {}
        /\ A \in SUBSET Dish /\ B \in SUBSET Dish
    BY <1>3, <2>1, <2>3, <2>4, <2>5
  <2> HIDE DEF A, B
  <2>7. IsFiniteSet(A) /\ IsFiniteSet(B) /\ Cardinality(A) \in Nat /\ Cardinality(B) \in Nat
    BY <2>6, DishFacts
  <2>8. Cardinality(A \cup B) = Cardinality(A) + Cardinality(B) - Cardinality(A \cap B) /\ Cardinality({}) = 0
    BY <2>7, FS_Union, FS_EmptySet
  <2>9. Cardinality(A \cup B) = Cardinality(A) + Cardinality(B)
    <3>1. \A x, y \in Nat : x + y - 0 = x + y
      OBVIOUS
    <3>2. Cardinality(A \cap B) = 0
      BY <2>6, <2>8, Zenon
    <3>3. QED
      BY <2>7, <2>8, <3>1, <3>2, Zenon
  <2>10. QED
    BY <2>6, <2>9, Zenon
<1>7. QED
  BY <1>4, <1>5, <1>6

\* What a filter finds depends on nothing but the library.
LEMMA HitsStay ==
    ASSUME UNCHANGED library, NEW f
    PROVE  Hits(f)' = Hits(f)
BY DEF Hits, AccessFilter, Active, Mine, Custom, TagFilter, TextMatch

\* The order of names is the same for good.
LEMMA OneOrderStays ==
    ASSUME UNCHANGED locale, NEW f
    PROVE  OneOrder(f)' = OneOrder(f)
BY DEF OneOrder

\* A grid is what it was first given.
LEMMA LoadedIsGood ==
    ASSUME NEW f \in Filters, locale \in LocaleOrders
    PROVE  Loaded(f, f) \in Grid /\ GoodPage(Loaded(f, f), Hits(f), OneOrder(f)) /\ Loaded(f, f).wanted = f
<1> DEFINE first == SearchPage(f, 0)
           hits == Hits(f)
           one == OneOrder(f)
           p == Loaded(f, f)
           k == OrderKey(f)
<1>1. p = [filters |-> f, shown |-> first.rows, hasMore |-> first.hasMore, error |-> FALSE,
           length |-> Len(first.rows), more |-> first.hasMore, wanted |-> f, owed |-> hits, shrunk |-> FALSE]
  BY DEF Loaded
<1>2. PageIs(first, 0, hits, k, one)
  BY SearchPageIs
<1>3. hits \in SUBSET Dish
  BY DEF Hits, TagFilter
<1> HIDE DEF first, hits, one, p, k
<1>4. /\ first.rows \in Seq(Dish) /\ IsInjective(first.rows) /\ Range(first.rows) \subseteq hits /\ first.hasMore \in BOOLEAN
      /\ one => \A e \in hits \ Range(first.rows) :
                   ~first.hasMore \/ (\E z \in Range(first.rows) : k[e] < k[z]) => Cardinality(Ahead(k, hits, e)) < 0
  BY <1>2 DEF PageIs
<1>5. Len(first.rows) \in Nat
  BY <1>4
<1>6. \A e \in hits : Cardinality(Ahead(k, hits, e)) \in Nat
  BY <1>3, DishFacts DEF Ahead
<1>7. ASSUME one, NEW e \in hits, ~first.hasMore \/ \E z \in Range(first.rows) : k[e] < k[z]
      PROVE  e \in Range(first.rows)
  <2> SUFFICES ASSUME e \notin Range(first.rows) PROVE FALSE
    OBVIOUS
  <2>1. Cardinality(Ahead(k, hits, e)) < 0 /\ Cardinality(Ahead(k, hits, e)) \in Nat
    BY <1>4, <1>6, <1>7
  <2>2. QED
    BY <2>1
<1>8. /\ p.filters = f /\ p.wanted = f /\ p.shown = first.rows /\ p.hasMore = first.hasMore /\ p.length = Len(first.rows)
      /\ p.owed = hits
  BY <1>1
<1>9. p \in Grid
  BY <1>1, <1>3, <1>4, <1>5 DEF Grid
<1>10. Covers(p, Range(p.shown), p.hasMore, hits, one)
  BY <1>4, <1>7, <1>8 DEF Covers, Gapless, k
<1>11. GoodPage(p, hits, one)
  BY <1>4, <1>5, <1>8, <1>10 DEF GoodPage
<1>12. QED
  BY <1>8, <1>9, <1>11 DEF p, hits, one

\* Whatever page the store returns for what is shown, nothing is skipped: a dish
\* that it leaves out has fewer before it than are shown, so it is shown.
LEMMA AnswerIsGood ==
    ASSUME NEW p \in Grid, NEW hits \in SUBSET Dish, NEW one, GoodPage(p, hits, one),
           NEW offset \in 0 .. Len(p.shown), NEW seen, PageIs(seen, offset, hits, OrderKey(p.wanted), one),
           Orders(OrderKey(p.wanted), hits)
    PROVE  GoodAnswer(p, seen, hits, one)
<1> DEFINE k == OrderKey(p.wanted)
           S == Range(p.shown)
           R == Range(seen.rows)
<1> HIDE DEF k
<1>1. /\ seen.rows \in Seq(Dish) /\ IsInjective(seen.rows) /\ R \subseteq hits /\ seen.hasMore \in BOOLEAN
      /\ one => \A e \in hits \ R : ~seen.hasMore \/ (\E z \in R : k[e] < k[z]) => Cardinality(Ahead(k, hits, e)) < offset
  BY DEF PageIs, k
<1>2. /\ p.shown \in Seq(Dish) /\ IsInjective(p.shown) /\ p.owed \in SUBSET Dish
      /\ ~p.shrunk => /\ S \subseteq hits /\ p.owed \subseteq hits
                      /\ one => \A e \in p.owed, z \in S : k[e] < k[z] => e \in S
  BY DEF Grid, GoodPage, Covers, Gapless, k
<1> HIDE DEF S, R
<1>3. ASSUME ~p.shrunk, one, NEW e \in p.owed, e \notin S, e \notin R, Cardinality(Ahead(k, hits, e)) < offset
      PROVE  FALSE
  <2>1. \A s \in S : k[s] < k[e]
    <3> SUFFICES ASSUME NEW s \in S PROVE k[s] < k[e]
      OBVIOUS
    <3>1. ~(k[e] < k[s])
      BY <1>2, <1>3
    <3>2. e \in hits /\ s \in hits /\ s # e
      BY <1>2, <1>3
    <3>3. k[e] \in Int /\ k[s] \in Int /\ k[e] # k[s]
      BY <3>2 DEF Orders, k
    <3>4. QED
      BY <3>1, <3>3
  <2>2. S \in SUBSET Ahead(k, hits, e)
    BY <1>2, <1>3, <2>1 DEF Ahead
  <2>3. Ahead(k, hits, e) \in SUBSET Dish
    BY DEF Ahead
  <2>4. Cardinality(S) <= Cardinality(Ahead(k, hits, e)) /\ Cardinality(Ahead(k, hits, e)) \in Nat
    BY <2>2, <2>3, DishFacts, FS_Subset
  <2>5. Cardinality(S) = Len(p.shown) /\ Len(p.shown) \in Nat
    <3>1. DOMAIN p.shown = 1 .. Len(p.shown) /\ Len(p.shown) \in Nat
      BY <1>2
    <3>2. p.shown \in Bijection(1 .. Len(p.shown), S)
      BY <1>2, <3>1 DEF Bijection, Injection, Surjection, Range, S, IsInjective
    <3>3. ExistsBijection(1 .. Len(p.shown), S)
      BY <3>2 DEF ExistsBijection
    <3>4. QED
      BY <3>1, <3>3, FS_CountingElements
  <2>6. offset \in Int /\ offset <= Len(p.shown)
    BY <2>5
  <2>7. QED
    BY <1>3, <2>4, <2>5, <2>6
<1>4. Covers(p, S \cup R, seen.hasMore, hits, one)
  <2> SUFFICES ASSUME ~p.shrunk
               PROVE  /\ S \cup R \subseteq hits /\ p.owed \subseteq hits
                      /\ one => Gapless(k, S \cup R, p.owed)
                      /\ one /\ ~seen.hasMore => p.owed \subseteq S \cup R
    BY DEF Covers, k
  <2>1. ASSUME one, NEW e \in p.owed, ~seen.hasMore \/ \E z \in R : k[e] < k[z] PROVE e \in S \cup R
    BY <1>1, <1>2, <1>3, <2>1
  <2>2. one => Gapless(k, S \cup R, p.owed)
    BY <1>2, <2>1 DEF Gapless
  <2>3. QED
    BY <1>1, <1>2, <2>1, <2>2
<1>5. QED
  BY <1>1, <1>4 DEF GoodAnswer, S, R

\* What arrives is added to what is shown.
LEMMA ArrivalIsGood ==
    ASSUME page \in Grid, NEW hits, NEW one, GoodPage(page, hits, one), NEW result, GoodAnswer(page, result, hits, one),
           Extend(result)
    PROVE  page' \in Grid /\ GoodPage(page', hits, one) /\ page'.wanted = page.wanted
<1>1. /\ page.shown \in Seq(Dish) /\ IsInjective(page.shown) /\ page.filters = page.wanted
      /\ page.length \in Nat /\ page.length <= Len(page.shown)
  BY DEF Grid, GoodPage
<1>2. /\ result.rows \in Seq(Dish) /\ IsInjective(result.rows) /\ result.hasMore \in BOOLEAN
      /\ Covers(page, Range(page.shown) \cup Range(result.rows), result.hasMore, hits, one)
  BY DEF GoodAnswer
<1> DEFINE more == AppendNew(result.rows)
<1>3. more \in Seq(Dish) /\ IsInjective(more) /\ Len(page.shown) <= Len(more) /\ Range(more) = Range(page.shown) \cup Range(result.rows)
  BY <1>1, <1>2, AppendedRows
<1>4. page' = [page EXCEPT !.shown = more, !.hasMore = result.hasMore, !.error = FALSE]
  BY DEF Extend
<1> HIDE DEF more
<1>5. /\ page' \in Grid /\ page'.shown = more /\ page'.hasMore = result.hasMore /\ page'.filters = page.filters
      /\ page'.wanted = page.wanted /\ page'.owed = page.owed /\ page'.shrunk = page.shrunk /\ page'.length = page.length
  BY <1>2, <1>3, <1>4 DEF Grid
<1>6. Covers(page', Range(more), result.hasMore, hits, one)
  BY <1>2, <1>3, <1>5 DEF Covers
<1>7. Len(page.shown) \in Nat /\ Len(more) \in Nat
  BY <1>1, <1>3
<1>8. page'.length <= Len(more)
  BY <1>1, <1>3, <1>5, <1>7
<1>9. QED
  BY <1>1, <1>3, <1>5, <1>6, <1>8 DEF GoodPage

\* What a page covers is not less when more matches or less is owed.
LEMMA OwedIsCovered ==
    ASSUME NEW p, NEW q, NEW there, NEW hasMore, NEW hits, NEW later, NEW one, Covers(p, there, hasMore, hits, one),
           q.wanted = p.wanted, q.owed = p.owed \cap later, ~q.shrunk => ~p.shrunk /\ hits \subseteq later
    PROVE  Covers(q, there, hasMore, later, one)
<1> SUFFICES ASSUME ~p.shrunk, hits \subseteq later
             PROVE  /\ there \subseteq later /\ q.owed \subseteq later
                    /\ one => Gapless(OrderKey(q.wanted), there, q.owed)
                    /\ one /\ ~hasMore => q.owed \subseteq there
  BY DEF Covers
<1>1. /\ there \subseteq hits /\ q.owed \subseteq p.owed
      /\ one => Gapless(OrderKey(p.wanted), there, p.owed)
      /\ one /\ ~hasMore => p.owed \subseteq there
  BY DEF Covers
<1>2. there \subseteq later /\ q.owed \subseteq later
  BY <1>1
<1>3. one => Gapless(OrderKey(q.wanted), there, q.owed)
  <2> DEFINE k == OrderKey(p.wanted)
  <2>1. OrderKey(q.wanted) = k
    OBVIOUS
  <2> HIDE DEF k
  <2>2. one => Gapless(k, there, p.owed)
    BY <1>1 DEF k
  <2>3. one => Gapless(k, there, q.owed)
    BY <1>1, <2>2 DEF Gapless
  <2>4. QED
    BY <2>1, <2>3
<1>4. one /\ ~hasMore => q.owed \subseteq there
  BY <1>1
<1>5. QED
  BY <1>2, <1>3, <1>4

\* What is shown and owed is all that counts.
LEMMA PageKept ==
    ASSUME NEW p \in Grid, NEW q \in Grid, NEW hits, NEW one, GoodPage(p, hits, one),
           q.filters = p.filters, q.shown = p.shown, q.hasMore = p.hasMore, q.wanted = p.wanted, q.owed = p.owed,
           q.shrunk = p.shrunk, q.length <= Len(p.shown)
    PROVE  GoodPage(q, hits, one) /\ \A result : GoodAnswer(p, result, hits, one) => GoodAnswer(q, result, hits, one)
<1>1. ASSUME NEW there, NEW hasMore, Covers(p, there, hasMore, hits, one) PROVE Covers(q, there, hasMore, hits, one)
  BY <1>1 DEF Covers
<1>2. QED
  BY <1>1 DEF GoodPage, GoodAnswer

\* The matches have one order, the one the database returns them in.
LEMMA MatchesOrdered ==
    ASSUME NEW f
    PROVE  Orders(OrderKey(f), Hits(f))
<1> DEFINE k == OrderKey(f)
<1>1. Hits(f) \in SUBSET Dish
  BY DEF Hits, TagFilter
<1>2. f.text = "" => \A a \in Dish : k[a] = a
  BY DEF OrderKey
<1>3. f.text # "" => \A a \in Dish : k[a] = 0 - DishTable[a].score
  BY DEF OrderKey
<1> HIDE DEF k
<1>4. CASE f.text # ""
  <2>1. Orders(k, Hits(f))
    BY <1>1, <1>3, <1>4, ScoresRanked
  <2>2. QED
    BY <2>1 DEF k
<1>5. CASE f.text = ""
  <2>1. Hits(f) \in SUBSET Int /\ IsFiniteSet(Hits(f)) /\ \A a \in Hits(f) : k[a] = a
    BY <1>1, <1>2, <1>5, DishFacts
  <2>2. Orders(k, Hits(f))
    BY <2>1, NamesRanked
  <2>3. QED
    BY <2>2 DEF k
<1>6. QED
  BY <1>4, <1>5

\* No search is open at first.
LEMMA SearchInitially == WebSearchInit => SearchInv
<1> SUFFICES ASSUME WebSearchInit PROVE SearchInv
  OBVIOUS
<1>1. /\ library \in [Dish -> {"none", "catalog", "user_private", "household"}] /\ locale \in LocaleOrders
      /\ \A d \in Dish : library[d] \in DishTable[d].first
      /\ saved = NoSearch /\ page = NoSearch /\ fetch = NoFetch
  BY DEF WebSearchInit
<1>2. Parted
  BY <1>1, WebSearchAssumption DEF Parted, Dish
<1>3. fetch.at = "none"
  BY <1>1 DEF NoFetch
<1>4. QED
  BY <1>1, <1>2, <1>3 DEF SearchInv

\* While the library stays as it is, a step is good that leaves a good page, and
\* a good request on it.
LEMMA PageStep ==
    ASSUME SearchInv, UNCHANGED <<library, locale>>, saved' \in Filters \cup {NoSearch},
           page' = NoSearch
             \/ (page' \in Grid /\ GoodPage(page', Hits(page'.wanted), OneOrder(page'.wanted))),
           DOMAIN fetch' = DOMAIN NoFetch, fetch' = NoFetch \/ (fetch'.at \in {"sent", "answered"} /\ page' # NoSearch),
           fetch'.at = "sent" => fetch'.offset \in 0 .. Len(page'.shown),
           fetch'.at = "answered" =>
              GoodAnswer(page', fetch'.result, Hits(page'.wanted), OneOrder(page'.wanted))
    PROVE  SearchInv'
<1>1. Hits(page.wanted)' = Hits(page'.wanted)
  BY DEF Hits, AccessFilter, Active, Mine, Custom, TagFilter, TextMatch
<1>2. OneOrder(page.wanted)' = OneOrder(page'.wanted)
  BY DEF OneOrder
<1>3. Parted'
  BY DEF Parted, SearchInv
<1>4. NoFetch' = NoFetch
  BY DEF NoFetch
<1>5. /\ page' \in Grid \cup {NoSearch}
      /\ page' # NoSearch => GoodPage(page', Hits(page.wanted)', OneOrder(page.wanted)')
  BY <1>1, <1>2
<1>6. fetch'.at = "answered" => GoodAnswer(page', fetch'.result, Hits(page.wanted)', OneOrder(page.wanted)')
  BY <1>1, <1>2
<1>7. QED
  BY <1>3, <1>4, <1>5, <1>6 DEF SearchInv

\* What a step finds.
LEMMA SearchHas ==
    ASSUME SearchInv
    PROVE  /\ locale \in LocaleOrders /\ saved \in Filters \cup {NoSearch}
           /\ page = NoSearch \/ (page \in Grid /\ page # NoSearch /\ GoodPage(page, Hits(page.wanted), OneOrder(page.wanted)))
           /\ DOMAIN fetch = {"at", "offset", "result"} /\ DOMAIN NoFetch = {"at", "offset", "result"}
           /\ fetch = NoFetch \/ (fetch.at \in {"sent", "answered"} /\ page # NoSearch)
           /\ fetch.at = "sent" => fetch.offset \in 0 .. Len(page.shown)
           /\ fetch.at = "answered" => GoodAnswer(page, fetch.result, Hits(page.wanted), OneOrder(page.wanted))
           /\ NoFetch.at = "none" /\ \A fetching \in Grid : fetching # NoSearch
BY NoSearchAssumption DEF SearchInv, NoFetch

\* Nothing is lost where the library, the page and its request stay as they are.
LEMMA NothingMoves ==
    ASSUME SearchInv, UNCHANGED <<library, locale, page, fetch>>, saved' \in Filters \cup {NoSearch}
    PROVE  SearchInv'
<1>1. /\ page' = NoSearch \/ (page' \in Grid /\ GoodPage(page', Hits(page'.wanted), OneOrder(page'.wanted)))
      /\ DOMAIN fetch' = DOMAIN NoFetch
      /\ fetch' = NoFetch \/ (fetch'.at \in {"sent", "answered"} /\ page' # NoSearch)
      /\ fetch'.at = "sent" => fetch'.offset \in 0 .. Len(page'.shown)
      /\ fetch'.at = "answered" =>
            GoodAnswer(page', fetch'.result, Hits(page'.wanted), OneOrder(page'.wanted))
  <2>1. page' = page /\ fetch' = fetch
    OBVIOUS
  <2>2. QED
    BY <2>1, SearchHas
<1>2. QED
  BY <1>1, PageStep

\* The loader opens what the URL asks for, and the URL asks for what is wanted.
LEMMA OpenKept ==
    ASSUME SearchInv, NEW url, NEW wanted \in Filters, ReadFilters(url) = wanted, Open(url, wanted)
    PROVE  SearchInv'
<1>1. /\ IF page # NoSearch /\ wanted = page.filters THEN UNCHANGED <<page, fetch>>
         ELSE /\ page' = IF SearchPage(wanted, 0).rows = <<>> THEN NoSearch ELSE Loaded(wanted, wanted)
              /\ fetch' = NoFetch
      /\ UNCHANGED <<library, locale, saved, changes>>
  BY DEF Open
<1>2. saved' \in Filters \cup {NoSearch}
  BY <1>1, SearchHas
<1>3. CASE UNCHANGED <<page, fetch>>
  BY <1>1, <1>2, <1>3, NothingMoves
<1>4. CASE page' = NoSearch /\ fetch' = NoFetch
  BY <1>1, <1>2, <1>4, SearchHas, PageStep
<1>5. CASE page' = Loaded(wanted, wanted) /\ fetch' = NoFetch
  <2>1. page' \in Grid /\ GoodPage(page', Hits(wanted), OneOrder(wanted)) /\ page'.wanted = wanted
    BY <1>5, SearchHas, LoadedIsGood
  <2>2. QED
    BY <1>1, <1>2, <1>5, <2>1, SearchHas, PageStep
<1>6. QED
  BY <1>1, <1>3, <1>4, <1>5

\* A request asks for what follows some of what is shown.
LEMMA LoadMoreKept == ASSUME SearchInv, NEW again \in BOOLEAN, LoadMore(again) PROVE SearchInv'
<1>1. /\ page # NoSearch /\ page' = [page EXCEPT !.error = FALSE]
      /\ fetch' = [NoFetch EXCEPT !.at = "sent", !.offset = page.length] /\ UNCHANGED <<library, locale, saved>>
  BY DEF LoadMore
<1>2. page \in Grid /\ GoodPage(page, Hits(page.wanted), OneOrder(page.wanted)) /\ saved' \in Filters \cup {NoSearch}
  BY <1>1, SearchHas
<1>3. /\ page' \in Grid /\ page'.filters = page.filters /\ page'.shown = page.shown /\ page'.hasMore = page.hasMore
      /\ page'.wanted = page.wanted /\ page'.owed = page.owed /\ page'.shrunk = page.shrunk /\ page'.length = page.length
  BY <1>1, <1>2 DEF Grid
<1>4. page.length \in Nat /\ page.length <= Len(page.shown) /\ Len(page.shown) \in Nat
  BY <1>2 DEF Grid, GoodPage
<1>5. fetch'.at = "sent" /\ fetch'.offset = page.length /\ DOMAIN fetch' = DOMAIN NoFetch
  BY <1>1 DEF NoFetch
<1>6. fetch'.offset \in 0 .. Len(page'.shown)
  BY <1>3, <1>4, <1>5
<1>7. GoodPage(page', Hits(page'.wanted), OneOrder(page'.wanted))
  BY <1>2, <1>3, <1>4, PageKept
<1>8. page' # NoSearch
  BY <1>3, SearchHas
<1>9. QED
  BY <1>1, <1>2, <1>3, <1>5, <1>6, <1>7, <1>8, PageStep

\* The store answers with the page the offset asks for.
LEMMA AnswerKept == ASSUME SearchInv, AnswerMore PROVE SearchInv'
<1>1. /\ fetch.at = "sent" /\ fetch' = [fetch EXCEPT !.at = "answered", !.result = SearchPage(page.filters, fetch.offset)]
      /\ UNCHANGED <<library, locale, saved, page>>
  BY DEF AnswerMore
<1>2. /\ page \in Grid /\ page # NoSearch /\ GoodPage(page, Hits(page.wanted), OneOrder(page.wanted))
      /\ saved' \in Filters \cup {NoSearch} /\ fetch.offset \in 0 .. Len(page.shown) /\ locale \in LocaleOrders
  BY <1>1, SearchHas
<1>3. page.filters = page.wanted /\ fetch.offset \in Nat
  BY <1>2 DEF GoodPage
<1>4. fetch'.at = "answered" /\ fetch'.result = SearchPage(page.filters, fetch.offset) /\ DOMAIN fetch' = DOMAIN NoFetch
  BY <1>1, SearchHas
<1>5. PICK f : f = page.wanted
  OBVIOUS
<1>6. PICK offset \in Nat : offset = fetch.offset
  BY <1>3
<1>7. PageIs(SearchPage(f, offset), offset, Hits(f), OrderKey(f), OneOrder(f)) /\ Orders(OrderKey(f), Hits(f))
      /\ Hits(f) \in SUBSET Dish
  BY <1>2, SearchPageIs, MatchesOrdered DEF Hits, TagFilter
<1>8. GoodAnswer(page, SearchPage(f, offset), Hits(f), OneOrder(f))
  BY <1>2, <1>5, <1>6, <1>7, AnswerIsGood
<1>9. GoodAnswer(page, fetch'.result, Hits(page.wanted), OneOrder(page.wanted))
  BY <1>3, <1>4, <1>5, <1>6, <1>8
<1>10. page' = page
  BY <1>1
<1>11. QED
  BY <1>1, <1>2, <1>4, <1>9, <1>10, PageStep

\* An answer is added to the page it was asked for.
LEMMA ArriveKept == ASSUME SearchInv, Arrive PROVE SearchInv'
<1>1. fetch.at = "answered" /\ Extend(fetch.result) /\ fetch' = NoFetch /\ UNCHANGED <<library, locale, saved>>
  BY DEF Arrive
<1>2. /\ page \in Grid /\ GoodPage(page, Hits(page.wanted), OneOrder(page.wanted)) /\ saved' \in Filters \cup {NoSearch}
      /\ GoodAnswer(page, fetch.result, Hits(page.wanted), OneOrder(page.wanted))
  BY <1>1, SearchHas
<1>3. PICK f : f = page.wanted
  OBVIOUS
<1>4. PICK hits, one, result : hits = Hits(f) /\ one = OneOrder(f) /\ result = fetch.result
  OBVIOUS
<1>5. GoodPage(page, hits, one) /\ GoodAnswer(page, result, hits, one) /\ Extend(result)
  BY <1>1, <1>2, <1>3, <1>4
<1>6. page' \in Grid /\ GoodPage(page', hits, one) /\ page'.wanted = page.wanted
  BY <1>2, <1>5, ArrivalIsGood
<1>7. GoodPage(page', Hits(page'.wanted), OneOrder(page'.wanted))
  BY <1>3, <1>4, <1>6
<1>8. QED
  BY <1>1, <1>2, <1>6, <1>7, SearchHas, PageStep

\* A request that fails leaves what is shown.
LEMMA FailureKept == ASSUME SearchInv, MoreFails PROVE SearchInv'
<1>1. /\ fetch # NoFetch /\ page' = [page EXCEPT !.error = TRUE] /\ fetch' = NoFetch /\ UNCHANGED <<library, locale, saved>>
  BY DEF MoreFails
<1>2. page \in Grid /\ GoodPage(page, Hits(page.wanted), OneOrder(page.wanted)) /\ saved' \in Filters \cup {NoSearch}
  BY <1>1, SearchHas
<1>3. /\ page' \in Grid /\ page'.filters = page.filters /\ page'.shown = page.shown /\ page'.hasMore = page.hasMore
      /\ page'.wanted = page.wanted /\ page'.owed = page.owed /\ page'.shrunk = page.shrunk /\ page'.length = page.length
  BY <1>1, <1>2 DEF Grid
<1>4. page.length <= Len(page.shown)
  BY <1>2 DEF GoodPage
<1>5. GoodPage(page', Hits(page'.wanted), OneOrder(page'.wanted))
  BY <1>2, <1>3, <1>4, PageKept
<1>6. QED
  BY <1>1, <1>2, <1>3, <1>5, SearchHas, PageStep

\* A render sees what is shown, and leaves it.
LEMMA RenderKept == ASSUME SearchInv, Render PROVE SearchInv'
<1>1. /\ page # NoSearch /\ page' = [page EXCEPT !.length = Len(page.shown), !.more = page.hasMore]
      /\ UNCHANGED <<library, locale, saved, fetch>>
  BY DEF Render, Rendered
<1>2. page \in Grid /\ GoodPage(page, Hits(page.wanted), OneOrder(page.wanted)) /\ saved' \in Filters \cup {NoSearch}
  BY <1>1, SearchHas
<1>3. /\ page' \in Grid /\ page'.filters = page.filters /\ page'.shown = page.shown /\ page'.hasMore = page.hasMore
      /\ page'.wanted = page.wanted /\ page'.owed = page.owed /\ page'.shrunk = page.shrunk
      /\ page'.length = Len(page.shown) /\ Len(page.shown) \in Nat
  <2>1. page.hasMore \in BOOLEAN /\ Len(page.shown) \in Nat
    BY <1>2 DEF Grid
  <2> DEFINE n == Len(page.shown)
             m == page.hasMore
  <2>2. page' = [page EXCEPT !.length = n, !.more = m] /\ n \in Nat /\ m \in BOOLEAN
    BY <1>1, <2>1
  <2> HIDE DEF n, m
  <2>3. /\ page' \in Grid /\ page'.filters = page.filters /\ page'.shown = page.shown /\ page'.hasMore = page.hasMore
        /\ page'.wanted = page.wanted /\ page'.owed = page.owed /\ page'.shrunk = page.shrunk /\ page'.length = n
    BY <1>2, <2>2 DEF Grid
  <2>4. QED
    BY <2>2, <2>3 DEF n
<1>4. page'.length <= Len(page.shown)
  BY <1>3
<1>5. /\ GoodPage(page', Hits(page'.wanted), OneOrder(page'.wanted))
      /\ \A result : GoodAnswer(page, result, Hits(page.wanted), OneOrder(page.wanted)) =>
                      GoodAnswer(page', result, Hits(page'.wanted), OneOrder(page'.wanted))
  BY <1>2, <1>3, <1>4, PageKept
<1>6. /\ DOMAIN fetch' = DOMAIN NoFetch
      /\ fetch' = NoFetch \/ (fetch'.at \in {"sent", "answered"} /\ page' # NoSearch)
      /\ fetch'.at = "sent" => fetch'.offset \in 0 .. Len(page'.shown)
      /\ fetch'.at = "answered" =>
            GoodAnswer(page', fetch'.result, Hits(page'.wanted), OneOrder(page'.wanted))
  BY <1>1, <1>3, <1>5, SearchHas
<1>7. UNCHANGED <<library, locale>>
  BY <1>1
<1>8. page' \in Grid /\ GoodPage(page', Hits(page'.wanted), OneOrder(page'.wanted))
  BY <1>3, <1>5
<1>9. QED
  BY <1>2, <1>6, <1>7, <1>8, PageStep

\* More or fewer recipes match, and the page knows what it still owes.
LEMMA VisibilityKept ==
    ASSUME SearchInv, NEW d \in Dish, NEW v \in {"catalog", "user_private", "household"}, ChangeVisibility(d, v)
    PROVE  SearchInv'
<1>1. /\ IF DishTable[d].owner = "dataset" THEN v = "catalog" ELSE v # "catalog"
      /\ library' = [library EXCEPT ![d] = v] /\ UNCHANGED <<locale, saved, fetch>>
      /\ IF page = NoSearch THEN UNCHANGED page
         ELSE \E wanted \in {page.wanted} :
                 page' = [page EXCEPT !.owed = @ \cap Hits(wanted)',
                                      !.shrunk = @ \/ ~(Hits(wanted) \subseteq Hits(wanted)')]
  BY DEF ChangeVisibility
<1>2. library \in [Dish -> {"none", "catalog", "user_private", "household"}] /\ Parted
  BY DEF SearchInv
<1>3. library' \in [Dish -> {"none", "catalog", "user_private", "household"}]
  BY <1>1, <1>2
<1>4. Parted'
  BY <1>1, <1>2 DEF Parted
<1>5. UNCHANGED <<locale, saved, fetch>> /\ NoFetch' = NoFetch
  BY <1>1 DEF NoFetch
<1>6. CASE page = NoSearch
  <2>1. page' = NoSearch
    BY <1>1, <1>6
  <2>2. fetch = NoFetch /\ fetch.at = "none"
    BY <1>6, SearchHas
  <2>3. QED
    BY <1>3, <1>4, <1>5, <2>1, <2>2 DEF SearchInv
<1>7. CASE page # NoSearch
  <2>1. PICK f : f = page.wanted
    OBVIOUS
  <2>2. PICK hits, later, one : hits = Hits(f) /\ later = Hits(f)' /\ one = OneOrder(f)
    OBVIOUS
  <2>3. page \in Grid /\ GoodPage(page, hits, one) /\ \A fetching \in Grid : fetching # NoSearch
    BY <1>7, <2>1, <2>2, SearchHas
  <2>4. page' = [page EXCEPT !.owed = page.owed \cap later, !.shrunk = page.shrunk \/ ~(hits \subseteq later)]
    BY <1>1, <1>7, <2>1, <2>2
  <2>5. later \in SUBSET Dish
    BY <2>2 DEF Hits, TagFilter
  <2>6. /\ page' \in Grid /\ page'.filters = page.filters /\ page'.shown = page.shown /\ page'.hasMore = page.hasMore
        /\ page'.wanted = page.wanted /\ page'.owed = page.owed \cap later /\ page'.length = page.length
        /\ ~page'.shrunk => ~page.shrunk /\ hits \subseteq later
    <3> DEFINE less == page.owed \cap later
               gone == page.shrunk \/ ~(hits \subseteq later)
    <3>1. page' = [page EXCEPT !.owed = less, !.shrunk = gone]
      BY <2>4
    <3>2. less \in SUBSET Dish /\ gone \in BOOLEAN
      BY <2>3, <2>5 DEF Grid
    <3>3. ~gone => ~page.shrunk /\ hits \subseteq later
      OBVIOUS
    <3> HIDE DEF less, gone
    <3>4. /\ page' \in Grid /\ page'.filters = page.filters /\ page'.shown = page.shown
          /\ page'.hasMore = page.hasMore /\ page'.wanted = page.wanted /\ page'.owed = less
          /\ page'.length = page.length
      BY <2>3, <3>1, <3>2 DEF Grid
    <3>5. page'.shrunk = gone
      BY <2>3, <3>1 DEF Grid
    <3>6. ~page'.shrunk => ~page.shrunk /\ hits \subseteq later
      BY <3>3, <3>5
    <3>7. QED
      BY <3>4, <3>6 DEF less
  <2>7. /\ page'.filters = page'.wanted /\ IsInjective(page'.shown) /\ page'.length <= Len(page'.shown)
        /\ Covers(page, Range(page.shown), page.hasMore, hits, one)
    BY <2>3, <2>6 DEF GoodPage
  <2>8. \A there, hasMore : Covers(page, there, hasMore, hits, one) => Covers(page', there, hasMore, later, one)
    BY <2>6, OwedIsCovered
  <2>9. GoodPage(page', later, one) /\ \A result : GoodAnswer(page, result, hits, one) => GoodAnswer(page', result, later, one)
    BY <2>6, <2>7, <2>8 DEF GoodPage, GoodAnswer
  <2>10. Hits(page.wanted)' = later /\ OneOrder(page.wanted)' = one
    <3>1. page'.wanted = f
      BY <2>1, <2>6
    <3>2. Hits(page.wanted)' = Hits(f)'
      BY <3>1
    <3>3. OneOrder(page.wanted)' = OneOrder(f)
      BY <1>5, <3>1 DEF OneOrder
    <3>4. QED
      BY <2>2, <3>2, <3>3
  <2>11. /\ page' # NoSearch => GoodPage(page', Hits(page.wanted)', OneOrder(page.wanted)')
         /\ page' \in Grid \cup {NoSearch} /\ page' # NoSearch
    BY <2>3, <2>6, <2>9, <2>10
  <2>12. /\ DOMAIN fetch = DOMAIN NoFetch
         /\ fetch = NoFetch \/ fetch.at \in {"sent", "answered"}
         /\ fetch.at = "sent" => fetch.offset \in 0 .. Len(page'.shown)
         /\ fetch.at = "answered" => GoodAnswer(page, fetch.result, hits, one)
    BY <2>1, <2>2, <2>6, SearchHas
  <2>13. fetch.at = "answered" => GoodAnswer(page', fetch.result, Hits(page.wanted)', OneOrder(page.wanted)')
    BY <2>9, <2>10, <2>12
  <2>14. locale \in LocaleOrders /\ saved \in Filters \cup {NoSearch}
    BY SearchHas
  <2>15. QED
    BY <1>3, <1>4, <1>5, <2>11, <2>12, <2>13, <2>14 DEF SearchInv
<1>8. QED
  BY <1>6, <1>7

\* Every step leaves a page that leaves nothing out, and a request that will not.
LEMMA SearchKept == SearchInv /\ [WebSearchNext]_searchVars => SearchInv'
<1> SUFFICES ASSUME SearchInv, [WebSearchNext]_searchVars PROVE SearchInv'
  OBVIOUS
<1>1. ASSUME NEW wish \in Wish, SearchFor(wish) PROVE SearchInv'
  <2>1. NormalizeRecipeSearch(wish) \in Filters
    BY DEF Filters
  <2>2. QED
    BY <1>1, <2>1, RoundTrip, OpenKept DEF SearchFor
<1>2. ASSUME NEW wish \in Wish, CreateSavedSearch(wish) PROVE SearchInv'
  <2>1. NormalizeRecipeSearch(wish) \in Filters /\ saved' = NormalizeRecipeSearch(wish)
    BY <1>2 DEF CreateSavedSearch, Filters
  <2>2. QED
    BY <1>2, <2>1, NothingMoves DEF CreateSavedSearch
<1>3. CASE DeleteSavedSearch
  BY <1>3, NothingMoves DEF DeleteSavedSearch
<1>4. CASE OpenSaved
  <2>1. saved \in Filters /\ Open(RecipeSearchParams(saved), saved)
    BY <1>4, SearchHas DEF OpenSaved
  <2>2. PICK f \in Filters : f = saved
    BY <2>1
  <2>3. PICK wish \in Wish : f = NormalizeRecipeSearch(wish)
    BY DEF Filters
  <2>4. ReadFilters(RecipeSearchParams(f)) = f
    BY <2>3, RoundTrip
  <2>5. Open(RecipeSearchParams(f), f)
    BY <2>1, <2>2
  <2>6. QED
    BY <2>4, <2>5, OpenKept
<1>5. CASE Unavailable
  <2>1. page' = NoSearch /\ fetch' = NoFetch /\ UNCHANGED <<library, locale, saved>>
    BY <1>5 DEF Unavailable
  <2>2. QED
    BY <2>1, SearchHas, PageStep
<1>6. ASSUME NEW again \in BOOLEAN, LoadMore(again) PROVE SearchInv'
  BY <1>6, LoadMoreKept
<1>7. CASE AnswerMore
  BY <1>7, AnswerKept
<1>8. CASE Arrive
  BY <1>8, ArriveKept
<1>9. CASE MoreFails
  BY <1>9, FailureKept
<1>10. CASE Render
  BY <1>10, RenderKept
<1>11. ASSUME NEW d \in Dish, NEW v \in {"catalog", "user_private", "household"}, ChangeVisibility(d, v) PROVE SearchInv'
  BY <1>11, VisibilityKept
<1>12. CASE UNCHANGED searchVars
  BY <1>12, SearchHas, NothingMoves DEF searchVars
<1>13. QED
  BY <1>1, <1>2, <1>3, <1>4, <1>5, <1>6, <1>7, <1>8, <1>9, <1>10, <1>11, <1>12
     DEF WebSearchNext, RecipesAction, SavedSearchesPost, SaveRecipeSearch, SavedSearchDelete, DeleteSearchTool

\* Whatever was published meanwhile, however requests failed, were repeated or
\* came before the render: a grid that says that it has all recipes shows, once
\* each, every match that has been there since it was loaded, and the counts
\* next to it are those of the search (recipes.tsx, recipes.ts).
THEOREM SearchIsCompleteHolds == WebSearchSpec => []SearchIsComplete
<1>1. SearchInv => SearchIsComplete
  <2> SUFFICES ASSUME SearchInv, page # NoSearch PROVE SearchIsComplete
    BY DEF SearchIsComplete
  <2> DEFINE first == SearchPage(page.filters, 0).total
             f == [page.filters EXCEPT !.tags = {}, !.tagMatch = "all"]
  <2>1. /\ page \in Grid /\ GoodPage(page, Hits(page.wanted), OneOrder(page.wanted)) /\ locale \in LocaleOrders /\ Parted
    BY SearchHas DEF SearchInv
  <2>2. IsInjective(page.shown) /\ Covers(page, Range(page.shown), page.hasMore, Hits(page.wanted), OneOrder(page.wanted))
    BY <2>1 DEF GoodPage
  <2>3. ~page.hasMore /\ ~page.shrunk /\ OneOrder(page.wanted) => page.owed \subseteq Range(page.shown)
    BY <2>2 DEF Covers
  <2>4. first.relation = "exact" => first.value = Cardinality(Hits(page.filters))
    <3>1. PICK g : g = page.filters
      OBVIOUS
    <3>2. PageIs(SearchPage(g, 0), 0, Hits(g), OrderKey(g), OneOrder(g))
      BY <2>1, SearchPageIs
    <3>3. SearchPage(g, 0).total.relation = "exact" => SearchPage(g, 0).total.value = Cardinality(Hits(g))
      BY <3>2 DEF PageIs
    <3>4. QED
      BY <3>1, <3>3
  <2>5. ASSUME NEW tag PROVE Facets(f, tag) = Cardinality(Hits([f EXCEPT !.tags = {tag}]))
    <3>1. PICK wish \in Wish : page.filters = NormalizeRecipeSearch(wish)
      BY <2>1 DEF Grid, Filters
    <3>2. PICK a, g : a = f /\ g = [f EXCEPT !.tags = {tag}]
      OBVIOUS
    <3>3. /\ a.scope \in {"catalog", "mine", "household", "all"} /\ a.tags = {}
          /\ g.text = a.text /\ g.scope = a.scope /\ g.tags = {tag} /\ g.tagMatch = "all"
      BY <3>1, <3>2 DEF NormalizeRecipeSearch, NormalizeRecipeScope
    <3>4. Facets(a, tag) = Cardinality(Hits(g))
      BY <2>1, <3>3, FacetsCount
    <3>5. QED
      BY <3>2, <3>4
  <2> HIDE DEF first, f
  <2>6. QED
    BY <2>2, <2>3, <2>4, <2>5 DEF SearchIsComplete, first, f
<1>2. QED
  BY <1>1, SearchInitially, SearchKept, PTL DEF WebSearchSpec
===============================================================================
