------------------------------ MODULE WebShares ------------------------------
(* Links to a shopping list for people without an account: the household       *)
(* creates and revokes them; a guest's browser exchanges the token of a link   *)
(* for a cookie, one for all links, with which it reads and ticks a list.  A   *)
(* request resolves the cookie and uses the list in another command, while the *)
(* household revokes the link or refreshes the list, and while the guest opens *)
(* another link in another tab.  One tab is followed: of the others it feels   *)
(* nothing but the cookie, and marks that might be a member's.                 *)
EXTENDS Naturals, FiniteSets

CONSTANTS
    Checklist,    \* shopping lists; one item of each is followed
    Share,        \* links
    NoShare,      \* no cookie
    ItemBound     \* bound: refreshes of a list

ASSUME WebSharesAssumption ==
    IsFiniteSet(Checklist) /\ Checklist # {} /\ NoShare \notin Share /\ ItemBound \in Nat

VARIABLES
    shares,     \* each link: its list and whether it is live
    checklist,  \* the id and the mark of each list's item
    cookie,     \* whose token the browser's cookie holds
    visitor       \* one tab: the link in its address, its page, its request

shareVars == <<shares, checklist, cookie, visitor>>

NoPage == [list |-> CHOOSE l \in Checklist : TRUE, item |-> 0]
Closed == [pc |-> "closed", url |-> NoShare, page |-> NoPage, does |-> "read", sent |-> NoShare,
           list |-> NoPage.list, late |-> FALSE]

SharesInit ==
    /\ shares = [s \in Share |-> [status |-> "none", list |-> NoPage.list]]
    /\ checklist = [l \in Checklist |-> [item |-> 1, checked |-> FALSE]]
    /\ cookie = NoShare
    /\ visitor = Closed

-------------------------------------------------------------------------------
(* The household                                                               *)

CreateShare(s, l) ==
    /\ shares[s].status = "none"
    /\ shares' = [shares EXCEPT ![s] = [status |-> "live", list |-> l]]
    /\ UNCHANGED <<checklist, cookie, visitor>>

SharesPost(s, l)             == CreateShare(s, l)
SharePage(s, l)              == CreateShare(s, l)
CreateShoppingListLink(s, l) == CreateShare(s, l)

\* One that has expired can be revoked too.
RevokeShare(s) ==
    /\ shares[s].status \in {"live", "expired"}
    /\ shares' = [shares EXCEPT ![s].status = "revoked"]
    /\ UNCHANGED <<checklist, cookie, visitor>>

ShareDelete(s)            == RevokeShare(s)
SharePageRevoke(s)        == RevokeShare(s)
RevokeShoppingListLink(s) == RevokeShare(s)

\* The cookie has the expiry of the link, by the clock of the browser.
ExpireShare(s) ==
    /\ shares[s].status = "live"
    /\ shares' = [shares EXCEPT ![s].status = "expired"]
    /\ cookie' \in {cookie, IF cookie = s THEN NoShare ELSE cookie}
    /\ UNCHANGED <<checklist, visitor>>

\* A refresh keeps the mark, and gives the item another id.
RefreshItems(l) ==
    /\ checklist[l].item <= ItemBound
    /\ checklist' = [checklist EXCEPT ![l].item = @ + 1]
    /\ UNCHANGED <<shares, cookie, visitor>>

TickAsMember(l) ==
    /\ checklist' = [checklist EXCEPT ![l].checked = ~@]
    /\ UNCHANGED <<shares, cookie, visitor>>

-------------------------------------------------------------------------------
(* The guest                                                                     *)

TabAwaits(pc) == visitor' = [visitor EXCEPT !.pc = pc]
Close == visitor' = Closed
\* A request of the tab, for which the browser adds the cookie it has then.
Sent(does) == [visitor EXCEPT !.pc = "resolve", !.does = does, !.sent = cookie',
                    !.late = shares[visitor.url].status # "live"]

\* The address of a link has its token; the page behind it exchanges it.
FollowLink(s) ==
    /\ visitor.pc = "closed" /\ shares[s].status # "none"
    /\ visitor' = [Closed EXCEPT !.pc = "exchange", !.url = s]
    /\ UNCHANGED <<shares, checklist, cookie>>

Exchange ==
    /\ visitor.pc = "exchange"
    /\ IF shares[visitor.url].status = "live" THEN TabAwaits("exchanged") ELSE Close
    /\ UNCHANGED <<shares, checklist, cookie>>

\* The answer sets the cookie, and the page of the list is asked for.
TakeCookie ==
    /\ visitor.pc = "exchanged"
    /\ cookie' = visitor.url
    /\ visitor' = Sent("read")
    /\ UNCHANGED <<shares, checklist>>

\* Another tab has exchanged the token of a link, or ended the session.
OtherTab(s) ==
    /\ shares[s].status # "none" /\ cookie' \in {s, NoShare}
    /\ UNCHANGED <<shares, checklist, visitor>>

\* The page is loaded again, or the item is ticked or unticked.
AskAgain(does) ==
    /\ visitor.pc = "open"
    /\ UNCHANGED <<shares, checklist, cookie>>
    /\ visitor' = Sent(does)

Logout ==
    /\ visitor.pc = "open"
    /\ cookie' = NoShare /\ Close
    /\ UNCHANGED <<shares, checklist>>

\* Mutant: the link in the address is not compared with that of the cookie.
ResolvesAny(token, expected) == token # NoShare /\ shares[token].status = "live"
Resolves(token, expected) == token = expected /\ shares[token].status = "live"

ResolveShare ==
    /\ visitor.pc = "resolve"
    /\ IF Resolves(visitor.sent, visitor.url)
       THEN visitor' = [visitor EXCEPT !.pc = visitor.does, !.list = shares[visitor.sent].list, !.sent = NoShare]
       ELSE Close
    /\ UNCHANGED <<shares, checklist, cookie>>

\* getPublicList
ReadPublic ==
    /\ visitor.pc = "read"
    /\ visitor' = [Closed EXCEPT !.pc = "open", !.url = visitor.url,
                               !.page = [list |-> visitor.list, item |-> checklist[visitor.list].item]]
    /\ UNCHANGED <<shares, checklist, cookie>>

\* togglePublic: the item by its id; afterwards the page is read again.
TickPublic(checked) ==
    /\ visitor.pc = "tick"
    /\ UNCHANGED <<shares, cookie>>
    /\ IF visitor.page = [list |-> visitor.list, item |-> checklist[visitor.list].item]
       THEN checklist' = [checklist EXCEPT ![visitor.list].checked = checked] /\ visitor' = Sent("read")
       ELSE Close /\ UNCHANGED checklist

WebSharesNext ==
    \/ \E s \in Share :
        \/ \E l \in Checklist : SharesPost(s, l) \/ SharePage(s, l) \/ CreateShoppingListLink(s, l)
        \/ ShareDelete(s) \/ SharePageRevoke(s) \/ RevokeShoppingListLink(s) \/ ExpireShare(s)
    \/ \E l \in Checklist : RefreshItems(l) \/ TickAsMember(l)
    \/ \E s \in Share : FollowLink(s) \/ OtherTab(s)
    \/ Exchange \/ TakeCookie \/ ResolveShare \/ ReadPublic \/ Logout
    \/ \E does \in {"read", "tick"} : AskAgain(does)
    \/ \E checked \in BOOLEAN : TickPublic(checked)

WebSharesSpec == SharesInit /\ [][WebSharesNext]_shareVars

-------------------------------------------------------------------------------
(* A guest reads and ticks the list of the link in the address, through        *)
(* whichever link the browser's one cookie is by then, only if that link was   *)
(* live when the request was sent, and ticks an item only as the page shows it *)
(* (shares.ts: resolve; shopping.ts: getPublic, togglePublic; the public and   *)
(* shared routes).                                                             *)
GuestsStayInside ==
    [][LET own == shares[visitor.url].list
       IN  visitor.pc \in {"read", "tick"} /\ visitor' # visitor =>
              /\ ~visitor.late
              /\ visitor'.page \notin {visitor.page, NoPage} => visitor'.page.list = own
              /\ \A l \in Checklist : checklist'[l] # checklist[l] =>
                    l = own /\ visitor.page = [list |-> own, item |-> checklist[l].item]
      ]_shareVars
===============================================================================
