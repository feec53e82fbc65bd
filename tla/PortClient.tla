------------------------------ MODULE PortClient ------------------------------
(* The single-page client of the port: perform and cachedRequest in api.ts, and *)
(* the pages that read from the backend and change what is there.  An execution *)
(* follows one resource: who reads it through the cache or directly, and the    *)
(* handlers that change it.  The other requests of a page are only a delay, or  *)
(* a failure, before it takes its answers (Promise.all).                        *)
(*                                                                              *)
(* A resource is the set of the changes made to it.  Those of other clients are *)
(* left out: nothing here makes them known, but for the 30 seconds after which  *)
(* an entry of the cache is not used any more.                                  *)
EXTENDS Integers, FiniteSets

CONSTANTS
    Followed,    \* the resources that are followed
    Change,      \* clicks: changes this client asks for
    ReadId,      \* bound: reads in flight or held by a page
    NoRead,      \* no entry in the cache, no answer yet
    VisitBound   \* bound: pages the user opens

ASSUME PortClientAssumption ==
    /\ VisitBound \in Nat /\ NoRead \notin ReadId
    /\ \A changes \in SUBSET Change : NoRead # changes

VARIABLES
    resource,  \* the resource that is followed
    changed,   \* its changes, at the backend
    acked,     \* the changes whose handlers have had their answer
    queryCache,\* the read whose promise is kept
    reads,     \* the reads of the resource
    open,      \* the page that is open
    clicks,    \* for each change where its handler is
    token,     \* csrf: none, or one the backend takes or refuses
    mount      \* pages opened so far

clientVars == <<resource, changed, acked, queryCache, reads, open, clicks, token, mount>>
pageVars == <<queryCache, reads, open, mount>>

-------------------------------------------------------------------------------
(* The pages: what they read, through the cache or directly, and what becomes  *)
(* of what they show when a handler has had its answer: it is the answer, the  *)
(* handler changes it locally, reads it again, reloads all, or leaves the page. *)

Read(of, how) == [of |-> of, how |-> how]
Handler(of, after) == [of |-> of, after |-> after, to |-> "same"]
Leaving(of, to) == [of |-> of, after |-> "leave", to |-> to]

PlanReads == {Read("plan", "direct"), Read("preferences", "cached"), Read("list", "cached")}
\* add, clone, removeItem and updateServings; buildShopping.
PlanHandlers == {Handler("plan", "answer"), Leaving("list", "shopping")}

SettingsReads == {Read(r, "cached") : r \in {"preferences", "household", "keys"}}
                 \cup {Read("invitations", "direct")}
\* switchHousehold; invite, revokeInvitation; measurement, appearance, saveSlots;
\* createKey and revokeKey.
SettingsHandlers ==
    {Handler("household", "reload"), Handler("invitations", "again"), Handler("invitations", "local"),
     Handler("preferences", "answer"), Handler("keys", "again")}

RecipesReads == {Read("searches", "cached")}
\* saveSearch, deleteSaved.
RecipesHandlers == {Handler("searches", "again"), Handler("searches", "local")}

RecipeReads == {Read(r, "direct") : r \in {"recipe", "favourites", "plan"}} \cup {Read("preferences", "cached")}
\* toggleFavorite, toggleVisibility; updatePlannedServings, addToSelectedPlan.
RecipeHandlers == {Handler("favourites", "local"), Handler("recipe", "local"),
                   Handler("plan", "answer"), Leaving("plan", "plan")}

EditReads == {Read("recipe", "direct")}
EditHandlers == {Leaving("recipe", "recipe")}

FavouritesReads == {Read("favourites", "cached")}

\* The overview holds the list, the preferences and the shares.
ShoppingReads == {Read(r, "direct") : r \in {"list", "preferences", "shares"}}
\* generate, refresh; createShare, revoke.
ShoppingHandlers == {Handler("list", "reload"), Handler("list", "answer"),
                     Handler("shares", "again"), Handler("shares", "local")}

\* accept: the membership and the session's household are changed first.
JoinHandlers == {Leaving("household", "recipes")}

Pages ==
    [plan       |-> [reads |-> PlanReads,       handlers |-> PlanHandlers],
     settings   |-> [reads |-> SettingsReads,   handlers |-> SettingsHandlers],
     recipes    |-> [reads |-> RecipesReads,    handlers |-> RecipesHandlers],
     recipe     |-> [reads |-> RecipeReads,     handlers |-> RecipeHandlers],
     edit       |-> [reads |-> EditReads,       handlers |-> EditHandlers],
     favourites |-> [reads |-> FavouritesReads, handlers |-> {}],
     shopping   |-> [reads |-> ShoppingReads,   handlers |-> ShoppingHandlers],
     join       |-> [reads |-> {},              handlers |-> JoinHandlers]]

Page == DOMAIN Pages
ReadsOf(p) == {r \in Pages[p].reads : r.of = resource}
HandlersOf(p) == {h \in Pages[p].handlers : h.of = resource}

\* waits holds the reads a page waits for, each with the changes that were
\* acknowledged when it asked; floor holds those of what it shows.
NewPage(p) == [at |-> p, waits |-> {}, shown |-> NoRead, floor |-> {}]
NoReadYet == [at |-> "none", value |-> {}]
NoClick == [at |-> "none", handler |-> Handler("none", "none"), mount |-> 0, retry |-> TRUE,
            answer |-> {}, floor |-> {}]

ClientInit ==
    /\ resource \in Followed
    /\ changed = {} /\ acked = {} /\ queryCache = NoRead
    /\ reads = [i \in ReadId |-> NoReadYet]
    /\ open = NewPage("join")
    /\ clicks = [c \in Change |-> NoClick]
    /\ token = "none"
    /\ mount = 0

-------------------------------------------------------------------------------
(* request and cachedRequest                                                   *)

\* A read that no page and no entry waits for is of no interest any more.
Free(i) == i # queryCache /\ \A w \in open.waits : w.read # i

\* The page p asks, with kept in the cache: it takes the promise that is there,
\* or waits for a new read, which is kept if it goes through the cache.
AskFor(p, how, kept) ==
    LET Waiting(i) == [p EXCEPT !.waits = @ \cup {[read |-> i, due |-> acked']}]
    IN  IF how = "cached" /\ kept # NoRead
        THEN open' = Waiting(kept) /\ queryCache' = kept /\ UNCHANGED reads
        ELSE \E i \in ReadId :
                /\ Free(i)
                /\ reads' = [reads EXCEPT ![i] = [at |-> "sent", value |-> {}]]
                /\ open' = Waiting(i)
                /\ queryCache' = IF how = "cached" THEN i ELSE kept

\* The load of a page, when it is opened or again.
Load(p, kept) ==
    IF ReadsOf(p.at) = {} THEN open' = p /\ queryCache' = kept /\ UNCHANGED reads
    ELSE \E r \in ReadsOf(p.at) : AskFor(p, r.how, kept)

OpenPage(p) ==
    /\ mount < VisitBound /\ mount' = mount + 1
    /\ UNCHANGED <<resource, changed, acked, clicks, token>>
    /\ Load(NewPage(p), queryCache)

ServeRead(i) ==
    /\ reads[i].at = "sent"
    /\ reads' = [reads EXCEPT ![i] = [at |-> "served", value |-> changed]]
    /\ UNCHANGED <<resource, changed, acked, queryCache, open, clicks, token, mount>>

\* The answer is there, and so are those to the page's other requests.
TakeAnswer(w) ==
    /\ reads[w.read].at = "served"
    /\ open' = [open EXCEPT !.waits = @ \ {w}, !.shown = reads[w.read].value, !.floor = w.due]
    /\ UNCHANGED <<resource, changed, acked, queryCache, reads, clicks, token, mount>>

\* A read that fails takes the entry of its path along, whichever that is; a
\* page that waits for it shows an error, and what it showed before.
ReadFails(i) ==
    /\ reads[i].at = "sent"
    /\ reads' = [reads EXCEPT ![i] = NoReadYet]
    /\ queryCache' \in {queryCache, NoRead} /\ (queryCache = i => queryCache' = NoRead)
    /\ open' = [open EXCEPT !.waits = {w \in @ : w.read # i}]
    /\ UNCHANGED <<resource, changed, acked, clicks, token, mount>>

\* One of the page's other requests fails.
LoadFails(w) ==
    /\ open' = [open EXCEPT !.waits = @ \ {w}]
    /\ UNCHANGED <<resource, changed, acked, queryCache, reads, clicks, token, mount>>

\* An entry is used for its time to live.
ExpireEntry ==
    /\ queryCache # NoRead /\ queryCache' = NoRead
    /\ UNCHANGED <<resource, changed, acked, reads, open, clicks, token, mount>>

-------------------------------------------------------------------------------
(* perform, for a change                                                       *)

Goes(c, at) == clicks' = [clicks EXCEPT ![c].at = at]
Ends(c) == clicks' = [clicks EXCEPT ![c] = [NoClick EXCEPT !.at = "over"]]

Click(c, h) ==
    /\ clicks[c].at = "none" /\ c \notin changed
    /\ h \in HandlersOf(open.at)
    /\ h.after \in {"local", "answer"} => open.shown # NoRead
    /\ clicks' = [clicks EXCEPT ![c] = [NoClick EXCEPT !.at = IF token = "none" THEN "token" ELSE "sent",
                                                       !.handler = h, !.mount = mount, !.floor = acked]]
    /\ UNCHANGED <<resource, changed, acked, token, pageVars>>

FetchToken(c) ==
    /\ clicks[c].at = "token"
    /\ token' = "good" /\ Goes(c, "sent")
    /\ UNCHANGED <<resource, changed, acked, pageVars>>

\* The session at the backend is renewed, and its token with it.
TokenEnds ==
    /\ token = "good" /\ token' = "refused"
    /\ UNCHANGED <<resource, changed, acked, clicks, pageVars>>

\* A token that is refused is dropped, and the request made again, but once.
RefuseToken(c) ==
    /\ clicks[c].at = "sent" /\ token = "refused"
    /\ IF clicks[c].retry
       THEN token' = "none" /\ clicks' = [clicks EXCEPT ![c].at = "token", ![c].retry = FALSE]
       ELSE Ends(c) /\ UNCHANGED token
    /\ UNCHANGED <<resource, changed, acked, pageVars>>

Apply(c) ==
    /\ clicks[c].at = "sent" /\ token # "refused"
    /\ changed' = changed \cup {c}
    /\ clicks' = [clicks EXCEPT ![c].at = "made", ![c].answer = changed']
    /\ UNCHANGED <<resource, acked, token, pageVars>>

\* Mutant: the cache is cleared before the request is sent.
KeepEntry == queryCache
\* invalidateQueryCache, when the answer has come.
Invalidated == NoRead

\* The handler goes on.  If its page has been left, nothing comes of it but
\* that it navigates; what it reads again is then left out.
Acknowledge(c) ==
    LET h == clicks[c].handler
        After(after) == IF clicks[c].mount = mount \/ after = "leave" THEN h.after = after ELSE FALSE
    IN  /\ clicks[c].at = "made"
        /\ Ends(c)
        /\ acked' = acked \cup {c}
        /\ mount' = IF h.after = "leave" THEN mount + 1 ELSE mount
        /\ UNCHANGED <<resource, changed, token>>
        /\ CASE After("answer") ->
                  /\ open' = [open EXCEPT !.shown = clicks[c].answer, !.floor = clicks[c].floor \cup {c}]
                  /\ queryCache' = Invalidated /\ UNCHANGED reads
             [] After("local") ->
                  /\ open' = [open EXCEPT !.shown = @ \cup {c}, !.floor = @ \cup {c}]
                  /\ queryCache' = Invalidated /\ UNCHANGED reads
             [] After("again") -> AskFor(open, "direct", Invalidated)
             [] After("reload") -> Load(open, Invalidated)
             [] After("leave") -> Load(NewPage(h.to), Invalidated)
             [] OTHER -> queryCache' = Invalidated /\ UNCHANGED <<open, reads>>

\* The request is lost, or the answer to it; the cache stays as it is.
ChangeLost(c) ==
    /\ clicks[c].at \in {"token", "sent", "made"}
    /\ Ends(c)
    /\ UNCHANGED <<resource, changed, acked, token, pageVars>>

ClientNext ==
    \/ \E p \in Page : OpenPage(p)
    \/ \E i \in ReadId : ServeRead(i) \/ ReadFails(i)
    \/ \E w \in open.waits : TakeAnswer(w) \/ LoadFails(w)
    \/ ExpireEntry \/ TokenEnds
    \/ \E c \in Change : \/ \E h \in HandlersOf(open.at) : Click(c, h)
                         \/ FetchToken(c) \/ RefuseToken(c) \/ Apply(c) \/ Acknowledge(c) \/ ChangeLost(c)

ClientSpec == ClientInit /\ [][ClientNext]_clientVars

-------------------------------------------------------------------------------
(* A page shows every change of this client that had been acknowledged when it *)
(* asked for what it shows, with whatever it was told of itself: an answer     *)
(* from the cache is never older than the last change, however reads, changes, *)
(* refused tokens and failures overlap (api.ts, and the handlers of the pages).*)
ReadYourWrites == open.shown # NoRead => open.floor \subseteq open.shown
===============================================================================
