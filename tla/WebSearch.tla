------------------------------- MODULE WebSearch -------------------------------
(* Recipe search in the TypeScript application: the filters and the URL that    *)
(* carries them, the store's pages and tag counts, the searches a household     *)
(* saves, and the page whose grid fetches more as the reader scrolls, while     *)
(* others publish and share recipes.  Search by text belongs to Atlas Search:   *)
(* which recipes match and how they score is given (external).                  *)
EXTENDS Integers, Sequences, FiniteSets, Functions

CONSTANTS
    DishTable,     \* dishes in the order the database sorts names: owner, tags,
                   \* whether the text asked for is found in it, its place by
                   \* score, name and id, and the visibilities it may have at first
    LocaleOrders,  \* for each dish, its rank by localeCompare and then by id
    Wish,          \* what a reader may ask for, before it is normalised
    PageLimit,     \* recipes of a page
    ChangeBound,   \* bound: recipes published, shared or made private
    NoSearch       \* no search is saved; no page is open

ASSUME SearchBoundsAssumption == PageLimit \in 1 .. 100 /\ ChangeBound \in Nat

\* No two dishes are level, neither by score nor by localeCompare, since both
\* fall back on the id; what is in the catalog came with the dataset.
ASSUME WebSearchAssumption ==
    /\ DishTable \in Seq([owner : STRING, tags : SUBSET STRING, found : BOOLEAN, score : Int,
                          first : SUBSET {"none", "catalog", "user_private", "household"}])
    /\ \A a, b \in DOMAIN DishTable : DishTable[a].score = DishTable[b].score => a = b
    /\ \A d \in DOMAIN DishTable : "catalog" \in DishTable[d].first => DishTable[d].owner = "dataset"
    /\ \A order \in LocaleOrders : order \in [DOMAIN DishTable -> Int] /\ IsInjective(order)

VARIABLES
    library,   \* for each dish "none", "catalog", "user_private" or "household"
    locale,    \* the order of localeCompare, one of LocaleOrders
    saved,     \* the filters saved under the one name
    page,      \* the page that is open
    fetch,     \* the grid's request in flight: its offset, then the answer
    changes    \* so far, at most ChangeBound

searchVars == <<library, locale, saved, page, fetch, changes>>

Dish == DOMAIN DishTable

-------------------------------------------------------------------------------
(* The filters and their URL.                                                  *)

NormalizeRecipeTags(tags) == tags \ {""}
NormalizeTagMatch(value) == IF value = "any" THEN "any" ELSE "all"
NormalizeRecipeScope(value) == IF value \in {"catalog", "mine", "household"} THEN value ELSE "all"

\* text stands for the query and the ingredient, "" when both are.
NormalizeRecipeSearch(f) ==
    [text |-> f.text, tags |-> NormalizeRecipeTags(f.tags),
     tagMatch |-> NormalizeTagMatch(f.tagMatch), scope |-> NormalizeRecipeScope(f.scope)]

\* The parameters that are set: those that differ from what reading assumes.
RecipeSearchParams(input) ==
    LET f == NormalizeRecipeSearch(input)
    IN  [p \in {q \in DOMAIN f : CASE q = "text"     -> f.text # ""
                                   [] q = "tags"     -> f.tags # {}
                                   [] q = "tagMatch" -> Cardinality(f.tags) > 1 \/ f.tagMatch = "any"
                                   [] q = "scope"    -> f.scope # "all"}
         |-> f[p]]

ReadFilters(url) ==
    LET Get(p, missing) == IF p \in DOMAIN url THEN url[p] ELSE missing
    IN  NormalizeRecipeSearch([text |-> Get("text", ""), tags |-> Get("tags", {}),
                               tagMatch |-> Get("tagMatch", "none"), scope |-> Get("scope", "none")])

-------------------------------------------------------------------------------
(* The store, for a reader who is "me" in the household of "them".              *)

Active == {d \in Dish : library[d] # "none"}
Mine   == {d \in Active : DishTable[d].owner = "me"}
Custom == Mine \cup {d \in Active : library[d] = "household"}

AccessFilter(scope) ==
    CASE scope = "catalog"   -> {d \in Active : library[d] = "catalog"}
      [] scope = "mine"      -> Mine
      [] scope = "household" -> {d \in Active : library[d] = "household"}
      [] scope = "all"       -> {d \in Active : library[d] = "catalog"} \cup Custom

TagFilter(f) ==
    {d \in Dish : \/ f.tags = {}
                  \/ f.tagMatch = "all" /\ f.tags \subseteq DishTable[d].tags
                  \/ f.tagMatch = "any" /\ f.tags \cap DishTable[d].tags # {}}

TextMatch(f) == {d \in Dish : f.text # "" => DishTable[d].found}

Hits(f) == AccessFilter(f.scope) \cap TagFilter(f) \cap TextMatch(f)

\* S in order: what has i - 1 others before it comes at i.
Sorted(S, Before(_, _)) ==
    [i \in 1 .. Cardinality(S) |-> CHOOSE a \in S : Cardinality({b \in S : Before(b, a)}) = i - 1]

ByName(S)   == Sorted(S, LAMBDA a, b : a < b)
ByLocale(S) == Sorted(S, LAMBDA a, b : locale[a] < locale[b])
ByScore(S)  == Sorted(S, LAMBDA a, b : DishTable[a].score > DishTable[b].score)

FirstOf(rows, n) == SubSeq(rows, 1, IF n < Len(rows) THEN n ELSE Len(rows))
Window(rows, offset, n) == FirstOf(SubSeq(rows, offset + 1, Len(rows)), n)

\* One row more than the page tells whether there are others.
WindowResult(rows, offset) ==
    [rows    |-> FirstOf(rows, PageLimit),
     hasMore |-> Len(rows) > PageLimit,
     total   |-> CASE Len(rows) > PageLimit -> [relation |-> "lowerBound", value |-> offset + PageLimit + 1]
                   [] rows = <<>> /\ offset > 0 -> [relation |-> "unknown", value |-> 0]
                   [] OTHER -> [relation |-> "exact", value |-> offset + Len(rows)]]

\* Mutant: the two halves of the library are read for one page only.
FetchPage(offset) == PageLimit + 1
FetchLimit(offset) == offset + PageLimit + 1

\* Without text and in every scope, the catalog and the custom recipes are
\* fetched apart, both by name, and merged.
Merged(f, offset) ==
    LET Rows(S) == Range(FirstOf(ByName(S \cap TagFilter(f)), FetchLimit(offset)))
    IN  ByLocale(Rows({d \in Active : library[d] = "catalog"}) \cup Rows(Custom))

SearchPage(f, offset) ==
    WindowResult(Window(CASE f.text = "" /\ f.scope = "all" -> Merged(f, offset)
                          [] f.text = "" /\ f.scope # "all" -> ByName(Hits(f))
                          [] f.text # ""                    -> ByScore(Hits(f)),
                        offset, PageLimit + 1),
                 offset)

\* How many recipes have the tag: materialised for the catalog, and there
\* without regard to the tags that are selected; counted for the others.
TagCount(S, tag) == Cardinality({d \in S : tag \in DishTable[d].tags})

Facets(f, tag) ==
    LET catalog == TagCount({d \in Active : library[d] = "catalog"}, tag)
    IN  CASE f.text = "" /\ f.scope = "catalog" -> catalog
          [] f.text = "" /\ f.scope = "all"     -> catalog + TagCount(Custom, tag)
          [] f.text # "" \/ f.scope \in {"mine", "household"} -> TagCount(Hits(f), tag)

-------------------------------------------------------------------------------
(* The page.                                                                   *)

Filters == {NormalizeRecipeSearch(wish) : wish \in Wish}

Grid == [filters : Filters, shown : Seq(Dish), hasMore : BOOLEAN, error : BOOLEAN, length : Nat,
         more : BOOLEAN, wanted : Filters, owed : SUBSET Dish, shrunk : BOOLEAN]

ASSUME NoSearchAssumption == NoSearch \notin Grid

NoFetch == [at |-> "none", offset |-> 0, result |-> NoSearch]

\* A grid; length and more are what the loadMore of the last render has seen,
\* wanted and owed are kept for the property: what the reader asked for, and
\* the matches that have been there since the page was loaded.
Loaded(f, wanted) ==
    LET first == SearchPage(f, 0)
    IN  [filters |-> f, shown |-> first.rows, hasMore |-> first.hasMore, error |-> FALSE,
         length |-> Len(first.rows), more |-> first.hasMore,
         wanted |-> wanted, owed |-> Hits(wanted), shrunk |-> FALSE]

WebSearchInit ==
    /\ library \in [Dish -> {"none", "catalog", "user_private", "household"}]
    /\ \A d \in Dish : library[d] \in DishTable[d].first
    /\ locale \in LocaleOrders
    /\ saved = NoSearch /\ page = NoSearch /\ fetch = NoFetch
    /\ changes = 0

\* The loader; a grid with the same URL keeps its state, any other is left and
\* its request aborted.  Without a result there is no grid.
Open(url, wanted) ==
    LET f == ReadFilters(url)
    IN  /\ IF page # NoSearch /\ f = page.filters THEN UNCHANGED <<page, fetch>>
           ELSE /\ page' = IF SearchPage(f, 0).rows = <<>> THEN NoSearch ELSE Loaded(f, wanted)
                /\ fetch' = NoFetch
        /\ UNCHANGED <<library, locale, saved, changes>>

SearchFor(wish) == Open(RecipeSearchParams(wish), NormalizeRecipeSearch(wish))
OpenSaved == saved # NoSearch /\ Open(RecipeSearchParams(saved), saved)

\* The loader could not reach the store.
Unavailable ==
    /\ page # NoSearch
    /\ page' = NoSearch /\ fetch' = NoFetch
    /\ UNCHANGED <<library, locale, saved, changes>>

\* The sentinel is in view, or the reader tries again after an error.
LoadMore(again) ==
    /\ page # NoSearch /\ page.more /\ fetch = NoFetch
    /\ again = page.error
    /\ page' = [page EXCEPT !.error = FALSE]
    /\ fetch' = [NoFetch EXCEPT !.at = "sent", !.offset = page.length]
    /\ UNCHANGED <<library, locale, saved, changes>>

AnswerMore ==
    /\ fetch.at = "sent"
    /\ fetch' = [fetch EXCEPT !.at = "answered", !.result = SearchPage(page.filters, fetch.offset)]
    /\ UNCHANGED <<library, locale, saved, page, changes>>

\* Recipes that are there already are left out, the others follow in their order.
AppendNew(rows) ==
    LET new == Sorted({i \in DOMAIN rows : rows[i] \notin Range(page.shown)}, LAMBDA i, j : i < j)
    IN  page.shown \o [i \in DOMAIN new |-> rows[new[i]]]

\* The next render follows later, so that loadMore may run once more as it was.
Extend(result) ==
    page' = [page EXCEPT !.shown = AppendNew(result.rows), !.hasMore = result.hasMore, !.error = FALSE]

Arrive ==
    /\ fetch.at = "answered"
    /\ Extend(fetch.result)
    /\ fetch' = NoFetch
    /\ UNCHANGED <<library, locale, saved, changes>>

MoreFails ==
    /\ fetch # NoFetch
    /\ page' = [page EXCEPT !.error = TRUE]
    /\ fetch' = NoFetch
    /\ UNCHANGED <<library, locale, saved, changes>>

Rendered == page # NoSearch => page.length = Len(page.shown) /\ page.more = page.hasMore

Render ==
    /\ ~Rendered
    /\ page' = [page EXCEPT !.length = Len(page.shown), !.more = page.hasMore]
    /\ UNCHANGED <<library, locale, saved, fetch, changes>>

-------------------------------------------------------------------------------
(* The household.                                                              *)

\* Saved under a name that is there, a search takes its place.
CreateSavedSearch(wish) ==
    /\ saved' = NormalizeRecipeSearch(wish)
    /\ UNCHANGED <<library, locale, page, fetch, changes>>

DeleteSavedSearch ==
    /\ saved # NoSearch /\ saved' = NoSearch
    /\ UNCHANGED <<library, locale, page, fetch, changes>>

\* The doors; the page then goes to the search that was saved, as in SearchFor.
SavedSearchesPost(wish) == CreateSavedSearch(wish)
SaveRecipeSearch(wish)  == CreateSavedSearch(wish)
RecipesAction(wish)     == CreateSavedSearch(wish) \/ DeleteSavedSearch
SavedSearchDelete       == DeleteSavedSearch
DeleteSearchTool        == DeleteSavedSearch

\* The importer adds to the catalog; an owner publishes, shares or withdraws.
ChangeVisibility(d, visibility) ==
    /\ changes < ChangeBound /\ changes' = changes + 1
    /\ library[d] # visibility
    /\ IF DishTable[d].owner = "dataset" THEN visibility = "catalog" ELSE visibility # "catalog"
    /\ library' = [library EXCEPT ![d] = visibility]
    /\ IF page = NoSearch THEN UNCHANGED page
       ELSE \E wanted \in {page.wanted} :
               page' = [page EXCEPT !.owed = @ \cap Hits(wanted)',
                                    !.shrunk = @ \/ ~(Hits(wanted) \subseteq Hits(wanted)')]
    /\ UNCHANGED <<locale, saved, fetch>>

WebSearchNext ==
    \/ \E wish \in Wish : \/ SearchFor(wish) \/ RecipesAction(wish)
                         \/ SavedSearchesPost(wish) \/ SaveRecipeSearch(wish)
    \/ OpenSaved \/ SavedSearchDelete \/ DeleteSearchTool \/ Unavailable
    \/ \E again \in BOOLEAN : LoadMore(again)
    \/ AnswerMore \/ Arrive \/ MoreFails \/ Render
    \/ \E d \in Dish, v \in {"catalog", "user_private", "household"} : ChangeVisibility(d, v)

WebSearchSpec == WebSearchInit /\ [][WebSearchNext]_searchVars

-------------------------------------------------------------------------------
(* A grid that says that all recipes are loaded shows, once each, all recipes  *)
(* that matched what the reader asked for, or a member saved, and still do:    *)
(* whatever was published meanwhile, however requests failed, were repeated or *)
(* came before the render, unless a match went away and moved the pages, or    *)
(* the merge in every scope, which follows localeCompare, disagrees with the   *)
(* order the halves were cut by.  And the count next to a tag is the number of *)
(* recipes that choosing it finds (recipes.tsx, recipes.ts).                   *)
OneOrder(f) == f.text # "" \/ f.scope # "all" \/ \A a, b \in Dish : a < b => locale[a] < locale[b]

SearchIsComplete ==
    page # NoSearch =>
       /\ IsInjective(page.shown)
       /\ ~page.hasMore /\ ~page.shrunk /\ OneOrder(page.wanted) => page.owed \subseteq Range(page.shown)
       /\ LET first == SearchPage(page.filters, 0).total
          IN  first.relation = "exact" => first.value = Cardinality(Hits(page.filters))
       /\ LET f == [page.filters EXCEPT !.tags = {}, !.tagMatch = "all"]
          IN  \A tag \in UNION {DishTable[d].tags : d \in Dish} :
                 Facets(f, tag) = Cardinality(Hits([f EXCEPT !.tags = {tag}]))
===============================================================================
