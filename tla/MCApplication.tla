---------------------------- MODULE MCApplication ----------------------------
(* The components that share no state, side by side, for TLC: the shopping     *)
(* lists of the port and the components of the TypeScript application.  An     *)
(* execution picks one of them at the start and follows it alone, so an        *)
(* instance has as many states as the components have together, not the        *)
(* product, and no property is affected by a component that does not move.     *)
EXTENDS ShoppingList, MongoGateway, IndexSync, WebPlanner, MCWebShopping, WebIngestion,
        WebEmail, WebHouseholds, WebAccess, WebImport, WebSearch, WebShares, PortClient

VARIABLE part  \* the component that this execution follows

Part == {"port lists", "gateway", "indexes", "planner", "shopping", "ingestion",
         "email", "households", "access", "import", "search", "shares", "client"}

FirstRow == CHOOSE row \in FileRow : TRUE

\* What a component that does not move starts with is all the same.
ApplicationInit ==
    /\ part \in Part
    /\ Init
    /\ part # "port lists" => plan = {}
    /\ GatewayInit /\ IndexInit /\ PlannerInit /\ WebShoppingInit
    /\ IngestionInit /\ MailInit /\ WebHouseholdsInit /\ AccessInit
    /\ WebImportInit
    /\ part # "import" => \A r \in 1 .. FileLength : sheet[r] = FirstRow
    /\ WebSearchInit
    /\ part # "search" => locale = [d \in Dish |-> d] /\ library[2] = "none" /\ library[6] = "none"
    /\ SharesInit
    /\ ClientInit
    /\ part # "client" => resource = "plan"

\* p moves, and nothing but p.
Only(p) ==
    /\ part = p /\ UNCHANGED part
    /\ p # "port lists" => UNCHANGED vars
    /\ p # "gateway"    => UNCHANGED gatewayVars
    /\ p # "indexes"    => UNCHANGED indexVars
    /\ p # "planner"    => UNCHANGED plannerVars
    /\ p # "shopping"   => UNCHANGED shoppingVars
    /\ p # "ingestion"  => UNCHANGED ingestionVars
    /\ p # "email"      => UNCHANGED mailVars
    /\ p # "households" => UNCHANGED householdVars
    /\ p # "access"     => UNCHANGED accessVars
    /\ p # "import"     => UNCHANGED importVars
    /\ p # "search"     => UNCHANGED searchVars
    /\ p # "shares"     => UNCHANGED shareVars
    /\ p # "client"     => UNCHANGED clientVars

ApplicationNext ==
    \/ Only("port lists") /\ Next
    \/ Only("gateway")    /\ GatewayNext
    \/ Only("indexes")    /\ IndexNext
    \/ Only("planner")    /\ PlannerNext
    \/ Only("shopping")   /\ WebShoppingNext
    \/ Only("ingestion")  /\ IngestionNext
    \/ Only("email")      /\ MailNext
    \/ Only("households") /\ WebHouseholdsNext
    \/ Only("access")     /\ AccessNext
    \/ Only("import")     /\ WebImportNext
    \/ Only("search")     /\ WebSearchNext
    \/ Only("shares")     /\ WebSharesNext
    \/ Only("client")     /\ ClientNext

ApplicationSpec ==
    ApplicationInit
    /\ [][ApplicationNext]_<<part, vars, gatewayVars, indexVars, plannerVars, shoppingVars,
                             ingestionVars, mailVars, householdVars, accessVars, importVars, searchVars,
                             shareVars, clientVars>>

-------------------------------------------------------------------------------
(* What the constants of the .cfg stand for.                                   *)

\* Every way a request can be refused, an operation of each kind, and arguments
\* with a date, an object id and a pattern in them.
MCRequest ==
    {[shape |-> s, op |-> "find", arg |-> Plain("text")] : s \in {"token", "size", "body"}}
    \cup {[shape |-> "good", op |-> "updateOne", arg |-> a] : a \in {Plain("date"), Object("field", "oid")}}
    \cup {[shape |-> s, op |-> "bulkWrite", arg |-> Object("field", "regex")] : s \in {"good", "args"}}

MCManaged == <<[name |-> "a", shape |-> "S"], [name |-> "b", shape |-> "T"]>>

\* A row for each way its cells can be read or refused.
Cells(ingredients, raw, steps, tags) ==
    [ingredients |-> ingredients, ingredients_raw |-> raw, steps |-> steps, tags |-> tags]
Row(id, cells, lines, spellings, servings) ==
    [id |-> id, cells |-> cells, lines |-> lines, spellings |-> spellings, servings |-> servings,
     oversized |-> FALSE, short |-> FALSE]
Sound == Cells("strings", "strings", "strings", "strings")

MCFileRow ==
    {Row("a", [Sound EXCEPT !["steps"] = "quotes"], {"parsed"}, {"Quick meal", "quick-meal"}, 4),
     Row("a", Cells("", "broken", "strings", "other"), {"unresolved"}, {"quick-meal"}, 0),
     Row("b", [Sound EXCEPT !["tags"] = "quotes"], {"partial", "parsed"}, {"quick-meal", "soup", " "}, 60),
     [Row("c", [Sound EXCEPT !["tags"] = "quotes other"], {"parsed"}, {"soup"}, 1) EXCEPT !.oversized = TRUE],
     [Row("d", Sound, {"parsed"}, {}, 1) EXCEPT !.short = TRUE]}

\* A library, two orders of its names, and wishes that reach every branch.
D(owner, tags, found, score, first) ==
    [owner |-> owner, tags |-> tags, found |-> found, score |-> score, first |-> first]
MCDishTable ==
    <<D("dataset", {"soup"}, TRUE, 1, {"catalog"}), D("me", {"soup", "quick"}, TRUE, 5, {"none", "household"}),
      D("dataset", {"quick"}, TRUE, 3, {"catalog"}), D("them", {"soup"}, FALSE, 2, {"household"}),
      D("dataset", {"soup"}, TRUE, 4, {"catalog"}), D("dataset", {"quick"}, FALSE, 6, {"none", "catalog"})>>
MCLocaleOrders == {<<1, 2, 3, 4, 5, 6>>, <<2, 3, 4, 5, 6, 1>>}
W(text, tags, tagMatch, scope) == [text |-> text, tags |-> tags, tagMatch |-> tagMatch, scope |-> scope]
MCWish == {W("", {}, "all", "all"), W("", {"soup", "quick", ""}, "any", "other"),
           W("stew", {"soup"}, "any", "all"), W("", {}, "all", "household")}
===============================================================================
