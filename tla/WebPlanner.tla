----------------------------- MODULE WebPlanner -----------------------------
(* Planning in the TypeScript application: the meals of a week and of the week *)
(* before, the shopping lists generated from them, and the requests of the  *)
(* household's members.  A request is a handler that awaits one database       *)
(* command after the other; there is no transaction and no version, so the     *)
(* commands of two requests mix freely.  One recipe is planned throughout, so  *)
(* a list has one line, which adds up the meals it was generated from.         *)
EXTENDS Integers, Sequences, FiniteSets

CONSTANTS
    Meal,          \* ids of plan items
    SourceMeal,    \* the meals of the week before
    PlanTab,       \* requests in flight at once
    OwnerTab,      \* those of the member who owns the recipe
    PlanServings,  \* servings a meal can have
    RequestBound,  \* bound: requests an instance follows
    ListBound,     \* bound: lists generated
    EditionBound   \* bound: edits of the recipe

ASSUME PlannerAssumption ==
    /\ IsFiniteSet(Meal) /\ SourceMeal \subseteq Meal
    /\ OwnerTab \subseteq PlanTab
    /\ PlanServings \subseteq Nat \ {0} /\ 1 \in PlanServings
    /\ RequestBound \in Nat /\ ListBound \in Nat /\ EditionBound \in Nat

VARIABLES
    meals,     \* each plan item: its week and servings
    planned,   \* whether the plan of the week exists
    recipe,    \* edition and visibility of the recipe
    lists,     \* the shopping lists in the order of createdAt
    request,   \* what each tab is doing
    begun,     \* requests so far, up to RequestBound
    overtaken, \* a list was written that left a hidden recipe out, or from a
               \* plan that changed after it was read
    cut        \* a request ended before its last command

plannerVars == <<meals, planned, recipe, lists, request, begun, overtaken, cut>>

NoMeal == [week |-> "none", servings |-> 1]
Idle == [pc |-> "idle", kind |-> "none", meal |-> {}, servings |-> 1,
         source |-> {}, list |-> 0, marked |-> FALSE, todo |-> {}, read |-> {}, late |-> FALSE]

In(week) == {m \in Meal : meals[m].week = week}
FreshMeals == In("none")
\* What the shopping list of the week is made of: one entry for each meal.
Entry(m) == [meal |-> m, servings |-> meals[m].servings, edition |-> recipe.edition]
Current == {Entry(m) : m \in In("target")}

PlannerInit ==
    /\ meals = [m \in Meal |-> IF m \in SourceMeal THEN [NoMeal EXCEPT !.week = "source"] ELSE NoMeal]
    /\ planned = FALSE
    /\ recipe = [edition |-> 0, private |-> FALSE]
    /\ lists = <<>>
    /\ request = [t \in PlanTab |-> Idle]
    /\ begun = 0
    /\ overtaken = FALSE /\ cut = FALSE

-------------------------------------------------------------------------------
(* The doors: the page actions, the API routes and the tools of the MCP server.*)
(* Each checks its arguments and starts at its first command that touches      *)
(* plans, recipes or lists.                                                    *)

Start(t, kind, pc, chosen, servings) ==
    /\ request[t].pc = "idle" /\ begun < RequestBound
    /\ begun' = begun + 1
    /\ request' = [request EXCEPT ![t] = [Idle EXCEPT !.pc = pc, !.kind = kind,
                                                      !.meal = chosen, !.servings = servings]]
    /\ UNCHANGED <<meals, planned, recipe, lists, overtaken, cut>>

\* The page and the tool look at the recipe before there is a plan; the API does
\* not, and its plan is there even when the meal is refused.
PlanAction(t) ==
    \/ Start(t, "copy", "source", {}, 1)
    \/ \E m \in In("source") \cup In("target") : Start(t, "remove", "pull", {m}, 1)
    \/ \E m \in In("target"), s \in PlanServings : Start(t, "servings", "set", {m}, s)
    \/ \E s \in PlanServings : Start(t, "add", "look", {}, s)

MealPlansPost(t)     == \E s \in PlanServings : Start(t, "add", "ensure", {}, s)
MealPlanItemPatch(t) == \E m \in In("target"), s \in PlanServings : Start(t, "servings", "set", {m}, s)
ClonePost(t)         == Start(t, "copy", "source", {}, 1)
GeneratePost(t)      == Start(t, "generate", "plan", {}, 1)
ShoppingAction(t)    == Start(t, "generate", "plan", {}, 1)

AddRecipeToPlan(t)          == \E s \in PlanServings : Start(t, "add", "look", {}, s)
UpdateMealPlanServings(t)   == \E m \in In("target"), s \in PlanServings : Start(t, "servings", "set", {m}, s)
CopyPreviousMealPlan(t)     == Start(t, "copy", "source", {}, 1)
GenerateShoppingList(t)     == Start(t, "generate", "plan", {}, 1)

\* The recipe's page: one serving more or less, or the owner's visibility switch.
DetailAction(t) ==
    \/ \E m \in In("target") : Start(t, "adjust", "context", {m}, 1)
    \/ t \in OwnerTab /\ (Start(t, "private", "planned", {}, 1) \/ Start(t, "share", "visible", {}, 1))

RecipeEdit(t) == t \in OwnerTab /\ Start(t, "edit", "update", {}, 1)

-------------------------------------------------------------------------------
(* The handlers.  A tab at "refresh" starts refreshShoppingListForPlan, the    *)
(* last call of every handler that changes the plan.                           *)

At(t, pc) == request[t].pc = pc
Goto(t, pc) == request' = [request EXCEPT ![t].pc = pc]
End(t) == request' = [request EXCEPT ![t] = Idle]
\* t goes on after a change: whoever has read the plan and not yet stored a list
\* will store one that the change is not in.
Changed(t, pc) ==
    request' = [u \in PlanTab |-> IF u = t THEN [request[t] EXCEPT !.pc = pc]
                                  ELSE IF request[u].pc = "recipes" THEN [request[u] EXCEPT !.late = TRUE]
                                  ELSE request[u]]

\* getRecipe, and then nothing for a recipe that is not shared or not seen.
LookAtRecipe(t) ==
    /\ At(t, "look")
    /\ IF recipe.private THEN End(t) ELSE Goto(t, "ensure")
    /\ UNCHANGED <<meals, planned, recipe, lists, begun, overtaken, cut>>

\* getItemContext, and resolvePlannedServingUpdate on the servings it read: two
\* adjustments that read the same number add up to one.  (A number typed in is
\* set like any other.)
ReadServings(t) ==
    /\ At(t, "context")
    /\ IF request[t].meal \cap In("target") = {} THEN End(t)
       ELSE \E m \in request[t].meal, step \in {-1, 1} :
              request' = [request EXCEPT ![t].pc = "set",
                  ![t].servings = IF meals[m].servings + step \in PlanServings
                                  THEN meals[m].servings + step ELSE meals[m].servings]
    /\ UNCHANGED <<meals, planned, recipe, lists, begun, overtaken, cut>>

\* ensurePlan: an upsert on the unique week.
Ensure(t) ==
    /\ At(t, "ensure")
    /\ planned' = TRUE
    /\ Goto(t, IF request[t].kind = "copy" THEN "target" ELSE "share")
    /\ UNCHANGED <<meals, recipe, lists, begun, overtaken, cut>>

\* addItem: the recipe has to be one that the household shares; then the push.
AddCheck(t) ==
    /\ At(t, "share")
    /\ IF recipe.private THEN End(t) ELSE Goto(t, "push")
    /\ UNCHANGED <<meals, planned, recipe, lists, begun, overtaken, cut>>

AddPush(t, m) ==
    /\ At(t, "push") /\ m \in FreshMeals
    /\ meals' = [meals EXCEPT ![m] = [NoMeal EXCEPT !.week = "target", !.servings = request[t].servings]]
    /\ Changed(t, "refresh")
    /\ UNCHANGED <<planned, recipe, lists, begun, overtaken, cut>>

\* removeItem: nothing is refreshed when no plan has the item any more, and the
\* plan of the week before has no list.
RemoveItem(t) ==
    /\ At(t, "pull")
    /\ meals' = [m \in Meal |-> IF m \in request[t].meal THEN [meals[m] EXCEPT !.week = "removed"]
                                ELSE meals[m]]
    /\ IF request[t].meal \subseteq In("target") THEN Changed(t, "refresh") ELSE End(t)
    /\ UNCHANGED <<planned, recipe, lists, begun, overtaken, cut>>

UpdateServings(t) ==
    /\ At(t, "set")
    /\ LET found == request[t].meal \cap In("target")
       IN  IF found = {} THEN End(t) /\ UNCHANGED meals
           ELSE /\ meals' = [m \in Meal |-> IF m \in found
                                            THEN [meals[m] EXCEPT !.servings = request[t].servings]
                                            ELSE meals[m]]
                /\ Changed(t, "refresh")
    /\ UNCHANGED <<planned, recipe, lists, begun, overtaken, cut>>

\* copyWeek: read the week before, ensure the plan, see that it is empty, and
\* write the copies if it still is.
CopySource(t) ==
    /\ At(t, "source")
    /\ IF In("source") = {} THEN End(t)
       ELSE request' = [request EXCEPT ![t].pc = "ensure", ![t].source = In("source")]
    /\ UNCHANGED <<meals, planned, recipe, lists, begun, overtaken, cut>>

CopyTarget(t) ==
    /\ At(t, "target")
    /\ IF In("target") # {} THEN End(t) ELSE Goto(t, "copy")
    /\ UNCHANGED <<meals, planned, recipe, lists, begun, overtaken, cut>>

\* Mutant: the update has no filter on the items.
Unfiltered == TRUE
\* The filter of the update, which replaces all items: the week has none.
StillEmpty == In("target") = {}

\* new gives every meal that is copied an id of its own.
CopyWrite(t, new) ==
    /\ At(t, "copy")
    /\ IF StillEmpty
       THEN /\ meals' = [m \in Meal |->
                   IF \E s \in request[t].source : new[s] = m
                   THEN [week |-> "target",
                         servings |-> meals[CHOOSE s \in request[t].source : new[s] = m].servings]
                   ELSE IF meals[m].week = "target" THEN [meals[m] EXCEPT !.week = "removed"]
                   ELSE meals[m]]
            /\ Changed(t, "refresh")
       ELSE Goto(t, "refresh") /\ UNCHANGED meals
    /\ UNCHANGED <<planned, recipe, lists, begun, overtaken, cut>>

\* updateOwned, then refreshRecipe for the plans that have the recipe.
EditRecipe(t) ==
    /\ At(t, "update") /\ recipe.edition < EditionBound
    /\ recipe' = [recipe EXCEPT !.edition = @ + 1]
    /\ Changed(t, "using")
    /\ UNCHANGED <<meals, planned, lists, begun, overtaken, cut>>

\* Mutant: an edited recipe does not refresh the plans that have it.
ForgetPlans(t) ==
    /\ At(t, "using") /\ End(t)
    /\ UNCHANGED <<meals, planned, recipe, lists, begun, overtaken, cut>>
\* refreshRecipe looks for the plans that have the recipe.
PlansUsing(t) ==
    /\ At(t, "using")
    /\ IF In("target") = {} THEN End(t) ELSE Goto(t, "refresh")
    /\ UNCHANGED <<meals, planned, recipe, lists, begun, overtaken, cut>>

\* setVisibility: a recipe that is planned does not become private.
PrivateCheck(t) ==
    /\ At(t, "planned")
    /\ IF In("source") \cup In("target") # {} THEN End(t) ELSE Goto(t, "visible")
    /\ UNCHANGED <<meals, planned, recipe, lists, begun, overtaken, cut>>

SetVisibility(t) ==
    /\ At(t, "visible")
    /\ recipe' = [recipe EXCEPT !.private = request[t].kind = "private"]
    /\ End(t)
    /\ UNCHANGED <<meals, planned, lists, begun, overtaken, cut>>

-------------------------------------------------------------------------------
(* Lists: refreshPlan reads the latest list, the plan and every recipe, and    *)
(* replaces the items; generate does the same without a list to start from.    *)

RefreshStart(t) ==
    /\ At(t, "refresh")
    /\ IF lists = <<>> THEN End(t)
       ELSE request' = [request EXCEPT ![t].pc = "plan", ![t].list = Len(lists),
                                       ![t].marked = lists[Len(lists)].marked]
    /\ UNCHANGED <<meals, planned, recipe, lists, begun, overtaken, cut>>

ReadPlan(t) ==
    /\ At(t, "plan")
    /\ IF ~planned THEN End(t)
       ELSE request' = [request EXCEPT ![t].pc = "recipes", ![t].todo = In("target"),
                          ![t].read = Current, ![t].late = FALSE]
    /\ UNCHANGED <<meals, planned, recipe, lists, begun, overtaken, cut>>

\* recipes.get: the entry has the recipe as it is now, or is left out, if the
\* reader is not shown the recipe; sharing it again refreshes no list.
ReadRecipe(t, m) ==
    /\ At(t, "recipes") /\ m \in request[t].todo
    /\ LET seen    == CHOOSE e \in request[t].read : e.meal = m
           visible == ~recipe.private \/ t \in OwnerTab
       IN  request' = [request EXCEPT ![t].todo = @ \ {m},
                          ![t].read = (@ \ {seen}) \cup
                             (IF visible THEN {[seen EXCEPT !.edition = recipe.edition]} ELSE {}),
                          ![t].late = @ \/ ~visible]
    /\ UNCHANGED <<meals, planned, recipe, lists, begun, overtaken, cut>>

\* A line keeps its mark if the list that was read had it.
StoreList(t) ==
    /\ At(t, "recipes") /\ request[t].todo = {}
    /\ LET stored == [content |-> request[t].read, marked |-> request[t].marked /\ request[t].read # {}]
       IN  IF request[t].kind = "generate"
           THEN Len(lists) < ListBound /\ lists' = Append(lists, stored)
           ELSE lists' = [lists EXCEPT ![request[t].list] = stored]
    /\ overtaken' = (overtaken \/ request[t].late)
    /\ End(t)
    /\ UNCHANGED <<meals, planned, recipe, begun, cut>>

\* toggle: it reaches a line by the id that the last refresh gave it.
ToggleMark(i, checked) ==
    /\ lists[i].content # {} /\ lists[i].marked # checked
    /\ lists' = [lists EXCEPT ![i].marked = checked]
    /\ UNCHANGED <<meals, planned, recipe, request, begun, overtaken, cut>>

\* A command fails, or the Worker is stopped: the rest of the handler is not run.
CutOff(t) ==
    /\ request[t].pc # "idle" /\ ~cut
    /\ cut' = TRUE
    /\ End(t)
    /\ UNCHANGED <<meals, planned, recipe, lists, begun, overtaken>>

PlannerNext ==
    \/ \E t \in PlanTab :
        \/ PlanAction(t) \/ MealPlansPost(t) \/ MealPlanItemPatch(t) \/ ClonePost(t)
        \/ GeneratePost(t) \/ ShoppingAction(t) \/ DetailAction(t) \/ RecipeEdit(t)
        \/ AddRecipeToPlan(t) \/ UpdateMealPlanServings(t) \/ CopyPreviousMealPlan(t)
        \/ GenerateShoppingList(t)
        \/ LookAtRecipe(t) \/ ReadServings(t)
        \/ Ensure(t) \/ AddCheck(t) \/ \E m \in Meal : AddPush(t, m)
        \/ RemoveItem(t) \/ UpdateServings(t)
        \/ CopySource(t) \/ CopyTarget(t)
        \/ \E new \in [SourceMeal -> FreshMeals] :
              (\A a, b \in SourceMeal : new[a] = new[b] => a = b) /\ CopyWrite(t, new)
        \/ EditRecipe(t) \/ PlansUsing(t) \/ PrivateCheck(t) \/ SetVisibility(t)
        \/ RefreshStart(t) \/ ReadPlan(t) \/ StoreList(t) \/ CutOff(t)
        \/ \E m \in Meal : ReadRecipe(t, m)
    \/ \E i \in DOMAIN lists, checked \in BOOLEAN : ToggleMark(i, checked)

PlannerSpec == PlannerInit /\ [][PlannerNext]_plannerVars

-------------------------------------------------------------------------------
(* A meal leaves the week, or gets other servings, only by a request for that  *)
(* meal: a copy that finds the week empty and writes later replaces no meal    *)
(* that was added, or copied by a second click, in between (plans.ts: copyWeek,*)
(* addItem, removeItem).                                                       *)
MealsAreKept ==
    [][\A m \in In("target") :
          meals'[m] # meals[m] => \E t \in PlanTab : m \in request[t].meal /\ request'[t] # request[t]
      ]_plannerVars

(* When nothing is in flight the latest list adds up the week as it is, unless *)
(* a list was stored from a plan that changed while it was being computed or   *)
(* without a recipe that was private by then, or a request was cut off: every  *)
(* handler that changes the week, the copy that lost included, refreshes after *)
(* its change (plan.tsx, api.meal-plans*.ts, recipe-edit.tsx; shopping.ts:     *)
(* refreshPlan, refreshRecipe, generate).                                      *)
RestingListIsCurrent ==
    /\ \A t \in PlanTab : request[t].pc = "idle"
    /\ ~overtaken /\ ~cut /\ lists # <<>>
    => lists[Len(lists)].content = Current
===============================================================================
