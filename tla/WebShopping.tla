------------------------------ MODULE WebShopping ------------------------------
(* What is on a shopping list of the TypeScript application: ingredient lines  *)
(* are parsed when a recipe is stored, scaled to the servings of each planned  *)
(* meal, grouped, stored, refreshed after every change of the plan with the       *)
(* marks of the list before, and converted to the measurement system in which  *)
(* the list is shown.  WebPlanner has the interleavings of these requests;     *)
(* here each one is a single step, and the lines and amounts are exact.        *)
EXTENDS Integers, Sequences, SequencesExt, FiniteSetsExt

CONSTANTS
    Book,         \* each recipe: its servings (0 for none) and its raw lines
    MealBound     \* bound: meals in the plan

\* A line as it is written: its text determines what is read off it.
RawLine == [text : STRING, amount : [min : Nat, max : Nat, range : BOOLEAN],
            words : Seq(STRING), preparation : STRING]

\* A meal's servings are a multiple of its recipe's, so that amounts stay whole.
ASSUME ShoppingAssumption ==
    /\ MealBound \in Nat
    /\ \A r \in DOMAIN Book :
          /\ Book[r].servings \in {0, 1, 2} /\ Book[r].lines \in Seq(RawLine)
          /\ \A k, l \in DOMAIN Book[r].lines :
                Book[r].lines[k].text = Book[r].lines[l].text => Book[r].lines[k] = Book[r].lines[l]

VARIABLES
    dinners,  \* the meals of the plan: recipe and servings, in order
    listed,   \* the items of the latest list
    made      \* whether there is a list

shoppingVars == <<dinners, listed, made>>

-------------------------------------------------------------------------------
(* units.ts: a unit of the table, by dimension, system and factor.  A factor   *)
(* is the one of the table as a whole number; a package has none.              *)

Unit(id, dimension, system, toBase, aliases) ==
    [id |-> id, dimension |-> dimension, system |-> system, toBase |-> toBase, aliases |-> aliases]
UNITS == {Unit("g", "mass", "metric", 1, {<<"g">>}), Unit("kg", "mass", "metric", 1000, {<<"kg">>}),
          Unit("oz", "mass", "us", 28, {<<"oz">>}), Unit("lb", "mass", "us", 454, {<<"lb">>}),
          Unit("ml", "volume", "metric", 1, {<<"ml">>}), Unit("l", "volume", "metric", 1000, {<<"l">>}),
          Unit("tsp", "volume", "us", 5, {<<"tsp">>}), Unit("tbsp", "volume", "us", 15, {<<"tbsp">>}),
          Unit("cup", "volume", "us", 237, {<<"cup">>}), Unit("floz", "volume", "us", 30, {<<"fl", "oz">>}),
          Unit("each", "count", "universal", 1, {<<"each">>}),
          Unit("can", "package", "universal", 0, {<<"can">>})}
NoUnit == Unit("none", "none", "universal", 0, {})
UnitOf(id) == CHOOSE u \in UNITS \cup {NoUnit} : u.id = id
FindUnit(words) == IF \E u \in UNITS : words \in u.aliases
                   THEN CHOOSE u \in UNITS : words \in u.aliases ELSE NoUnit

\* preferredUnit of an amount in base units.
PreferredUnit(base, dimension, system) ==
    CASE dimension = "mass" /\ system = "metric"   -> UnitOf(IF base >= 1000 THEN "kg" ELSE "g")
      [] dimension = "mass" /\ system = "us"       -> UnitOf(IF base >= 16 * 28 THEN "lb" ELSE "oz")
      [] dimension = "volume" /\ system = "metric" -> UnitOf(IF base >= 1000 THEN "l" ELSE "ml")
      [] dimension = "volume" /\ system = "us" ->
            UnitOf(IF base >= 237 THEN "cup" ELSE IF base >= 15 THEN "tbsp" ELSE "tsp")
      [] OTHER -> NoUnit

-------------------------------------------------------------------------------
(* parse.ts: a line is an amount, or none; words; and what follows a comma.    *)

NoAmount == [min |-> 0, max |-> 0, range |-> FALSE]
HasAmount(a) == a # NoAmount

\* parseIngredientLine: a unit of two words, with a word after it, goes first,
\* then one of a single word; a line without an amount is left as it is.
ParseIngredientLine(raw) ==
    LET n    == IF Len(raw.words) >= 3 THEN 2 ELSE 1
        two  == FindUnit(SubSeq(raw.words, 1, n))
        one  == FindUnit(SubSeq(raw.words, 1, 1))
        Parsed(unit, skipped) ==
            [text |-> raw.text, amount |-> raw.amount, unit |-> unit,
             name |-> SubSeq(raw.words, skipped + 1, Len(raw.words)), preparation |-> raw.preparation]
    IN  IF ~HasAmount(raw.amount) THEN [Parsed(NoUnit, 0) EXCEPT !.preparation = ""]
        ELSE IF Len(raw.words) < 2 THEN Parsed(NoUnit, 0)
        ELSE IF two # NoUnit THEN Parsed(two, n)
        ELSE IF one # NoUnit THEN Parsed(one, 1)
        ELSE Parsed(NoUnit, 0)

-------------------------------------------------------------------------------
(* aggregate.ts                                                                *)

ScaleRange(a, scale) == [a EXCEPT !.min = @ * scale, !.max = @ * scale]
AddRange(a, b) == [min |-> a.min + b.min, max |-> a.max + b.max, range |-> a.range \/ b.range]

\* The amounts of an ingredient that is known are kept in base units, under the
\* unit of the dimension; convertible means that, and no package.
Convertible(input) == input.canonical # "" /\ HasAmount(input.amount) /\ input.unit.id # "can"
BaseUnit(unit) == UnitOf(CASE unit.dimension = "mass" -> "g" [] unit.dimension = "volume" -> "ml"
                           [] unit.dimension = "count" -> "each" [] OTHER -> unit.id)

KeyFor(input) ==
    IF input.canonical = "" \/ ~HasAmount(input.amount) \/ input.unit.toBase = 0
    THEN <<"unresolved", input.recipe, input.text>>
    ELSE <<input.canonical, input.unit.dimension, input.preparation>>

Item(input) ==
    [key |-> KeyFor(input), canonical |-> input.canonical, name |-> input.name,
     preparation |-> input.preparation, checked |-> FALSE, sources |-> <<<<input.recipe, input.text>>>>,
     unit |-> IF Convertible(input) THEN BaseUnit(input.unit) ELSE input.unit,
     amount |-> IF Convertible(input) /\ input.unit # NoUnit
                THEN ScaleRange(ScaleRange(input.amount, input.scale), input.unit.toBase)
                ELSE ScaleRange(input.amount, input.scale)]

\* Mutant: an input that joins an item adds its source and not its amount.
JoinSources(item, input) == [item EXCEPT !.sources = @ \o Item(input).sources]
\* One input joins the item of its key: the amounts add up if both have one.
Join(item, input) ==
    LET more == Item(input)
    IN  [item EXCEPT !.amount = IF HasAmount(@) /\ HasAmount(more.amount) THEN AddRange(@, more.amount) ELSE @,
                     !.sources = @ \o more.sources]
AddInput(groups, input) ==
    LET k == SelectInSeq(groups, LAMBDA item : item.key = KeyFor(input))
    IN  IF k = 0 THEN Append(groups, Item(input)) ELSE [groups EXCEPT ![k] = Join(@, input)]
\* The sort by name at the end is stable: items of one key keep their order.
AggregateIngredients(inputs) == FoldLeft(AddInput, <<>>, inputs)

-------------------------------------------------------------------------------
(* shopping.ts                                                                 *)

Scale(meal) == IF Book[meal.recipe].servings > 0
               THEN meal.servings \div Book[meal.recipe].servings ELSE 1

\* The inputs of one meal: the ingredient that a line is known as is not among
\* what aggregatePlan hands on.
Inputs(meal) ==
    [k \in DOMAIN Book[meal.recipe].lines |->
        LET line == ParseIngredientLine(Book[meal.recipe].lines[k])
        IN  [canonical |-> "", recipe |-> meal.recipe, scale |-> Scale(meal), text |-> line.text,
             amount |-> line.amount, unit |-> line.unit, name |-> line.name,
             preparation |-> line.preparation]]

\* aggregatePlan, then storedItems without any mark.
ItemsOf(meals) == AggregateIngredients(FlattenSeq([k \in DOMAIN meals |-> Inputs(meals[k])]))

ItemKey(item) == <<item.canonical, item.name, item.preparation>>
\* Mutant: the preparation is not part of the key.
MarkByName(before, item) ==
    LET same == {k \in DOMAIN before : before[k].name = item.name}
    IN  same # {} /\ before[Max(same)].checked
\* The marks of a list by the key of its items, the last of one key prevailing.
Mark(before, item) ==
    LET same == {k \in DOMAIN before : ItemKey(before[k]) = ItemKey(item)}
    IN  same # {} /\ before[Max(same)].checked
Refreshed(before, meals) ==
    LET after == ItemsOf(meals)
    IN  [k \in DOMAIN after |-> [after[k] EXCEPT !.checked = Mark(before, after[k])]]

\* What view shows of an item: the amount, over a number of the units shown.
DisplayQuantity(item, system) ==
    LET target == PreferredUnit(item.amount.min * item.unit.toBase, item.unit.dimension, system)
    IN  IF system = "original" \/ item.unit.toBase = 0 \/ target = NoUnit
        THEN [min |-> item.amount.min, over |-> 1, unit |-> item.unit]
        ELSE [min |-> item.amount.min * item.unit.toBase, over |-> target.toBase, unit |-> target]

-------------------------------------------------------------------------------
WebShoppingInit == dinners = <<>> /\ listed = <<>> /\ made = FALSE

\* A change of the plan, and the refresh at its end if there is a list.
ChangePlan(meals) ==
    /\ dinners' = meals
    /\ listed' = IF made THEN Refreshed(listed, meals) ELSE listed
    /\ UNCHANGED made

PlanMeal(r, s) ==
    /\ Len(dinners) < MealBound
    /\ ChangePlan(Append(dinners, [recipe |-> r, servings |-> s]))
UnplanMeal(k) == ChangePlan(RemoveAt(dinners, k))
ChangeServings(k, s) == dinners[k].servings # s /\ ChangePlan([dinners EXCEPT ![k].servings = s])

\* generate: a new list, without marks.
GenerateList ==
    /\ listed' = ItemsOf(dinners) /\ made' = TRUE
    /\ UNCHANGED dinners

\* toggle, and togglePublic: one item of the list as it is.
ToggleItem(k) ==
    /\ listed' = [listed EXCEPT ![k].checked = ~@]
    /\ UNCHANGED <<dinners, made>>

WebShoppingNext ==
    \/ \E r \in DOMAIN Book, s \in {2, 4} : PlanMeal(r, s)
    \/ \E k \in DOMAIN dinners : UnplanMeal(k) \/ \E s \in {2, 4} : ChangeServings(k, s)
    \/ GenerateList
    \/ \E k \in DOMAIN listed : ToggleItem(k)

WebShoppingSpec == WebShoppingInit /\ [][WebShoppingNext]_shoppingVars

-------------------------------------------------------------------------------
\* How many times over the meals of the plan ask for recipe r.
Demand(r) == FoldLeft(LAMBDA sum, meal : sum + IF meal.recipe = r THEN Scale(meal) ELSE 0, 0, dinners)

\* How many lines of the recipe read like this one.
Times(r, line) == Cardinality({k \in DOMAIN Book[r].lines : Book[r].lines[k].text = line.text})

(* A list has every line of every planned meal, those that read alike as one,  *)
(* with the amount all its meals ask for together, and shows that amount in    *)
(* whatever measurement system and unit (parse.ts, aggregate.ts, display.ts,   *)
(* shopping.ts).                                                               *)
ListAddsUp ==
    made => \A r \in DOMAIN Book : \A k \in DOMAIN Book[r].lines :
        LET line  == ParseIngredientLine(Book[r].lines[k])
            asked == Demand(r) * Times(r, line)
            mine  == {i \in DOMAIN listed : <<r, line.text>> \in ToSet(listed[i].sources)}
        IN  IF Demand(r) = 0 THEN mine = {}
            ELSE \E i \in mine : /\ mine = {i}
                                 /\ listed[i].amount = ScaleRange(line.amount, asked)
                                 /\ \A system \in {"original", "us", "metric"} :
                                      LET shown == DisplayQuantity(listed[i], system)
                                      IN  /\ shown.unit.dimension = line.unit.dimension
                                          /\ shown.unit.toBase > 0 =>
                                               shown.min * shown.unit.toBase
                                                 = line.amount.min * asked * line.unit.toBase * shown.over

SameLine(x, y) == x.key = y.key

(* A refresh invents no mark and loses none that it can tell apart: a line has *)
(* the mark that a line of its ingredient and preparation had before, and no   *)
(* mark if there was none (shopping.ts: itemKey, refreshPlan, storedItems).    *)
MarksComeFromTheList ==
    [][dinners' # dinners =>
        \A k \in DOMAIN listed' :
            LET before == {listed[i].checked : i \in {j \in DOMAIN listed : ItemKey(listed[j]) = ItemKey(listed'[k])}}
            IN  listed'[k].checked \in (IF before = {} THEN {FALSE} ELSE before)
      ]_shoppingVars

(* docs/phases/phase-05-meal-planning-shopping-lists.md: regeneration never    *)
(* silently discards checked state.  A line that is on the list before and     *)
(* after a refresh keeps its mark.                                             *)
CheckedStateSurvives ==
    [][dinners' # dinners =>
        \A i \in DOMAIN listed, k \in DOMAIN listed' :
            SameLine(listed[i], listed'[k]) => listed'[k].checked = listed[i].checked
      ]_shoppingVars
===============================================================================
