---------------------------- MODULE ShoppingList ----------------------------
(***************************************************************************)
(* One shared shopping list of the Kotlin backend: ShoppingService for the *)
(* household's members, ShoppingShareService for the guests who hold a     *)
(* share link, and the meal plan the list is aggregated from.              *)
(*                                                                         *)
(* A Line is an aggregation key (ingredient, unit, preparation).  Every    *)
(* refresh replaces the item array by one with fresh item ids, so an item  *)
(* is named by its line and by the generation of the array it belongs to.  *)
(* refresh reads the list, then the plan, then writes if the version is    *)
(* still the one it read.                                                  *)
(***************************************************************************)
EXTENDS Integers

CONSTANTS
    Line,         \* aggregation keys
    Member,       \* members' concurrent refresh requests
    Guest,        \* guests' concurrent requests over the share link
    EditBound,    \* bound: edits of the meal plan
    ToggleBound,  \* bound: toggles
    RefreshBound  \* bound: arrays of items before the last refresh starts

ASSUME BoundAssumption ==
    EditBound \in Nat /\ ToggleBound \in Nat /\ RefreshBound \in Nat

VARIABLES
    plan,         \* the lines the meal plan aggregates to
    edits,        \* the meal plan's version
    items,        \* the lines of the list
    checked,      \* the lines with a check mark
    version,      \* the version of the list
    generation,   \* which array of items: members and guests hold ids of one
    basis,        \* the version of the plan the items were aggregated from
    refresh,      \* refresh[m]: the refresh request of m
    shared,       \* whether the share link is valid: not revoked, not expired
    guest,        \* guest[g]: whether the request of g has resolved the link
    unversioned,  \* lines a guest toggled since version last changed
    toggles       \* toggles so far, at most ToggleBound

mealPlan == <<plan, edits>>
list     == <<items, checked, version, generation, basis>>
requests == <<refresh, shared, guest>>
vars     == <<mealPlan, list, requests, unversioned, toggles>>

NoRefresh == [at |-> "none"]

ListTypeOK ==
    /\ plan \subseteq Line /\ edits \in 0 .. EditBound
    /\ items \subseteq Line /\ checked \subseteq items
    /\ version \in Nat /\ generation \in Nat
    /\ basis \in 0 .. edits
    /\ refresh \in [Member ->
           {NoRefresh}
           \cup [at : {"list"}, version : 0 .. version, checked : SUBSET Line]
           \cup [at : {"plan"}, version : 0 .. version, checked : SUBSET Line,
                 items : SUBSET Line, basis : 0 .. edits]]
    /\ shared \in BOOLEAN
    /\ guest \in [Guest -> BOOLEAN]
    /\ unversioned \subseteq Line
    /\ toggles \in 0 .. ToggleBound

\* The list as generate leaves it, and a share of it.
Init ==
    /\ plan \in SUBSET Line /\ items = plan
    /\ edits = 0 /\ basis = 0
    /\ checked = {}
    /\ version = 0 /\ generation = 0
    /\ refresh = [m \in Member |-> NoRefresh]
    /\ shared = TRUE
    /\ guest = [g \in Guest |-> FALSE]
    /\ unversioned = {}
    /\ toggles = 0

-------------------------------------------------------------------------------
(* The members.                                                            *)

\* Adding, removing, scaling and copying meals: each bumps the plan's version.
EditPlan ==
    /\ edits < EditBound
    /\ edits' = edits + 1
    /\ plan' \in SUBSET Line
    /\ UNCHANGED <<list, requests, unversioned, toggles>>

SetRefresh(m, r) == refresh' = [refresh EXCEPT ![m] = r]

\* refresh reads the list, for its version and its check marks...
ReadList(m) ==
    /\ refresh[m] = NoRefresh
    /\ generation < RefreshBound
    /\ SetRefresh(m, [at |-> "list", version |-> version, checked |-> checked])
    /\ UNCHANGED <<mealPlan, list, shared, guest, unversioned, toggles>>

\* ...aggregates the plan as it is by then...
Aggregate(m) ==
    /\ refresh[m].at = "list"
    /\ SetRefresh(m, [at |-> "plan", version |-> refresh[m].version,
                      checked |-> refresh[m].checked,
                      items |-> plan, basis |-> edits])
    /\ UNCHANGED <<mealPlan, list, shared, guest, unversioned, toggles>>

\* Mutant: the write does not look at the version.
AnyVersion(v) == TRUE

Unchanged(v) == v = version

\* ...and replaces the items, or gives up with 409.
WriteList(m) ==
    LET r == refresh[m]
    IN  /\ r.at = "plan"
        /\ IF Unchanged(r.version)
           THEN /\ items' = r.items
                /\ checked' = r.checked \cap r.items
                /\ version' = version + 1
                /\ generation' = generation + 1
                /\ basis' = r.basis
                /\ unversioned' = {}
           ELSE UNCHANGED <<list, unversioned>>
        /\ SetRefresh(m, NoRefresh)
        /\ UNCHANGED <<mealPlan, shared, guest, toggles>>

\* The process dies, or a read of the list or the plan fails.
AbandonRefresh(m) ==
    /\ refresh[m] # NoRefresh
    /\ SetRefresh(m, NoRefresh)
    /\ UNCHANGED <<mealPlan, list, shared, guest, unversioned, toggles>>

\* The update both services share: an id of an older array matches nothing.
SetMark(l, mark) ==
    /\ l \in items
    /\ toggles < ToggleBound
    /\ toggles' = toggles + 1
    /\ checked' = IF mark THEN checked \cup {l} ELSE checked \ {l}
    /\ UNCHANGED <<items, generation, basis>>

\* Mutant: a member's toggle leaves the version alone.
ToggleUnversioned(l, mark) ==
    /\ SetMark(l, mark)
    /\ UNCHANGED <<mealPlan, version, requests, unversioned>>

\* The version moves on with a member's toggle.
Toggle(l, mark) ==
    /\ SetMark(l, mark)
    /\ version' = version + 1
    /\ unversioned' = {}
    /\ UNCHANGED <<mealPlan, requests>>

-------------------------------------------------------------------------------
(* The guests.                                                             *)

\* revoke, or the share's expiry.
Revoke ==
    /\ shared
    /\ shared' = FALSE
    /\ UNCHANGED <<mealPlan, list, refresh, guest, unversioned, toggles>>

Resolve(g) ==
    /\ shared /\ ~ guest[g]
    /\ guest' = [guest EXCEPT ![g] = TRUE]
    /\ UNCHANGED <<mealPlan, list, refresh, shared, unversioned, toggles>>

\* The update of a guest's toggle leaves the version alone; the link was
\* checked before, not with it.
GuestToggle(g, l, mark) ==
    /\ guest[g]
    /\ SetMark(l, mark)
    /\ guest' = [guest EXCEPT ![g] = FALSE]
    /\ unversioned' = unversioned \cup {l}
    /\ UNCHANGED <<mealPlan, version, refresh, shared>>

\* A guest who only looks, or whose item is gone.
GuestLeaves(g) ==
    /\ guest[g]
    /\ guest' = [guest EXCEPT ![g] = FALSE]
    /\ UNCHANGED <<mealPlan, list, refresh, shared, unversioned, toggles>>

Next ==
    \/ EditPlan \/ Revoke
    \/ \E m \in Member :
          ReadList(m) \/ Aggregate(m) \/ WriteList(m) \/ AbandonRefresh(m)
    \/ \E l \in Line, mark \in BOOLEAN :
          Toggle(l, mark) \/ \E g \in Guest : GuestToggle(g, l, mark)
    \/ \E g \in Guest : Resolve(g) \/ GuestLeaves(g)

Spec == Init /\ [][Next]_vars

-------------------------------------------------------------------------------
(* Properties.                                                             *)

Replaced == generation' # generation

SameMark(l) == l \in checked <=> l \in checked'

\* A refresh keeps the check mark of every line that stays on the list, as
\* it is when the refresh takes effect, however toggles, plan edits and other
\* refreshes interleave with it; lines a guest has just toggled excepted.
RefreshKeepsMarks ==
    [][Replaced => \A l \in (items \cap items') \ unversioned : SameMark(l)]_vars

\* No refresh replaces items aggregated from a newer meal plan by items from
\* an older one, in whatever order concurrent refreshes are written.
NoOlderPlan == [][basis' >= basis]_vars

\* Claimed by the exit gate of the phase plan: refresh and toggles do not
\* lose data silently.  A guest's toggle leaves the version alone, so a
\* refresh that read the list before it puts the old mark back.
MarksAreKept == [][Replaced => \A l \in items \cap items' : SameMark(l)]_vars
=============================================================================
