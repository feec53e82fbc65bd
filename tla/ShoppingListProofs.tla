-------------------------- MODULE ShoppingListProofs --------------------------
(***************************************************************************)
(* What holds of a shopping list for any set of lines, members and guests  *)
(* and any number of edits, toggles and refreshes.                         *)
(***************************************************************************)
EXTENDS ShoppingList, TLAPS

USE DEF mealPlan, list, requests

\* A refresh that could still be written remembers the check marks as they
\* are, but for the lines guests have toggled, and aggregated a plan no older
\* than the list's.
Coherent(r) ==
    r # NoRefresh /\ r.version = version =>
        /\ \A l \in Line \ unversioned : l \in r.checked <=> l \in checked
        /\ r.at = "plan" => basis <= r.basis

IInv == /\ ListTypeOK
        /\ \A m \in Member : Coherent(refresh[m])

-------------------------------------------------------------------------------
\* A request that is not the one written keeps its type when the version and
\* the plan's version only grow.
LEMMA RefreshTypeKept ==
    ASSUME ListTypeOK, NEW m \in Member,
           version' \in Nat, version' >= version,
           edits' \in 0 .. EditBound, edits' >= edits
    PROVE  refresh[m] \in
              {NoRefresh}
              \cup [at : {"list"}, version : 0 .. version', checked : SUBSET Line]
              \cup [at : {"plan"}, version : 0 .. version', checked : SUBSET Line,
                    items : SUBSET Line, basis : 0 .. edits']
<1>1. 0 .. version \subseteq 0 .. version' /\ 0 .. edits \subseteq 0 .. edits'
  BY BoundAssumption DEF ListTypeOK
<1>2. CASE refresh[m] = NoRefresh
  BY <1>2
<1>3. CASE refresh[m] \in
              [at : {"list"}, version : 0 .. version, checked : SUBSET Line]
  BY <1>1, <1>3
<1>4. CASE refresh[m] \in
              [at : {"plan"}, version : 0 .. version, checked : SUBSET Line,
               items : SUBSET Line, basis : 0 .. edits]
  BY <1>1, <1>4
<1>5. QED
  BY <1>2, <1>3, <1>4 DEF ListTypeOK

\* What a stage of a request holds.
LEMMA RefreshShape ==
    ASSUME ListTypeOK, NEW m \in Member, refresh[m] # NoRefresh
    PROVE  /\ refresh[m].version \in 0 .. version
           /\ refresh[m].checked \in SUBSET Line
           /\ refresh[m].at = "plan" => /\ refresh[m].items \in SUBSET Line
                                        /\ refresh[m].basis \in 0 .. edits
  BY DEF ListTypeOK

LEMMA TypeStep ==
    ASSUME ListTypeOK, [Next]_vars
    PROVE  ListTypeOK'
<1> USE BoundAssumption
<1>1. CASE EditPlan
  <2>1. /\ edits' \in 0 .. EditBound /\ edits' >= edits
        /\ basis' \in 0 .. edits'
    BY <1>1 DEF EditPlan, ListTypeOK
  <2>2. UNCHANGED <<version, refresh>>
    BY <1>1 DEF EditPlan
  <2>3. \A m \in Member : refresh'[m] \in
              {NoRefresh}
              \cup [at : {"list"}, version : 0 .. version', checked : SUBSET Line]
              \cup [at : {"plan"}, version : 0 .. version', checked : SUBSET Line,
                    items : SUBSET Line, basis : 0 .. edits']
    BY <2>1, <2>2, RefreshTypeKept DEF ListTypeOK
  <2>4. QED
    BY <1>1, <2>1, <2>2, <2>3 DEF EditPlan, ListTypeOK
<1>2. ASSUME NEW m \in Member, ReadList(m)
      PROVE  ListTypeOK'
  BY <1>2 DEF ReadList, SetRefresh, ListTypeOK
<1>3. ASSUME NEW m \in Member, Aggregate(m)
      PROVE  ListTypeOK'
  <2>1. refresh[m] # NoRefresh
    BY <1>3 DEF Aggregate, NoRefresh
  <2>2. [at |-> "plan", version |-> refresh[m].version,
         checked |-> refresh[m].checked, items |-> plan, basis |-> edits]
        \in [at : {"plan"}, version : 0 .. version, checked : SUBSET Line,
             items : SUBSET Line, basis : 0 .. edits]
    BY <2>1, RefreshShape DEF ListTypeOK
  <2>3. QED
    BY <1>3, <2>2 DEF Aggregate, SetRefresh, ListTypeOK
<1>4. ASSUME NEW m \in Member, WriteList(m)
      PROVE  ListTypeOK'
  <2>1. /\ refresh[m] # NoRefresh
        /\ refresh[m].items \in SUBSET Line /\ refresh[m].basis \in 0 .. edits
    BY <1>4, RefreshShape DEF WriteList, NoRefresh
  <2>2. version' \in Nat /\ version' >= version /\ UNCHANGED edits
    BY <1>4 DEF WriteList, ListTypeOK
  <2>3. \A k \in Member : refresh'[k] \in
              {NoRefresh}
              \cup [at : {"list"}, version : 0 .. version', checked : SUBSET Line]
              \cup [at : {"plan"}, version : 0 .. version', checked : SUBSET Line,
                    items : SUBSET Line, basis : 0 .. edits']
    BY <1>4, <2>2, RefreshTypeKept DEF WriteList, SetRefresh, ListTypeOK
  <2>4. refresh' = [k \in Member |-> refresh'[k]]
    BY <1>4 DEF WriteList, SetRefresh, ListTypeOK
  <2>5. /\ items' \subseteq Line /\ checked' \subseteq items'
        /\ generation' \in Nat /\ basis' \in 0 .. edits'
        /\ unversioned' \subseteq Line
    <3>1. CASE Unchanged(refresh[m].version)
      BY <1>4, <2>1, <3>1 DEF WriteList, ListTypeOK
    <3>2. CASE ~ Unchanged(refresh[m].version)
      BY <1>4, <3>2 DEF WriteList, ListTypeOK
    <3>3. QED
      BY <3>1, <3>2
  <2>6. QED
    BY <1>4, <2>2, <2>3, <2>4, <2>5 DEF WriteList, ListTypeOK
<1>5. ASSUME NEW m \in Member, AbandonRefresh(m)
      PROVE  ListTypeOK'
  BY <1>5 DEF AbandonRefresh, SetRefresh, ListTypeOK
<1>6. ASSUME NEW l \in Line, NEW mark \in BOOLEAN, Toggle(l, mark)
      PROVE  ListTypeOK'
  <2>1. version' \in Nat /\ version' >= version /\ UNCHANGED <<edits, refresh>>
    BY <1>6 DEF Toggle, ListTypeOK
  <2>2. \A k \in Member : refresh'[k] \in
              {NoRefresh}
              \cup [at : {"list"}, version : 0 .. version', checked : SUBSET Line]
              \cup [at : {"plan"}, version : 0 .. version', checked : SUBSET Line,
                    items : SUBSET Line, basis : 0 .. edits']
    BY <2>1, RefreshTypeKept DEF ListTypeOK
  <2>3. QED
    BY <1>6, <2>1, <2>2 DEF Toggle, SetMark, ListTypeOK
<1>7. ASSUME NEW g \in Guest, NEW l \in Line, NEW mark \in BOOLEAN,
             GuestToggle(g, l, mark)
      PROVE  ListTypeOK'
  BY <1>7 DEF GuestToggle, SetMark, ListTypeOK
<1>8. ASSUME NEW g \in Guest, Resolve(g) \/ GuestLeaves(g)
      PROVE  ListTypeOK'
  BY <1>8 DEF Resolve, GuestLeaves, ListTypeOK
<1>9. CASE Revoke
  BY <1>9 DEF Revoke, ListTypeOK
<1>10. CASE UNCHANGED vars
  BY <1>10 DEF vars, ListTypeOK
<1>11. QED
  BY <1>1, <1>2, <1>3, <1>4, <1>5, <1>6, <1>7, <1>8, <1>9, <1>10 DEF Next

-------------------------------------------------------------------------------
\* A request stays coherent as long as a step neither rewrites it nor changes
\* what it remembers without the version.
LEMMA CoherentKept ==
    ASSUME IInv, NEW m \in Member, refresh'[m] = refresh[m],
           \/ version' > version
           \/ /\ version' = version /\ basis' = basis
              /\ unversioned \subseteq unversioned'
              /\ \A l \in Line \ unversioned' : l \in checked' <=> l \in checked
    PROVE  Coherent(refresh[m])'
<1>1. refresh[m] # NoRefresh => refresh[m].version \in 0 .. version
  BY RefreshShape DEF IInv
<1>2. CASE version' > version
  BY <1>1, <1>2 DEF IInv, ListTypeOK, Coherent
<1>3. CASE /\ version' = version /\ basis' = basis
           /\ unversioned \subseteq unversioned'
           /\ \A l \in Line \ unversioned' : l \in checked' <=> l \in checked
  <2>1. Coherent(refresh[m])
    BY DEF IInv
  <2>2. QED
    BY <1>3, <2>1 DEF Coherent
<1>4. QED
  BY <1>2, <1>3

LEMMA CoherentStep ==
    ASSUME IInv, [Next]_vars, NEW k \in Member
    PROVE  Coherent(refresh[k])'
<1> USE DEF IInv
<1>1. ASSUME NEW m \in Member, ReadList(m)
      PROVE  Coherent(refresh[k])'
  <2>1. CASE k = m
    BY <1>1, <2>1 DEF ReadList, SetRefresh, ListTypeOK, Coherent
  <2>2. CASE k # m
    BY <1>1, <2>2, CoherentKept DEF ReadList, SetRefresh, ListTypeOK
  <2>3. QED
    BY <2>1, <2>2
<1>2. ASSUME NEW m \in Member, Aggregate(m)
      PROVE  Coherent(refresh[k])'
  <2>1. CASE k = m
    <3>1. refresh'[k] = [at |-> "plan", version |-> refresh[m].version,
                         checked |-> refresh[m].checked,
                         items |-> plan, basis |-> edits]
      BY <1>2, <2>1 DEF Aggregate, SetRefresh, ListTypeOK
    <3>2. refresh[m] # NoRefresh /\ Coherent(refresh[m]) /\ basis <= edits
      BY <1>2 DEF Aggregate, NoRefresh, ListTypeOK
    <3>3. QED
      BY <1>2, <3>1, <3>2 DEF Aggregate, Coherent
  <2>2. CASE k # m
    BY <1>2, <2>2, CoherentKept DEF Aggregate, SetRefresh, ListTypeOK
  <2>3. QED
    BY <2>1, <2>2
<1>3. ASSUME NEW m \in Member, WriteList(m) \/ AbandonRefresh(m)
      PROVE  Coherent(refresh[k])'
  <2>1. CASE k = m
    BY <1>3, <2>1 DEF WriteList, AbandonRefresh, SetRefresh, ListTypeOK,
                      Coherent
  <2>2. CASE k # m
    <3>1. refresh'[k] = refresh[k]
      BY <1>3, <2>2 DEF WriteList, AbandonRefresh, SetRefresh, ListTypeOK
    <3>2. version' > version
          \/ UNCHANGED <<version, basis, unversioned, checked>>
      BY <1>3 DEF WriteList, AbandonRefresh, ListTypeOK
    <3>3. QED
      BY <3>1, <3>2, CoherentKept
  <2>3. QED
    BY <2>1, <2>2
<1>4. ASSUME NEW l \in Line, NEW mark \in BOOLEAN, Toggle(l, mark)
      PROVE  Coherent(refresh[k])'
  <2>1. version' > version /\ refresh' = refresh
    BY <1>4 DEF Toggle, ListTypeOK
  <2>2. QED
    BY <2>1, CoherentKept
<1>5. ASSUME NEW g \in Guest, NEW l \in Line, NEW mark \in BOOLEAN,
             GuestToggle(g, l, mark)
      PROVE  Coherent(refresh[k])'
  <2>1. /\ UNCHANGED <<version, basis, refresh>>
        /\ unversioned' = unversioned \cup {l}
        /\ \A x \in Line \ unversioned' : x \in checked' <=> x \in checked
    BY <1>5 DEF GuestToggle, SetMark
  <2>2. QED
    BY <2>1, CoherentKept
<1>6. CASE UNCHANGED <<version, basis, unversioned, checked, refresh>>
  BY <1>6, CoherentKept
<1>7. QED
  BY <1>1, <1>2, <1>3, <1>4, <1>5, <1>6
     DEF Next, vars, EditPlan, Resolve, GuestLeaves, Revoke

LEMMA Inductive == Spec => []IInv
<1>1. ASSUME Init
      PROVE  IInv
  BY <1>1, BoundAssumption DEF Init, IInv, ListTypeOK, Coherent
<1>2. IInv /\ [Next]_vars => IInv'
  BY TypeStep, CoherentStep DEF IInv
<1>3. QED
  BY <1>1, <1>2, PTL DEF Spec

\* Type correctness of the list and of the requests on it.
THEOREM ListTypeCorrect == Spec => []ListTypeOK
<1>1. IInv => ListTypeOK
  BY DEF IInv
<1>2. QED
  BY <1>1, Inductive, PTL

\* Of all steps only the write of a refresh replaces the items.
LEMMA OnlyWrites ==
    ASSUME ListTypeOK, [Next]_vars, generation' # generation \/ basis' # basis
    PROVE  \E m \in Member : /\ WriteList(m)
                             /\ Unchanged(refresh[m].version)
  BY DEF Next, vars, EditPlan, ReadList, Aggregate, WriteList, AbandonRefresh,
         Toggle, GuestToggle, SetMark, Resolve, GuestLeaves, Revoke

\* A refresh keeps the check mark of every line that stays, but for lines a
\* guest toggled, whatever else happened since it read the list.
THEOREM RefreshKeepsMarksHolds == Spec => RefreshKeepsMarks
<1>1. ASSUME IInv, [Next]_vars, Replaced,
             NEW l \in (items \cap items') \ unversioned
      PROVE  SameMark(l)
  <2>1. PICK m \in Member : WriteList(m) /\ Unchanged(refresh[m].version)
    BY <1>1, OnlyWrites DEF IInv, Replaced
  <2>2. /\ refresh[m] # NoRefresh /\ refresh[m].version = version
        /\ items' = refresh[m].items
        /\ checked' = refresh[m].checked \cap refresh[m].items
    BY <2>1 DEF WriteList, Unchanged, NoRefresh
  <2>3. l \in Line /\ Coherent(refresh[m])
    BY <1>1 DEF IInv, ListTypeOK
  <2>4. l \in refresh[m].checked <=> l \in checked
    BY <1>1, <2>2, <2>3 DEF Coherent
  <2>5. QED
    BY <1>1, <2>2, <2>4 DEF SameMark
<1>2. IInv /\ [Next]_vars
      => [Replaced => \A l \in (items \cap items') \ unversioned :
                          SameMark(l)]_vars
  BY <1>1
<1>3. QED
  BY <1>2, Inductive, PTL DEF Spec, RefreshKeepsMarks

\* The items never go back to an older meal plan.
THEOREM NoOlderPlanHolds == Spec => NoOlderPlan
<1>1. ASSUME IInv, [Next]_vars
      PROVE  basis' >= basis
  <2>1. CASE basis' = basis
    BY <1>1, <2>1 DEF IInv, ListTypeOK
  <2>2. CASE basis' # basis
    <3>1. PICK m \in Member : WriteList(m) /\ Unchanged(refresh[m].version)
      BY <1>1, <2>2, OnlyWrites DEF IInv
    <3>2. /\ refresh[m] # NoRefresh /\ refresh[m].version = version
          /\ refresh[m].at = "plan" /\ basis' = refresh[m].basis
      BY <3>1 DEF WriteList, Unchanged, NoRefresh
    <3>3. basis <= refresh[m].basis
      BY <1>1, <3>2 DEF IInv, Coherent
    <3>4. basis \in Nat /\ refresh[m].basis \in Nat
      BY <1>1, <3>2, RefreshShape DEF IInv, ListTypeOK
    <3>5. QED
      BY <3>2, <3>3, <3>4
  <2>3. QED
    BY <2>1, <2>2
<1>2. IInv /\ [Next]_vars => [basis' >= basis]_vars
  BY <1>1
<1>3. QED
  BY <1>2, Inductive, PTL DEF Spec, NoOlderPlan
===============================================================================
