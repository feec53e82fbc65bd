------------------------- MODULE CatalogImportProofs -------------------------
(* What holds of the catalogue import of the Kotlin backend for any file, batch *)
(* size, limits and number of interruptions: the first row of an id wins, and   *)
(* what is behind the checkpoint is accounted for as long as no exception       *)
(* reached the catch block.                                                     *)
EXTENDS CatalogImport, FiniteSetTheorems, TLAPS

-------------------------------------------------------------------------------
(* Types, and the rows that are stored.                                        *)

Place == {"off", "reading", "recipes", "issues", "checkpoint", "finishing"}

ImportTypeOK ==
    /\ file \in [Row -> [id : RecipeId \cup {NoId}, valid : BOOLEAN]]
    /\ recipes \in [RecipeId -> 0 .. Rows]
    /\ issues \subseteq Row
    /\ run \in [status : {"absent", "running", "failed", "paused", "completed"}, checkpoint : 0 .. Rows,
                imported : Nat, rejected : Nat]
    /\ proc \in [at : Place, limit : Limit \cup {Unlimited}, start : 0 .. Rows, row : 0 .. Rows,
                 imported : Nat, pending : SUBSET Row, final : BOOLEAN]
    /\ exceptions \in Nat /\ crashes \in Nat

-------------------------------------------------------------------------------
(* What the checkpoint covers.                                                 *)

\* Until it has passed the rows it skips, an importer has neither a batch nor
\* anything imported; from there on its batch are the rows since the checkpoint.
BatchIsSinceCheckpoint ==
    proc.at # "off" =>
        /\ proc.pending = run.checkpoint + 1 .. proc.row
        /\ proc.start <= run.checkpoint
        /\ proc.row <= proc.start => proc.imported = 0
        /\ IF proc.row < proc.start THEN proc.at = "reading" /\ run.checkpoint = proc.start
                                    ELSE run.checkpoint <= proc.row

\* How much of the batch is stored, by how far the flush got.
FlushIsStored ==
    /\ proc.at \in {"issues", "checkpoint"} => \A r \in ToStore : recipes[file[r].id] = r
    /\ proc.at = "checkpoint" => ToReject \subseteq issues

\* An importer finishes at the end, or at its limit, with nothing left to flush.
EndIsFlushed ==
    /\ proc.at # "off" => run.status = "running"
    /\ proc.final /\ proc.at \in {"recipes", "issues", "checkpoint"} => Ended
    /\ proc.at = "finishing" => Ended /\ run.checkpoint = proc.row

ResumeInv ==
    exceptions = 0 => BatchIsSinceCheckpoint /\ FlushIsStored /\ EndIsFlushed /\ CheckpointCovers

ImportInv == ImportTypeOK /\ FirstRowWins /\ ResumeInv

-------------------------------------------------------------------------------
(* What a row comes to, and how rows are counted.                              *)

\* Of the rows that carry an id, one is accepted.
LEMMA AcceptedIsFirst ==
    ASSUME NEW r \in Row, NEW q \in Row, Accepted(r), Accepted(q), file[r].id = file[q].id
    PROVE  r = q
<1>1. ~ r < q /\ ~ q < r
  BY ImportAssumption DEF Accepted, Duplicate, Row
<1>2. QED
  BY <1>1, ImportAssumption DEF Row

\* A bulk write of accepted rows, the whole of a flush or a part of it, keeps the
\* first row of every id, and no stored row is replaced.
LEMMA StoredRows ==
    ASSUME ImportTypeOK, FirstRowWins, UNCHANGED file,
           NEW S \in SUBSET Row, \A r \in S : Accepted(r), StoreRecipes(S)
    PROVE  /\ recipes' \in [RecipeId -> 0 .. Rows]
           /\ FirstRowWins'
           /\ \A r \in Row : Accepted(r) /\ (r \in S \/ recipes[file[r].id] = r) => recipes'[file[r].id] = r
<1>1. ASSUME NEW i \in RecipeId
      PROVE  IF \E r \in S : file[r].id = i
             THEN recipes'[i] \in S /\ file[recipes'[i]].id = i
             ELSE recipes'[i] = recipes[i]
  BY DEF StoreRecipes
<1>2. recipes' \in [RecipeId -> 0 .. Rows]
  <2>1. ASSUME NEW i \in RecipeId
        PROVE  recipes'[i] \in 0 .. Rows
    <3>1. \A r \in S : r \in 0 .. Rows
      BY ImportAssumption DEF Row
    <3>2. recipes[i] \in 0 .. Rows
      BY DEF ImportTypeOK
    <3>3. QED
      BY <1>1, <3>1, <3>2
  <2>2. QED
    BY <2>1 DEF StoreRecipes
<1>3. FirstRowWins'
  <2>1. ASSUME NEW i \in RecipeId, \E r \in S : file[r].id = i
        PROVE  /\ file[recipes'[i]].id = i /\ file[recipes'[i]].valid
               /\ \A q \in 1 .. recipes'[i] - 1 : file[q].id # i
    BY <1>1, <2>1 DEF Accepted, Duplicate
  <2>2. ASSUME NEW i \in RecipeId, ~ \E r \in S : file[r].id = i
        PROVE  recipes'[i] = recipes[i]
    BY <1>1, <2>2
  <2>3. QED
    BY <2>1, <2>2 DEF FirstRowWins
<1>4. ASSUME NEW r \in Row, Accepted(r), r \in S \/ recipes[file[r].id] = r
      PROVE  recipes'[file[r].id] = r
  <2>1. file[r].id \in RecipeId
    BY <1>4 DEF Accepted, ImportTypeOK
  <2>2. CASE \E q \in S : file[q].id = file[r].id
    BY <1>1, <1>4, <2>1, <2>2, AcceptedIsFirst
  <2>3. CASE ~ \E q \in S : file[q].id = file[r].id
    BY <1>1, <1>4, <2>1, <2>3
  <2>4. QED
    BY <2>2, <2>3
<1>5. QED
  BY <1>2, <1>3, <1>4

\* A write that is cut short keeps what is accounted for as well.
LEMMA CutShortKeeps ==
    ASSUME ImportTypeOK, FirstRowWins, UNCHANGED file, CutShort
    PROVE  /\ recipes' \in [RecipeId -> 0 .. Rows] /\ issues' \subseteq Row
           /\ FirstRowWins'
           /\ \A r \in Row : Accounted(r) => Accounted(r)'
<1>a. \A r \in Row : Accepted(r)' <=> Accepted(r)
  BY DEF Accepted, Duplicate
<1>1. CASE (\E S \in SUBSET ToStore : StoreRecipes(S)) /\ UNCHANGED issues
  <2>1. PICK S \in SUBSET ToStore : StoreRecipes(S)
    BY <1>1
  <2>2. S \in SUBSET Row /\ \A r \in S : Accepted(r)
    BY DEF ToStore, ImportTypeOK
  <2>3. QED
    BY <1>1, <1>a, <2>1, <2>2, StoredRows DEF Accounted, ImportTypeOK
<1>2. CASE (\E S \in SUBSET ToReject : issues' = issues \cup S) /\ UNCHANGED recipes
  BY <1>2, <1>a DEF ToReject, ImportTypeOK, FirstRowWins, Accounted
<1>3. CASE UNCHANGED stored
  BY <1>3, <1>a DEF stored, ImportTypeOK, FirstRowWins, Accounted
<1>4. QED
  BY <1>1, <1>2, <1>3 DEF CutShort

\* The rows up to b are those up to a and those after, accepted and rejected.
LEMMA CountRows ==
    ASSUME NEW a \in 0 .. Rows, NEW b \in 0 .. Rows, a <= b
    PROVE  LET Upto(n)  == {r \in 1 .. n : Accepted(r)}
               Stored   == {r \in a + 1 .. b : Accepted(r)}
               Rejected == {r \in a + 1 .. b : ~ Accepted(r)}
           IN  /\ Cardinality(Stored) \in Nat /\ Cardinality(Rejected) \in Nat
               /\ Cardinality(Upto(b)) = Cardinality(Upto(a)) + Cardinality(Stored)
               /\ Cardinality(Stored) + Cardinality(Rejected) = b - a
<1> DEFINE Upto(n)  == {r \in 1 .. n : Accepted(r)}
           Stored   == {r \in a + 1 .. b : Accepted(r)}
           Rejected == {r \in a + 1 .. b : ~ Accepted(r)}
<1>0. a \in Nat /\ b \in Nat
  BY ImportAssumption
<1>1. /\ IsFiniteSet(1 .. a) /\ IsFiniteSet(a + 1 .. b) /\ Cardinality(a + 1 .. b) = b - a
  <2>1. 1 \in Int /\ a \in Int /\ b \in Int /\ a + 1 \in Int
    BY <1>0
  <2>2. IsFiniteSet(1 .. a) /\ IsFiniteSet(a + 1 .. b)
    BY <2>1, FS_Interval
  <2>3. Cardinality(a + 1 .. b) = IF a + 1 > b THEN 0 ELSE b - (a + 1) + 1
    BY <2>1, FS_Interval
  <2>4. QED
    BY <1>0, <2>2, <2>3
<1>2. IsFiniteSet(Upto(a)) /\ IsFiniteSet(Stored) /\ IsFiniteSet(Rejected)
  <2>1. Upto(a) \in SUBSET (1 .. a) /\ Stored \in SUBSET (a + 1 .. b) /\ Rejected \in SUBSET (a + 1 .. b)
    OBVIOUS
  <2>2. QED
    BY <1>1, <2>1, FS_Subset
<1>3. Upto(b) = Upto(a) \cup Stored /\ Upto(a) \cap Stored = {}
  BY <1>0
<1>4. a + 1 .. b = Stored \cup Rejected /\ Stored \cap Rejected = {}
  OBVIOUS
<1>5. /\ Cardinality(Stored) \in Nat /\ Cardinality(Rejected) \in Nat /\ Cardinality(Upto(a)) \in Nat
      /\ Cardinality({}) = 0
  BY <1>2, FS_CardinalityType, FS_EmptySet
<1> HIDE DEF Upto, Stored, Rejected
<1>6. Cardinality(Upto(b)) = Cardinality(Upto(a)) + Cardinality(Stored)
  <2>1. Cardinality(Upto(a) \cup Stored) =
            Cardinality(Upto(a)) + Cardinality(Stored) - Cardinality(Upto(a) \cap Stored)
    BY <1>2, FS_Union
  <2>2. QED
    BY <1>3, <1>5, <2>1
<1>7. Cardinality(Stored) + Cardinality(Rejected) = b - a
  <2>1. Cardinality(Stored \cup Rejected) =
            Cardinality(Stored) + Cardinality(Rejected) - Cardinality(Stored \cap Rejected)
    BY <1>2, FS_Union
  <2>2. Cardinality(Stored \cup Rejected) = b - a /\ Cardinality(Stored \cap Rejected) = 0
    BY <1>1, <1>4, <1>5
  <2>3. QED
    BY <1>0, <1>5, <2>1, <2>2
<1>8. QED
  BY <1>5, <1>6, <1>7 DEF Upto, Stored, Rejected

-------------------------------------------------------------------------------
(* The importer keeps the invariant.                                           *)

LEMMA ImportInitially == Init => ImportInv
<1> SUFFICES ASSUME Init PROVE ImportInv
  OBVIOUS
<1>1. ImportTypeOK
  BY ImportAssumption DEF Init, ImportTypeOK, Off, Place
<1>2. FirstRowWins
  BY DEF Init, FirstRowWins
<1>3. BatchIsSinceCheckpoint /\ FlushIsStored /\ EndIsFlushed
  BY DEF Init, BatchIsSinceCheckpoint, FlushIsStored, EndIsFlushed, Off
<1>4. CheckpointCovers
  <2>1. {r \in 1 .. 0 : Accepted(r)} = {}
    OBVIOUS
  <2>2. run.checkpoint = 0 /\ run.imported = 0 /\ run.rejected = 0 /\ run.status # "completed"
    BY DEF Init
  <2>3. QED
    BY <2>1, <2>2, FS_EmptySet DEF CheckpointCovers
<1>5. QED
  BY <1>1, <1>2, <1>3, <1>4 DEF ImportInv, ResumeInv

\* What is covered stays covered when the checkpoint and the counts stay.
LEMMA CoverageStays ==
    ASSUME ImportTypeOK, CheckpointCovers, UNCHANGED file, exceptions' = exceptions,
           \A r \in Row : Accounted(r) => Accounted(r)',
           run'.checkpoint = run.checkpoint, run'.imported = run.imported, run'.rejected = run.rejected,
           run'.status = "completed" => run.status = "completed" \/ run.checkpoint = Rows
    PROVE  CheckpointCovers'
<1>1. \A r : Accepted(r)' <=> Accepted(r)
  BY DEF Accepted, Duplicate
<1>2. {r \in 1 .. run.checkpoint : Accepted(r)}' = {r \in 1 .. run.checkpoint : Accepted(r)}
  BY <1>1
<1>3. 1 .. run.checkpoint \subseteq Row
  BY ImportAssumption DEF ImportTypeOK, Row
<1>4. QED
  BY <1>2, <1>3 DEF CheckpointCovers

\* Nothing is flushed, and nothing finishes, while rows are skipped.
LEMMA SkipsFirst ==
    ASSUME ImportTypeOK, BatchIsSinceCheckpoint, proc.at = "reading", Full \/ Ended
    PROVE  run.checkpoint <= proc.row
<1> SUFFICES ASSUME proc.row < proc.start PROVE FALSE
  BY DEF BatchIsSinceCheckpoint
<1>1. /\ proc.pending = run.checkpoint + 1 .. proc.row /\ run.checkpoint = proc.start
      /\ proc.row \in 0 .. Rows /\ proc.start \in 0 .. Rows
      /\ proc.imported = 0
  BY DEF BatchIsSinceCheckpoint, ImportTypeOK
<1>2. proc.pending = {}
  BY <1>1, ImportAssumption
<1>3. ~ Full
  BY <1>2, FS_EmptySet, ImportAssumption DEF Full
<1>4. ~ Ended
  <2>1. proc.limit # Unlimited => proc.limit \in Nat \ {0}
    BY ImportAssumption DEF ImportTypeOK
  <2>2. proc.row # Rows /\ (proc.limit # Unlimited => ~ (proc.imported >= proc.limit))
    BY <1>1, <2>1, ImportAssumption
  <2>3. QED
    BY <2>2 DEF Ended, Limited
<1>5. QED
  BY <1>3, <1>4

LEMMA ImportKept ==
    ASSUME ImportInv, [Next]_vars
    PROVE  ImportInv'
<1>k. ImportTypeOK /\ FirstRowWins /\ ResumeInv
  BY DEF ImportInv
<1>f. UNCHANGED file
  BY DEF Next, Work, Start, ReadRow, BeginFlush, FlushRecipes, FlushIssues, Checkpoint, Finish, Catch, Crash, vars
<1>a. \A r : Accepted(r)' <=> Accepted(r)
  BY <1>f DEF Accepted, Duplicate
<1>s. ASSUME UNCHANGED stored
      PROVE  FirstRowWins' /\ \A r \in Row : Accounted(r) => Accounted(r)'
  BY <1>a, <1>f, <1>k, <1>s DEF stored, FirstRowWins, Accounted
<1>e. ASSUME ImportTypeOK', FirstRowWins',
             exceptions' = 0 => BatchIsSinceCheckpoint' /\ FlushIsStored' /\ EndIsFlushed' /\ CheckpointCovers'
      PROVE  ImportInv'
  BY <1>e DEF ImportInv, ResumeInv
<1>1. ASSUME NEW limit \in Limit \cup {Unlimited}, Start(limit)
      PROVE  ImportInv'
  <2>1. /\ run' = [run EXCEPT !.status = "running"] /\ run.checkpoint \in 0 .. Rows
        /\ run'.checkpoint = run.checkpoint /\ run'.imported = run.imported /\ run'.rejected = run.rejected
        /\ run'.status = "running"
        /\ proc' = [at |-> "reading", limit |-> limit, start |-> run.checkpoint, row |-> 0,
                    imported |-> 0, pending |-> {}, final |-> FALSE]
        /\ UNCHANGED <<stored, exceptions, crashes>>
    BY <1>1, <1>k DEF Start, ImportTypeOK, Off, bounds
  <2>2. ImportTypeOK'
    BY <1>f, <1>k, <2>1, ImportAssumption DEF ImportTypeOK, stored, Place
  <2>3. BatchIsSinceCheckpoint' /\ FlushIsStored' /\ EndIsFlushed'
    <3>1. {} = run.checkpoint + 1 .. 0
      BY <2>1, ImportAssumption
    <3>2. BatchIsSinceCheckpoint'
      BY <2>1, <3>1, ImportAssumption DEF BatchIsSinceCheckpoint
    <3>3. QED
      BY <2>1, <3>2 DEF FlushIsStored, EndIsFlushed
  <2>4. CheckpointCovers \/ exceptions # 0
    BY <1>k DEF ResumeInv
  <2>5. exceptions = 0 => CheckpointCovers'
    BY <1>f, <1>k, <1>s, <2>1, <2>4, CoverageStays
  <2>6. QED
    BY <1>e, <1>s, <2>1, <2>2, <2>3, <2>5
<1>2. ASSUME ReadRow
      PROVE  ImportInv'
  <2> DEFINE r == proc.row + 1
  <2>1. /\ proc.at = "reading" /\ ~ Ended /\ UNCHANGED <<stored, run, exceptions, crashes>>
        /\ proc' = IF r <= proc.start
                   THEN [proc EXCEPT !.row = r]
                   ELSE [proc EXCEPT !.row = r, !.pending = @ \cup {r},
                                     !.imported = IF Accepted(r) THEN @ + 1 ELSE @]
    BY <1>2 DEF ReadRow, bounds
  <2>2. r \in 1 .. Rows /\ r \in Row
    BY <1>k, <2>1, ImportAssumption DEF ImportTypeOK, Ended, Row
  <2>3. ImportTypeOK'
    <3>1. proc' \in [at : Place, limit : Limit \cup {Unlimited}, start : 0 .. Rows, row : 0 .. Rows,
                     imported : Nat, pending : SUBSET Row, final : BOOLEAN]
      <4>1. r \in 0 .. Rows /\ proc.pending \cup {r} \subseteq Row
            /\ (IF Accepted(r) THEN proc.imported + 1 ELSE proc.imported) \in Nat
        BY <1>k, <2>2, ImportAssumption DEF ImportTypeOK
      <4> HIDE DEF r
      <4>2. CASE r <= proc.start
        BY <1>k, <2>1, <4>1, <4>2 DEF ImportTypeOK
      <4>3. CASE ~ (r <= proc.start)
        BY <1>k, <2>1, <4>1, <4>3 DEF ImportTypeOK
      <4>4. QED
        BY <4>2, <4>3
    <3>2. QED
      BY <1>f, <1>k, <2>1, <3>1 DEF ImportTypeOK, stored
  <2>4. /\ proc'.at = "reading" /\ proc'.row = r /\ proc'.start = proc.start
        /\ r <= proc.start => proc'.pending = proc.pending /\ proc'.imported = proc.imported
        /\ ~ (r <= proc.start) => proc'.pending = proc.pending \cup {r}
    BY <1>k, <2>1 DEF ImportTypeOK
  <2>5. ASSUME exceptions = 0
        PROVE  BatchIsSinceCheckpoint'
    <3>1. /\ proc.pending = run.checkpoint + 1 .. proc.row /\ proc.start <= run.checkpoint
          /\ proc.row <= proc.start => proc.imported = 0
          /\ IF proc.row < proc.start THEN run.checkpoint = proc.start ELSE run.checkpoint <= proc.row
          /\ proc.row \in Nat /\ proc.start \in Nat /\ run.checkpoint \in Nat
      BY <1>k, <2>1, <2>5, ImportAssumption DEF ResumeInv, BatchIsSinceCheckpoint, ImportTypeOK
    <3>2. CASE r <= proc.start
      <4>1. run.checkpoint + 1 .. proc.row = run.checkpoint + 1 .. r
        BY <3>1, <3>2
      <4>2. QED
        BY <2>1, <2>4, <3>1, <3>2, <4>1 DEF BatchIsSinceCheckpoint
    <3>3. CASE ~ (r <= proc.start)
      <4>1. (run.checkpoint + 1 .. proc.row) \cup {r} = run.checkpoint + 1 .. r
        BY <3>1, <3>3
      <4>2. QED
        BY <2>1, <2>4, <3>1, <3>3, <4>1 DEF BatchIsSinceCheckpoint
    <3>4. QED
      BY <3>2, <3>3
  <2>6. exceptions = 0 => FlushIsStored' /\ EndIsFlushed'
    BY <1>k, <2>1, <2>4 DEF ResumeInv, FlushIsStored, EndIsFlushed
  <2>7. exceptions = 0 => CheckpointCovers'
    BY <1>f, <1>k, <1>s, <2>1, CoverageStays DEF ResumeInv
  <2>8. QED
    BY <1>e, <1>s, <2>1, <2>3, <2>5, <2>6, <2>7
<1>3. ASSUME BeginFlush
      PROVE  ImportInv'
  <2>1. /\ proc.at = "reading" /\ (Full \/ Ended) /\ UNCHANGED <<stored, run, exceptions, crashes>>
        /\ proc' = [proc EXCEPT !.at = "recipes", !.final = ~ Full]
    BY <1>3 DEF BeginFlush, bounds
  <2>2. ImportTypeOK'
    BY <1>f, <1>k, <2>1 DEF ImportTypeOK, stored, Place
  <2>3. /\ proc'.at = "recipes" /\ proc'.final = (~ Full) /\ proc'.row = proc.row /\ proc'.start = proc.start
        /\ proc'.pending = proc.pending /\ proc'.imported = proc.imported /\ proc'.limit = proc.limit
    BY <1>k, <2>1 DEF ImportTypeOK
  <2>4. ASSUME exceptions = 0
        PROVE  BatchIsSinceCheckpoint' /\ FlushIsStored' /\ EndIsFlushed'
    <3>1. run.checkpoint <= proc.row /\ BatchIsSinceCheckpoint /\ EndIsFlushed
      BY <1>k, <2>1, <2>4, SkipsFirst DEF ResumeInv
    <3>2. proc.row \in Nat /\ proc.start \in Nat /\ run.checkpoint \in Nat
      BY <1>k, ImportAssumption DEF ImportTypeOK
    <3>3. BatchIsSinceCheckpoint'
      BY <2>1, <2>3, <3>1, <3>2 DEF BatchIsSinceCheckpoint
    <3>4. FlushIsStored' /\ EndIsFlushed'
      BY <2>1, <2>3, <3>1 DEF FlushIsStored, EndIsFlushed, Ended, Limited
    <3>5. QED
      BY <3>3, <3>4
  <2>5. exceptions = 0 => CheckpointCovers'
    BY <1>f, <1>k, <1>s, <2>1, CoverageStays DEF ResumeInv
  <2>6. QED
    BY <1>e, <1>s, <2>1, <2>2, <2>4, <2>5
<1>4. ASSUME FlushRecipes
      PROVE  ImportInv'
  <2>1. /\ proc.at = "recipes" /\ StoreRecipes(ToStore) /\ UNCHANGED <<issues, run, exceptions, crashes>>
        /\ proc' = [proc EXCEPT !.at = "issues"]
    BY <1>4 DEF FlushRecipes, bounds
  <2>2. ToStore \in SUBSET Row /\ \A r \in ToStore : Accepted(r)
    BY <1>k DEF ToStore, ImportTypeOK
  <2>3. /\ recipes' \in [RecipeId -> 0 .. Rows] /\ FirstRowWins'
        /\ \A r \in Row : Accepted(r) /\ (r \in ToStore \/ recipes[file[r].id] = r) => recipes'[file[r].id] = r
    BY <1>f, <1>k, <2>1, <2>2, StoredRows
  <2>4. ImportTypeOK'
    BY <1>f, <1>k, <2>1, <2>3 DEF ImportTypeOK, Place
  <2>5. /\ proc'.at = "issues" /\ proc'.final = proc.final /\ proc'.row = proc.row /\ proc'.start = proc.start
        /\ proc'.pending = proc.pending /\ proc'.imported = proc.imported /\ proc'.limit = proc.limit
    BY <1>k, <2>1 DEF ImportTypeOK
  <2>6. ASSUME exceptions = 0
        PROVE  BatchIsSinceCheckpoint' /\ FlushIsStored' /\ EndIsFlushed'
    <3>1. BatchIsSinceCheckpoint /\ EndIsFlushed
      BY <1>k, <2>6 DEF ResumeInv
    <3>2. BatchIsSinceCheckpoint' /\ EndIsFlushed'
      BY <2>1, <2>5, <3>1 DEF BatchIsSinceCheckpoint, EndIsFlushed, Ended, Limited
    <3>3. ToStore' = ToStore
      BY <1>a, <2>5 DEF ToStore
    <3>4. FlushIsStored'
      BY <1>f, <2>2, <2>3, <2>5, <3>3 DEF FlushIsStored
    <3>5. QED
      BY <3>2, <3>4
  <2>7. \A r \in Row : Accounted(r) => Accounted(r)'
    BY <1>a, <1>f, <2>1, <2>3 DEF Accounted
  <2>8. exceptions = 0 => CheckpointCovers'
    BY <1>f, <1>k, <2>1, <2>7, CoverageStays DEF ResumeInv
  <2>9. QED
    BY <1>e, <2>1, <2>3, <2>4, <2>6, <2>8
<1>5. ASSUME FlushIssues
      PROVE  ImportInv'
  <2>1. /\ proc.at = "issues" /\ issues' = issues \cup ToReject /\ UNCHANGED <<recipes, run, exceptions, crashes>>
        /\ proc' = [proc EXCEPT !.at = "checkpoint"]
    BY <1>5 DEF FlushIssues, bounds
  <2>2. ToReject \subseteq Row
    BY <1>k DEF ToReject, ImportTypeOK
  <2>3. ImportTypeOK'
    BY <1>f, <1>k, <2>1, <2>2 DEF ImportTypeOK, Place
  <2>4. /\ proc'.at = "checkpoint" /\ proc'.final = proc.final /\ proc'.row = proc.row
        /\ proc'.start = proc.start /\ proc'.limit = proc.limit
        /\ proc'.pending = proc.pending /\ proc'.imported = proc.imported
    BY <1>k, <2>1 DEF ImportTypeOK
  <2>5. ASSUME exceptions = 0
        PROVE  BatchIsSinceCheckpoint' /\ FlushIsStored' /\ EndIsFlushed'
    <3>1. BatchIsSinceCheckpoint /\ FlushIsStored /\ EndIsFlushed
      BY <1>k, <2>5 DEF ResumeInv
    <3>2. BatchIsSinceCheckpoint' /\ EndIsFlushed'
      BY <2>1, <2>4, <3>1 DEF BatchIsSinceCheckpoint, EndIsFlushed, Ended, Limited
    <3>3. ToStore' = ToStore /\ ToReject' = ToReject
      BY <1>a, <2>4 DEF ToStore, ToReject
    <3>4. FlushIsStored'
      BY <1>f, <2>1, <2>4, <3>1, <3>3 DEF FlushIsStored
    <3>5. QED
      BY <3>2, <3>4
  <2>6. \A r \in Row : Accounted(r) => Accounted(r)'
    BY <1>a, <1>f, <2>1 DEF Accounted
  <2>7. exceptions = 0 => CheckpointCovers'
    BY <1>f, <1>k, <2>1, <2>6, CoverageStays DEF ResumeInv
  <2>8. FirstRowWins'
    BY <1>f, <1>k, <2>1 DEF FirstRowWins
  <2>9. QED
    BY <1>e, <2>1, <2>3, <2>5, <2>7, <2>8
<1>6. ASSUME Checkpoint
      PROVE  ImportInv'
  <2>1. /\ proc.at = "checkpoint" /\ UNCHANGED <<stored, exceptions, crashes>>
        /\ run' = [run EXCEPT !.checkpoint = proc.row,
                              !.imported = @ + Cardinality(ToStore),
                              !.rejected = @ + Cardinality(ToReject)]
        /\ proc' = [proc EXCEPT !.at = IF proc.final THEN "finishing" ELSE "reading", !.pending = {}]
    BY <1>6 DEF Checkpoint, bounds
  <2>2. /\ run'.checkpoint = proc.row /\ run'.imported = run.imported + Cardinality(ToStore)
        /\ run'.rejected = run.rejected + Cardinality(ToReject) /\ run'.status = run.status
        /\ proc'.at = IF proc.final THEN "finishing" ELSE "reading"
        /\ proc'.final = proc.final /\ proc'.row = proc.row /\ proc'.start = proc.start
        /\ proc'.pending = {} /\ proc'.imported = proc.imported /\ proc'.limit = proc.limit
        /\ proc.row \in 0 .. Rows /\ proc.start \in 0 .. Rows /\ run.checkpoint \in 0 .. Rows
        /\ run.imported \in Nat /\ run.rejected \in Nat
    BY <1>k, <2>1 DEF ImportTypeOK
  <2>3. Cardinality(ToStore) \in Nat /\ Cardinality(ToReject) \in Nat
    <3>1. IsFiniteSet(Row)
      BY FS_Interval, ImportAssumption DEF Row
    <3>2. ToStore \in SUBSET Row /\ ToReject \in SUBSET Row
      BY <1>k DEF ToStore, ToReject, ImportTypeOK
    <3>3. QED
      BY <3>1, <3>2, FS_Subset, FS_CardinalityType
  <2>4. ImportTypeOK'
    <3>1. run' \in [status : {"absent", "running", "failed", "paused", "completed"}, checkpoint : 0 .. Rows,
                    imported : Nat, rejected : Nat]
      <4>1. /\ run.imported + Cardinality(ToStore) \in Nat /\ run.rejected + Cardinality(ToReject) \in Nat
        BY <2>2, <2>3
      <4>2. QED
        BY <1>k, <2>1, <2>2, <4>1 DEF ImportTypeOK
    <3>2. proc' \in [at : Place, limit : Limit \cup {Unlimited}, start : 0 .. Rows, row : 0 .. Rows,
                     imported : Nat, pending : SUBSET Row, final : BOOLEAN]
      BY <1>k, <2>1 DEF ImportTypeOK, Place
    <3>3. QED
      BY <1>f, <1>k, <2>1, <3>1, <3>2 DEF ImportTypeOK, stored
  <2>5. ASSUME exceptions = 0
        PROVE  BatchIsSinceCheckpoint' /\ FlushIsStored' /\ EndIsFlushed' /\ CheckpointCovers'
    <3>1. /\ BatchIsSinceCheckpoint /\ FlushIsStored /\ EndIsFlushed /\ CheckpointCovers
      BY <1>k, <2>5 DEF ResumeInv
    <3>2. /\ proc.pending = run.checkpoint + 1 .. proc.row /\ proc.start <= run.checkpoint
          /\ proc.row <= proc.start => proc.imported = 0
          /\ run.checkpoint <= proc.row /\ run.status = "running"
      BY <2>1, <3>1 DEF BatchIsSinceCheckpoint, EndIsFlushed
    <3>3. BatchIsSinceCheckpoint'
      <4>1. {} = proc.row + 1 .. proc.row
        BY <2>2, ImportAssumption
      <4>2. QED
        BY <2>2, <3>2, <4>1, ImportAssumption DEF BatchIsSinceCheckpoint
    <3>4. FlushIsStored' /\ EndIsFlushed'
      BY <2>1, <2>2, <3>1, <3>2 DEF FlushIsStored, EndIsFlushed, Ended, Limited
    <3>5. \A r \in 1 .. run'.checkpoint : Accounted(r)'
      <4>1. \A r \in 1 .. run.checkpoint : Accounted(r)
        BY <2>5, <3>1 DEF CheckpointCovers
      <4>2. \A r \in proc.pending : Accounted(r)
        BY <2>1, <3>1 DEF FlushIsStored, ToStore, ToReject, Accounted
      <4>3. \A r \in 1 .. proc.row : r \in 1 .. run.checkpoint \/ r \in proc.pending
        BY <2>2, <3>2, ImportAssumption
      <4>4. 1 .. proc.row \subseteq Row
        BY <2>2, ImportAssumption DEF Row
      <4>5. QED
        BY <1>s, <2>1, <2>2, <4>1, <4>2, <4>3, <4>4
    <3>6. /\ run'.imported = Cardinality({r \in 1 .. run'.checkpoint : Accepted(r)'})
          /\ run'.imported + run'.rejected = run'.checkpoint
      <4>1. /\ ToStore = {r \in run.checkpoint + 1 .. proc.row : Accepted(r)}
            /\ ToReject = {r \in run.checkpoint + 1 .. proc.row : ~ Accepted(r)}
        BY <3>2 DEF ToStore, ToReject
      <4>2. /\ Cardinality({r \in 1 .. proc.row : Accepted(r)}) =
                   Cardinality({r \in 1 .. run.checkpoint : Accepted(r)}) + Cardinality(ToStore)
            /\ Cardinality(ToStore) + Cardinality(ToReject) = proc.row - run.checkpoint
        BY <2>2, <3>2, <4>1, CountRows
      <4>3. /\ run.imported = Cardinality({r \in 1 .. run.checkpoint : Accepted(r)})
            /\ run.imported + run.rejected = run.checkpoint
        BY <2>5, <3>1 DEF CheckpointCovers
      <4>4. {r \in 1 .. run'.checkpoint : Accepted(r)'} = {r \in 1 .. proc.row : Accepted(r)}
        BY <1>a, <2>2
      <4>5. run'.imported = Cardinality({r \in 1 .. proc.row : Accepted(r)})
        BY <2>2, <4>2, <4>3
      <4>6. run'.imported + run'.rejected = run'.checkpoint
        BY <2>2, <2>3, <4>2, <4>3, ImportAssumption
      <4>7. QED
        BY <4>4, <4>5, <4>6
    <3>7. QED
      BY <2>2, <3>2, <3>3, <3>4, <3>5, <3>6 DEF CheckpointCovers
  <2>6. QED
    BY <1>e, <1>s, <2>1, <2>4, <2>5
<1>7. ASSUME Finish
      PROVE  ImportInv'
  <2>1. /\ proc.at = "finishing" /\ UNCHANGED <<stored, exceptions, crashes>> /\ proc' = Off
        /\ run' = [run EXCEPT !.status = IF Limited THEN "paused" ELSE "completed"]
    BY <1>7 DEF Finish, bounds
  <2>2. ImportTypeOK'
    BY <1>f, <1>k, <2>1, ImportAssumption DEF ImportTypeOK, stored, Off, Place
  <2>3. /\ run'.checkpoint = run.checkpoint /\ run'.imported = run.imported /\ run'.rejected = run.rejected
        /\ run'.status = IF Limited THEN "paused" ELSE "completed"
    BY <1>k, <2>1 DEF ImportTypeOK
  <2>4. BatchIsSinceCheckpoint' /\ FlushIsStored' /\ EndIsFlushed'
    BY <2>1 DEF BatchIsSinceCheckpoint, FlushIsStored, EndIsFlushed, Off
  <2>5. ASSUME exceptions = 0
        PROVE  CheckpointCovers'
    <3>1. EndIsFlushed /\ CheckpointCovers
      BY <1>k, <2>5 DEF ResumeInv
    <3>2. run'.status = "completed" => run.checkpoint = Rows
      BY <2>1, <2>3, <3>1 DEF EndIsFlushed, Ended
    <3>3. QED
      BY <1>f, <1>k, <1>s, <2>1, <2>3, <3>1, <3>2, CoverageStays
  <2>6. QED
    BY <1>e, <1>s, <2>1, <2>2, <2>4, <2>5
<1>8. ASSUME Catch
      PROVE  ImportInv'
  <2>1. /\ CutShort /\ exceptions' = exceptions + 1 /\ proc' = Off /\ UNCHANGED crashes
        /\ run' = [run EXCEPT !.status = "failed", !.checkpoint = proc.row]
    BY <1>8 DEF Catch
  <2>2. recipes' \in [RecipeId -> 0 .. Rows] /\ issues' \subseteq Row /\ FirstRowWins'
    BY <1>f, <1>k, <2>1, CutShortKeeps
  <2>3. exceptions' \in Nat /\ exceptions' # 0
    BY <1>k, <2>1 DEF ImportTypeOK
  <2>4. ImportTypeOK'
    <3>1. run' \in [status : {"absent", "running", "failed", "paused", "completed"}, checkpoint : 0 .. Rows,
                    imported : Nat, rejected : Nat]
      BY <1>k, <2>1 DEF ImportTypeOK
    <3>2. QED
      BY <1>f, <1>k, <2>1, <2>2, <2>3, <3>1, ImportAssumption DEF ImportTypeOK, Off, Place
  <2>5. QED
    BY <1>e, <2>2, <2>3, <2>4
<1>9. ASSUME Crash
      PROVE  ImportInv'
  <2>1. /\ CutShort /\ crashes' = crashes + 1 /\ proc' = Off /\ UNCHANGED <<run, exceptions>>
    BY <1>9 DEF Crash
  <2>2. /\ recipes' \in [RecipeId -> 0 .. Rows] /\ issues' \subseteq Row /\ FirstRowWins'
        /\ \A r \in Row : Accounted(r) => Accounted(r)'
    BY <1>f, <1>k, <2>1, CutShortKeeps
  <2>3. ImportTypeOK'
    BY <1>f, <1>k, <2>1, <2>2, ImportAssumption DEF ImportTypeOK, Off, Place
  <2>4. BatchIsSinceCheckpoint' /\ FlushIsStored' /\ EndIsFlushed'
    BY <2>1 DEF BatchIsSinceCheckpoint, FlushIsStored, EndIsFlushed, Off
  <2>5. exceptions = 0 => CheckpointCovers'
    BY <1>f, <1>k, <2>1, <2>2, CoverageStays DEF ResumeInv
  <2>6. QED
    BY <1>e, <2>1, <2>2, <2>3, <2>4, <2>5
<1>10. ASSUME UNCHANGED vars
       PROVE  ImportInv'
  <2>1. UNCHANGED <<recipes, issues, run, proc, exceptions, crashes>>
    BY <1>10 DEF vars, stored, bounds
  <2>2. ImportTypeOK'
    BY <1>f, <1>k, <2>1 DEF ImportTypeOK
  <2>3. ToStore' = ToStore /\ ToReject' = ToReject
    BY <1>a, <2>1 DEF ToStore, ToReject
  <2>4. exceptions = 0 => BatchIsSinceCheckpoint' /\ FlushIsStored' /\ EndIsFlushed'
    BY <1>f, <1>k, <2>1, <2>3 DEF ResumeInv, BatchIsSinceCheckpoint, FlushIsStored, EndIsFlushed, Ended, Limited
  <2>5. exceptions = 0 => CheckpointCovers'
    BY <1>f, <1>k, <1>s, <2>1, CoverageStays DEF ResumeInv, stored
  <2>6. QED
    BY <1>e, <1>s, <2>1, <2>2, <2>4, <2>5 DEF stored
<1>11. QED
  BY <1>1, <1>2, <1>3, <1>4, <1>5, <1>6, <1>7, <1>8, <1>9, <1>10 DEF Next, Work

\* Whatever was interrupted and resumed, also past rows that an exception lost,
\* what is stored under an id is the first row of the file that carries it (import).
THEOREM FirstRowWinsHolds == Spec => []FirstRowWins
<1>1. ImportInv => FirstRowWins
  BY DEF ImportInv
<1>2. QED
  BY <1>1, ImportInitially, ImportKept, PTL DEF Spec

\* A process that is at most killed, at any point and any number of times, loses no
\* row behind its checkpoint, and its counts tally with it (import, checkpoint).
THEOREM CheckpointCoversHolds == Spec => []CheckpointCovers
<1>1. ImportInv => CheckpointCovers
  BY DEF ImportInv, ResumeInv, CheckpointCovers
<1>2. QED
  BY <1>1, ImportInitially, ImportKept, PTL DEF Spec
===============================================================================
