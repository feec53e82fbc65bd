---------------------------- MODULE CatalogImport ----------------------------
(***************************************************************************)
(* The resumable catalogue import of the Kotlin backend: one import run,   *)
(* kept under an id derived from the hash of an unchanged CSV file, and    *)
(* the CatalogImporter process that works through the file in batches.     *)
(*                                                                         *)
(* Every invocation reads the file from its first row and skips the rows   *)
(* up to the stored checkpoint.  A batch is written by unordered bulk      *)
(* upserts, the recipes before the issues, and then checkpointed.  The     *)
(* process may be killed, or meet an exception, at any point; a bulk write *)
(* that is cut short has stored any part of its batch.                     *)
(*                                                                         *)
(* A dry run stores nothing and is left out, as are the ingredients, tags  *)
(* and units, upserts in the same flush that nothing here reads.           *)
(***************************************************************************)
EXTENDS Integers, FiniteSets

CONSTANTS
    Rows,            \* data rows of the file
    RecipeId,        \* source ids the rows may carry
    NoId,            \* a row whose id column is blank
    BatchSize,       \* --batch-size
    Limit,           \* values of --limit an operator may give
    Unlimited,       \* no --limit
    ExceptionBound,  \* bound: exceptions that reach import's catch block
    CrashBound       \* bound: kills of the process

ASSUME ImportAssumption ==
    /\ Rows \in Nat
    /\ BatchSize \in Nat \ {0}
    /\ Limit \subseteq Nat \ {0}
    /\ Unlimited \notin Limit
    /\ NoId \notin RecipeId
    /\ ExceptionBound \in Nat
    /\ CrashBound \in Nat

VARIABLES
    file,        \* file[r]: the id of row r and whether the row parses
    recipes,     \* recipes[i]: the row stored under id i, 0 for none
    issues,      \* rows with a stored rejection
    run,         \* the import_runs document
    proc,        \* the importer process
    exceptions,  \* exceptions so far, at most ExceptionBound
    crashes      \* kills so far, at most CrashBound

stored == <<recipes, issues>>
bounds == <<exceptions, crashes>>
vars   == <<file, stored, run, proc, bounds>>

Row == 1 .. Rows

\* An importer that runs is at "reading", "recipes", "issues", "checkpoint" or
\* "finishing"; start is the checkpoint it began with, row its rowNumber,
\* pending the rows of the batch, final whether the file has been read.
Off == [at |-> "off", limit |-> Unlimited, start |-> 0, row |-> 0,
        imported |-> 0, pending |-> {}, final |-> FALSE]

Init ==
    /\ file \in [Row -> [id : RecipeId \cup {NoId}, valid : BOOLEAN]]
    /\ recipes = [i \in RecipeId |-> 0]
    /\ issues = {}
    /\ run = [status |-> "absent", checkpoint |-> 0, imported |-> 0, rejected |-> 0]
    /\ proc = Off
    /\ exceptions = 0
    /\ crashes = 0

-------------------------------------------------------------------------------
(* What becomes of a row.                                                  *)

\* Mutant: "seen" starts at the checkpoint.
DuplicateSinceStart(r) == \E q \in proc.start + 1 .. r - 1 : file[q].id = file[r].id

\* The set "seen" is rebuilt from the first row in every invocation.
Duplicate(r) == \E q \in 1 .. r - 1 : file[q].id = file[r].id

Accepted(r) == file[r].id # NoId /\ ~ Duplicate(r) /\ file[r].valid

ToStore  == {r \in proc.pending : Accepted(r)}
ToReject == {r \in proc.pending : ~ Accepted(r)}

StoreRecipes(S) ==
    recipes' = [i \in RecipeId |->
                   IF \E r \in S : file[r].id = i
                   THEN CHOOSE r \in S : file[r].id = i ELSE recipes[i]]

-------------------------------------------------------------------------------
(* import.                                                                 *)

\* An invocation: the upsert of the run, and the first row again.
Start(limit) ==
    /\ proc.at = "off"
    /\ run' = [run EXCEPT !.status = "running"]
    /\ proc' = [Off EXCEPT !.at = "reading", !.limit = limit, !.start = run.checkpoint]
    /\ UNCHANGED <<file, stored, bounds>>

Full    == Cardinality(proc.pending) >= BatchSize
Limited == proc.limit # Unlimited /\ proc.imported >= proc.limit /\ proc.row < Rows
Ended   == proc.row = Rows \/ Limited

ReadRow ==
    LET r == proc.row + 1
    IN  /\ proc.at = "reading"
        /\ ~ Full /\ ~ Ended
        /\ proc' = IF r <= proc.start
                   THEN [proc EXCEPT !.row = r]
                   ELSE [proc EXCEPT !.row = r, !.pending = @ \cup {r},
                                     !.imported = IF Accepted(r) THEN @ + 1 ELSE @]
        /\ UNCHANGED <<file, stored, run, bounds>>

\* Mutant: only full batches are flushed.
FlushWhenFull ==
    /\ proc.at = "reading"
    /\ Full
    /\ proc' = [proc EXCEPT !.at = "recipes", !.final = FALSE]
    /\ UNCHANGED <<file, stored, run, bounds>>

\* A full batch is flushed, and at the end what is left, if anything.
BeginFlush ==
    /\ proc.at = "reading"
    /\ Full \/ Ended
    /\ proc' = [proc EXCEPT !.at = "recipes", !.final = ~ Full]
    /\ UNCHANGED <<file, stored, run, bounds>>

\* Mutant: the checkpoint does not wait for the issues.
FlushNoIssues ==
    /\ proc.at = "recipes"
    /\ StoreRecipes(ToStore)
    /\ proc' = [proc EXCEPT !.at = "checkpoint"]
    /\ UNCHANGED <<file, issues, run, bounds>>

\* The bulk writes of a flush: the recipes, then the rejections.
FlushRecipes ==
    /\ proc.at = "recipes"
    /\ StoreRecipes(ToStore)
    /\ proc' = [proc EXCEPT !.at = "issues"]
    /\ UNCHANGED <<file, issues, run, bounds>>

FlushIssues ==
    /\ proc.at = "issues"
    /\ issues' = issues \cup ToReject
    /\ proc' = [proc EXCEPT !.at = "checkpoint"]
    /\ UNCHANGED <<file, recipes, run, bounds>>

\* checkpoint, and a new batch.
Checkpoint ==
    /\ proc.at = "checkpoint"
    /\ run' = [run EXCEPT !.checkpoint = proc.row,
                          !.imported = @ + Cardinality(ToStore),
                          !.rejected = @ + Cardinality(ToReject)]
    /\ proc' = [proc EXCEPT !.at = IF proc.final THEN "finishing" ELSE "reading",
                            !.pending = {}]
    /\ UNCHANGED <<file, stored, bounds>>

Finish ==
    /\ proc.at = "finishing"
    /\ run' = [run EXCEPT !.status = IF Limited THEN "paused" ELSE "completed"]
    /\ proc' = Off
    /\ UNCHANGED <<file, stored, bounds>>

\* A bulk write that is cut short has stored any part of its rows.
CutShort ==
    \/ /\ proc.at = "recipes"
       /\ \E S \in SUBSET ToStore : StoreRecipes(S)
       /\ UNCHANGED issues
    \/ /\ proc.at = "issues"
       /\ \E S \in SUBSET ToReject : issues' = issues \cup S
       /\ UNCHANGED recipes
    \/ /\ proc.at \notin {"recipes", "issues"}
       /\ UNCHANGED stored

\* The catch block: reading, a write, the checkpoint or the facet refresh
\* threw.  The checkpoint is set to the row last read.
Catch ==
    /\ proc.at # "off"
    /\ exceptions < ExceptionBound
    /\ exceptions' = exceptions + 1
    /\ CutShort
    /\ run' = [run EXCEPT !.status = "failed", !.checkpoint = proc.row]
    /\ proc' = Off
    /\ UNCHANGED <<file, crashes>>

Crash ==
    /\ proc.at # "off"
    /\ crashes < CrashBound
    /\ crashes' = crashes + 1
    /\ CutShort
    /\ proc' = Off
    /\ UNCHANGED <<file, run, exceptions>>

Work == ReadRow \/ BeginFlush \/ FlushRecipes \/ FlushIssues \/ Checkpoint \/ Finish

Next ==
    \/ \E limit \in Limit \cup {Unlimited} : Start(limit)
    \/ Work
    \/ Catch \/ Crash

Spec == Init /\ [][Next]_vars

\* A process that is not interrupted goes on, and the operator repeats the
\* command, with or without a limit, until the run is completed.
Repeat == run.status # "completed" /\ \E limit \in Limit \cup {Unlimited} : Start(limit)

FairSpec == Spec /\ WF_vars(Work) /\ WF_vars(Repeat)

-------------------------------------------------------------------------------
(* Properties.                                                             *)

\* A row is accounted for when its recipe or its rejection is stored.
Accounted(r) == IF Accepted(r) THEN recipes[file[r].id] = r ELSE r \in issues

\* Whatever was interrupted and resumed, what is stored under an id is the
\* first row that carries it: a later row never replaces it, also when the
\* first row is behind the checkpoint (import).
FirstRowWins ==
    \A i \in RecipeId :
        recipes[i] # 0 =>
            /\ file[recipes[i]].id = i /\ file[recipes[i]].valid
            /\ \A q \in 1 .. recipes[i] - 1 : file[q].id # i

\* As long as the process was at most killed, every row behind the
\* checkpoint is accounted for, so that resuming there loses nothing: not a
\* batch cut short in the middle of its writes, nor a limited sample.  The
\* counts tally with the checkpoint, however the rows were batched, and a
\* completed run is at the end of the file (import, checkpoint).
CheckpointCovers ==
    exceptions = 0 =>
        /\ \A r \in 1 .. run.checkpoint : Accounted(r)
        /\ run.imported = Cardinality({r \in 1 .. run.checkpoint : Accepted(r)})
        /\ run.imported + run.rejected = run.checkpoint
        /\ run.status = "completed" => run.checkpoint = Rows

\* Repeating the command completes the run, even if every invocation has a
\* limit and some of them fail or are killed.
ImportCompletes == <>(run.status = "completed")

\* Claimed by the import guide: after a process or network interruption the
\* command resumes from the last durable checkpoint.  The catch block moves
\* the checkpoint past rows that no write has stored.
NothingIsLost == \A r \in 1 .. run.checkpoint : Accounted(r)
==============================================================================
