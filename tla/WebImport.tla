------------------------------- MODULE WebImport -------------------------------
(* The catalogue import of the TypeScript application: importCatalog reads a    *)
(* CSV file row by row, parses each row into a recipe with its issues, writes   *)
(* them in batches of parallel bulk writes and keeps a checkpoint in the        *)
(* import_runs document.  The process may be killed, and anything it awaits     *)
(* may throw; a batch that is cut short has stored any part of its writes.      *)
(* The units and the ingredient documents, upserts that nothing reads back,     *)
(* are left out, and so is the id "catalog_<hash>" of the one run.              *)
EXTENDS Integers, FiniteSets

CONSTANTS
    FileRow,        \* rows a file may hold, as parsed by csv-parse
    FileLength,     \* rows of the file
    ImportBatch,    \* --batch-size
    ImportLimit,    \* values of --limit; 0 is no limit
    ImportFaults    \* bound: kills of the process and errors of the database

ASSUME WebImportAssumption ==
    /\ FileLength \in Nat /\ ImportFaults \in Nat
    /\ ImportBatch \in 1 .. 1000
    /\ ImportLimit \subseteq Nat

VARIABLES
    sheet,      \* the file
    catalog,    \* for each source id the row stored as "recipe_<id>", 0 for none
    tagDocs,    \* for each tag its recipeCount, -1 where there is no document
    reported,   \* import_issues
    importRun,  \* the import_runs document
    importer,   \* the process
    faults, caught  \* kills and errors so far; the catch block was reached

importVars == <<sheet, catalog, tagDocs, reported, importRun, importer, faults, caught>>

SourceId == {row.id : row \in FileRow}

-------------------------------------------------------------------------------
(* parseStringList, parseServings, normalizeTag.  A cell is "" or what          *)
(* JSON.parse makes of it: "strings", "other" (JSON, but no array of strings),  *)
(* or an error, "quotes" when it is only that quotes inside a string lack their *)
(* backslash ("quotes other" is then no array of strings) and "broken" else.    *)

EscapeInteriorQuotes(cell) ==
    CASE cell = "quotes" -> "strings" [] cell = "quotes other" -> "other" [] OTHER -> "broken"

ParseStringList(cell) ==
    LET repaired == EscapeInteriorQuotes(cell)
    IN  CASE cell \in {"", "strings"} -> [status |-> "strict", reason |-> "none"]
          [] cell = "other" -> [status |-> "failed", reason |-> "not_string_array"]
          [] OTHER ->
               CASE repaired = "strings" -> [status |-> "repaired", reason |-> "repaired_json_array"]
                 [] repaired = "other" -> [status |-> "failed", reason |-> "repaired_value_not_string_array"]
                 [] repaired = "broken" -> [status |-> "failed", reason |-> "invalid_json_array"]

\* The values of a cell that could not be read are lost.
Values(cell, values) == IF cell = "" \/ ParseStringList(cell).status = "failed" THEN {} ELSE values

ServingsFlags(servings) ==
    CASE servings <= 0 -> {"invalid_servings"} [] servings > 50 -> {"large_servings"} [] OTHER -> {}

\* Spellings that are the same tag; a blank one is no tag.
NormalizeTag(spelling) ==
    CASE spelling \in {"Quick meal", "quick-meal"} -> "quick-meal" [] spelling = " " -> "" [] OTHER -> spelling

TagName == {NormalizeTag(s) : s \in UNION {row.spellings : row \in FileRow}} \ {""}

ListFields == {"ingredients", "ingredients_raw", "steps", "tags"}

\* parseRecipeRow: lines holds the status parseIngredientLine gives each of the
\* raw ingredient lines.
ParseRecipeRow(row) ==
    LET lines == Values(row.cells["ingredients_raw"], row.lines)
    IN  [tags   |-> {NormalizeTag(s) : s \in Values(row.cells["tags"], row.spellings)} \ {""},
         flags  |-> ServingsFlags(row.servings)
                    \cup {f \in {"steps_repaired"} : ParseStringList(row.cells["steps"]).status # "strict"}
                    \cup {f \in {"ingredients_unavailable"} :
                             ParseStringList(row.cells["ingredients_raw"]).status = "failed"},
         issues |-> ({ParseStringList(row.cells[f]).reason : f \in ListFields} \ {"none"})
                    \cup ServingsFlags(row.servings)
                    \cup {l \in lines : l # "parsed"}]

\* Two documents of one row differ in nothing but updatedAt and the hash.
ToMongoRecipe(r) == ParseRecipeRow(sheet[r])

Issue(r, reason) == [row |-> r, reason |-> reason]

\* Mutant: the rows up to the checkpoint are skipped before they are remembered.
SeenSinceCheckpoint(r) == \E q \in importer.start + 1 .. r - 1 : sheet[q].id = sheet[r].id
\* seen holds the ids of all rows before, those up to the checkpoint too.
Seen(r) == \E q \in 1 .. r - 1 : sheet[q].id = sheet[r].id

Imported(r) == ~Seen(r) /\ ~sheet[r].oversized

\* What the batch holds for the row; two issues of one row for the same reason
\* are one here.
IssuesFor(r) ==
    CASE Seen(r) -> {Issue(r, "duplicate_source_id")}
      [] ~Seen(r) /\ sheet[r].oversized -> {Issue(r, "mongodb_document_too_large")}
      [] Imported(r) -> {Issue(r, reason) : reason \in ToMongoRecipe(r).issues}

-------------------------------------------------------------------------------
(* importCatalog                                                               *)

NoImport == [at |-> "off", limit |-> 0, start |-> 0, row |-> 0, imported |-> 0, batch |-> {}]

WebImportInit ==
    /\ sheet \in [1 .. FileLength -> FileRow]
    /\ catalog = [i \in SourceId |-> 0]
    /\ tagDocs = [t \in TagName |-> -1]
    /\ reported = {}
    /\ importRun = [status |-> "none", checkpoint |-> 0, imported |-> 0, rejected |-> 0]
    /\ importer = NoImport
    /\ faults = 0 /\ caught = FALSE

StartImport(limit) ==
    /\ importer.at = "off"
    /\ importRun' = [importRun EXCEPT !.status = "running"]
    /\ importer' = [NoImport EXCEPT !.at = "read", !.limit = limit, !.start = importRun.checkpoint]
    /\ UNCHANGED <<sheet, catalog, tagDocs, reported, faults, caught>>

BatchFull == Cardinality(importer.batch) >= ImportBatch
ImportLimited == importer.limit # 0 /\ importer.imported >= importer.limit /\ importer.row < FileLength
NoMoreRows == importer.row = FileLength \/ ImportLimited

\* The batch has been filled, or the loop has ended and what is left is written.
Flushing == importer.at = "read" /\ (BatchFull \/ NoMoreRows)
NextRow  == importer.at = "read" /\ ~Flushing

\* A row up to the checkpoint is only remembered; a row with a column missing
\* throws when it is parsed, its number already counted.
ReadRow ==
    LET r == importer.row + 1
    IN  /\ NextRow
        /\ r > importer.start => ~sheet[r].short \/ Seen(r)
        /\ importer' = IF r <= importer.start THEN [importer EXCEPT !.row = r]
                       ELSE [importer EXCEPT !.row = r, !.batch = @ \cup {r},
                                             !.imported = IF Imported(r) THEN @ + 1 ELSE @]
        /\ UNCHANGED <<sheet, catalog, tagDocs, reported, importRun, faults, caught>>

\* A part of the batch: the recipes, the tags and the issues of some rows.
WriteRows(recipeRows, tagRows, issueRows) ==
    /\ catalog' = [i \in SourceId |->
                      IF \E r \in recipeRows : sheet[r].id = i
                      THEN CHOOSE r \in recipeRows : sheet[r].id = i ELSE catalog[i]]
    /\ tagDocs' = [t \in TagName |->
                      IF tagDocs[t] = -1 /\ \E r \in tagRows : t \in ToMongoRecipe(r).tags
                      THEN 0 ELSE tagDocs[t]]
    /\ reported' = reported \cup UNION {IssuesFor(r) : r \in issueRows}

BatchRows == {r \in importer.batch : Imported(r)}

Flush ==
    /\ Flushing
    /\ WriteRows(BatchRows, BatchRows, importer.batch)
    /\ importer' = [importer EXCEPT !.at = IF BatchFull THEN "checkpoint" ELSE "facets"]
    /\ UNCHANGED <<sheet, importRun, faults, caught>>

CountBatch ==
    [importRun EXCEPT !.checkpoint = importer.row,
                      !.imported = @ + Cardinality(BatchRows),
                      !.rejected = @ + Cardinality(importer.batch) - Cardinality(BatchRows)]

Checkpoint ==
    /\ importer.at = "checkpoint"
    /\ importRun' = CountBatch
    /\ importer' = [importer EXCEPT !.at = "read", !.batch = {}]
    /\ UNCHANGED <<sheet, catalog, tagDocs, reported, faults, caught>>

\* refreshCatalogRecipeFacets: a tag no recipe has is set to 0, and a tag
\* without a document is not given one.
TagUses(t) == Cardinality({i \in SourceId : catalog[i] # 0 /\ t \in ToMongoRecipe(catalog[i]).tags})

RefreshFacets ==
    /\ importer.at = "facets"
    /\ tagDocs' = [t \in TagName |-> IF tagDocs[t] = -1 THEN -1 ELSE TagUses(t)]
    /\ importer' = [importer EXCEPT !.at = "finish"]
    /\ UNCHANGED <<sheet, catalog, reported, importRun, faults, caught>>

FinishImport ==
    /\ importer.at = "finish"
    /\ importRun' = [CountBatch EXCEPT !.status = IF ImportLimited THEN "paused" ELSE "completed"]
    /\ importer' = NoImport
    /\ UNCHANGED <<sheet, catalog, tagDocs, reported, faults, caught>>

\* A write that is cut short; the four bulk writes run in parallel.
CutShort ==
    IF Flushing
    THEN \E rs \in SUBSET BatchRows, ts \in SUBSET BatchRows, is \in SUBSET importer.batch : WriteRows(rs, ts, is)
    ELSE UNCHANGED <<catalog, tagDocs, reported>>

\* catch: the run has failed, and its checkpoint is the number of the row that
\* was read last, whether its batch was written or not.
Catch(row) ==
    /\ importRun' = [importRun EXCEPT !.status = "failed", !.checkpoint = row]
    /\ importer' = NoImport /\ caught' = TRUE
    /\ UNCHANGED sheet

RowThrows ==
    LET r == importer.row + 1
    IN  /\ NextRow /\ r > importer.start /\ sheet[r].short /\ ~Seen(r)
        /\ Catch(r)
        /\ UNCHANGED <<catalog, tagDocs, reported, faults>>

DatabaseThrows ==
    /\ importer.at # "off" /\ faults < ImportFaults
    /\ faults' = faults + 1
    /\ CutShort /\ Catch(importer.row)

\* The process is killed, or the database does not take the write of catch.
ImporterDies ==
    /\ importer.at # "off" /\ faults < ImportFaults
    /\ faults' = faults + 1
    /\ CutShort
    /\ importer' = NoImport
    /\ UNCHANGED <<sheet, importRun, caught>>

WebImportNext ==
    \/ \E limit \in ImportLimit : StartImport(limit)
    \/ ReadRow \/ Flush \/ Checkpoint \/ RefreshFacets \/ FinishImport
    \/ RowThrows \/ DatabaseThrows \/ ImporterDies

WebImportSpec == WebImportInit /\ [][WebImportNext]_importVars

-------------------------------------------------------------------------------
(* However often an import was killed and resumed at its checkpoint, paused by *)
(* a limit or cut short between its parallel writes: every row up to the       *)
(* checkpoint is stored with its tags and its issues, or rejected with the     *)
(* reason; the counts add up to the checkpoint, as the guide has the operator  *)
(* verify; and the tag counts of a run that has ended are those of the         *)
(* catalogue.  Only catch breaks this, for it moves the checkpoint past a      *)
(* batch that was never written (importCatalog).                               *)
Accounted(r) ==
    /\ IssuesFor(r) \subseteq reported
    /\ Imported(r) => /\ catalog[sheet[r].id] = r
                      /\ \A t \in ToMongoRecipe(r).tags : tagDocs[t] # -1

CheckpointIsDurable ==
    /\ ~caught => /\ \A r \in 1 .. importRun.checkpoint : Accounted(r)
                  /\ importRun.imported + importRun.rejected = importRun.checkpoint
    /\ importRun.status \in {"completed", "paused"} =>
          \A t \in TagName : tagDocs[t] \in {-1, TagUses(t)}
===============================================================================
