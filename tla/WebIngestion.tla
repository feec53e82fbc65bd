---------------------------- MODULE WebIngestion ----------------------------
(* One private recipe in the TypeScript application, from the submitted source *)
(* to the published recipe: the request that stores the source, the workflow   *)
(* that extracts a draft in steps the engine repeats, the agent that hears of  *)
(* its end, the members who review, publish or cancel.  The ingestion document *)
(* has no version: publish claims it by its status, everyone else overwrites.  *)
EXTENDS Naturals, FiniteSets

CONSTANTS
    Publisher,    \* requests to publish in flight, each with a recipe id of its own
    NoRecipe,     \* the recipeId of an ingestion that is not published
    AttemptBound  \* bound: attempts of one workflow step

ASSUME WebIngestionAssumption ==
    IsFiniteSet(Publisher) /\ NoRecipe \notin Publisher /\ AttemptBound \in Nat \ {0}

VARIABLES
    ingestion, \* status, draft and recipeId of the document
    source,    \* what was submitted and how much of it is stored
    starter,   \* the request that creates the ingestion
    workflow,  \* step and attempts of the workflow
    agent,     \* what RecipeIngestionAgent knows: the ingestion, its status
    publisher, \* where each request to publish is
    published, \* recipes inserted, by the request that inserted them
    answered,  \* the recipe each request to publish was given
    reopened   \* a status was overwritten that publish had claimed or set

ingestionVars == <<ingestion, source, starter, workflow, agent, publisher, published, answered, reopened>>

Status == {"none", "queued", "extracting", "review_ready", "publishing", "published", "failed", "cancelled"}
Kind == {"text", "image", "document"}

\* recipeExtractionAvailability
Available(provider, configured, kind) ==
    IF provider = "local" THEN kind = "text" ELSE configured

\* What extractRecipeFromText and normalizeRecipeDraft make of a text: a draft
\* always, though it may lack what publishing asks for.
LocalDraft == {"complete", "incomplete"}
\* extractWithOpenRouter on a stored source: a document is converted first, the
\* answer may be refused, malformed, or no answer at all.
ModelDraft(kind) == IF source.at = "attached" THEN LocalDraft \cup {"error"} ELSE {"error"}

IngestionInit ==
    /\ ingestion = [status |-> "none", draft |-> "none", recipeId |-> NoRecipe]
    /\ source = [kind |-> "text", at |-> "none"]
    /\ starter = "idle"
    /\ workflow = [step |-> "none", attempts |-> 0, draft |-> "none"]
    /\ agent = [knows |-> FALSE, status |-> "idle"]
    /\ publisher = [p \in Publisher |-> "idle"]
    /\ published = {}
    /\ answered = [p \in Publisher |-> NoRecipe]
    /\ reopened = FALSE

\* updateStatus and saveDraft do not look at the status they overwrite.
Overwrite(new) ==
    /\ ingestion' = new
    /\ reopened' = (reopened \/ ingestion.status \in {"publishing", "published"})
SetStatus(s) == Overwrite([ingestion EXCEPT !.status = s])
SaveDraft(d) == Overwrite([ingestion EXCEPT !.status = "review_ready", !.draft = d])

-------------------------------------------------------------------------------
(* The request that submits a source (recipe-new.tsx, ingestion/start.ts).     *)

Submit(provider, configured, kind) ==
    /\ starter = "idle" /\ ingestion.status = "none"
    /\ Available(provider, configured, kind)
    /\ ingestion' = [ingestion EXCEPT !.status = "queued"]
    /\ source' = [kind |-> kind, at |-> "none"]
    /\ starter' = provider
    /\ UNCHANGED <<workflow, agent, publisher, published, answered, reopened>>

\* The doors.  The API and the tool take text only.
RecipeNew(provider, configured, kind)      == Submit(provider, configured, kind)
RecipeIngestionsPost(provider, configured) == Submit(provider, configured, "text")
ImportRecipeText(provider, configured)     == Submit(provider, configured, "text")

\* The object is put, then attached to the ingestion.
StoreSource ==
    /\ starter \in {"local", "openrouter"} /\ source.at # "attached"
    /\ source' = [source EXCEPT !.at = IF @ = "none" THEN "put" ELSE "attached"]
    /\ UNCHANGED <<ingestion, starter, workflow, agent, publisher, published, answered, reopened>>

\* The local provider extracts within the request.
ExtractLocally ==
    /\ starter = "local" /\ source.at = "attached"
    /\ IF ingestion.status = "queued"
       THEN SetStatus("extracting") /\ UNCHANGED starter
       ELSE /\ \E d \in LocalDraft : SaveDraft(d)
            /\ starter' = "over"
    /\ UNCHANGED <<source, workflow, agent, publisher, published, answered>>

\* agent.start: the workflow runs from here on; only then does the agent note
\* which ingestion it is for.
StartWorkflow ==
    /\ starter = "openrouter" /\ source.at = "attached"
    /\ workflow.step = "none"
    /\ workflow' = [workflow EXCEPT !.step = "mark"]
    /\ UNCHANGED <<ingestion, source, starter, agent, publisher, published, answered, reopened>>

AgentStarted ==
    /\ starter = "openrouter" /\ workflow.step # "none"
    /\ agent' = [knows |-> TRUE, status |-> "running"]
    /\ starter' = "over"
    /\ UNCHANGED <<ingestion, source, workflow, publisher, published, answered, reopened>>

\* The request ends early: a call of it fails, or the Worker does.
RequestLost ==
    /\ starter \in {"local", "openrouter"}
    /\ starter' = "over"
    /\ UNCHANGED <<ingestion, source, workflow, agent, publisher, published, answered, reopened>>

-------------------------------------------------------------------------------
(* The workflow.  The engine runs a step again when it fails or when its       *)
(* result was not recorded, so what a step wrote it may write a second time.   *)

Attempt(step) ==
    /\ workflow.step = step /\ workflow.attempts < AttemptBound
    /\ workflow' = [workflow EXCEPT !.attempts = @ + 1]

MarkExtracting ==
    /\ Attempt("mark")
    /\ SetStatus("extracting")
    /\ UNCHANGED <<source, starter, agent, publisher, published, answered>>

Extract ==
    /\ workflow.step = "extract" /\ workflow.attempts < AttemptBound
    /\ \E d \in ModelDraft(source.kind) :
          workflow' = [workflow EXCEPT !.attempts = @ + 1, !.draft = IF d = "error" THEN @ ELSE d]
    /\ UNCHANGED <<ingestion, source, starter, agent, publisher, published, answered, reopened>>

SaveExtracted ==
    /\ Attempt("save")
    /\ SaveDraft(workflow.draft)
    /\ UNCHANGED <<source, starter, agent, publisher, published, answered>>

Successor == [mark |-> "extract", extract |-> "save", save |-> "report"]

\* The engine has recorded the result of a step and goes on.
StepRecorded ==
    /\ workflow.step \in DOMAIN Successor /\ workflow.attempts > 0
    /\ workflow.step = "extract" => workflow.draft # "none"
    /\ workflow' = [workflow EXCEPT !.step = Successor[workflow.step], !.attempts = 0]
    /\ UNCHANGED <<ingestion, source, starter, agent, publisher, published, answered, reopened>>

\* The last attempt of a step, or the report of completion, failed.
WorkflowFails ==
    /\ \/ workflow.step \in DOMAIN Successor /\ workflow.attempts = AttemptBound
       \/ workflow.step = "report"
    /\ workflow' = [workflow EXCEPT !.step = "failed"]
    /\ UNCHANGED <<ingestion, source, starter, agent, publisher, published, answered, reopened>>

OnWorkflowComplete ==
    /\ workflow.step = "report"
    /\ workflow' = [workflow EXCEPT !.step = "complete"]
    /\ agent' = [agent EXCEPT !.status = "complete"]
    /\ UNCHANGED <<ingestion, source, starter, publisher, published, answered, reopened>>

\* The agent hears of the failure, before or after start noted the ingestion.
OnWorkflowError ==
    /\ workflow.step = "failed"
    /\ workflow' = [workflow EXCEPT !.step = "heard"]
    /\ agent' = [agent EXCEPT !.status = "error"]
    /\ IF agent.knows THEN SetStatus("failed") ELSE UNCHANGED <<ingestion, reopened>>
    /\ UNCHANGED <<source, starter, publisher, published, answered>>

-------------------------------------------------------------------------------
(* Review: publish and cancel.                                                 *)

Ready == ingestion.status \in {"review_ready", "failed"}
Already == ingestion.status = "published" /\ ingestion.recipeId # NoRecipe
GiveRecipe(p) == /\ answered' = [answered EXCEPT ![p] = ingestion.recipeId]
                 /\ publisher' = [publisher EXCEPT ![p] = "over"]
Refuse(p) == publisher' = [publisher EXCEPT ![p] = "over"] /\ UNCHANGED answered

\* The doors.  The page comes with a draft of its own; the API and the tool change
\* the one that is stored.
ReviewAction(p) == /\ publisher[p] = "idle" /\ ingestion.status # "none"
                   /\ publisher' = [publisher EXCEPT ![p] = "read"]
IngestionPost(p)       == ingestion.draft # "none" /\ ReviewAction(p)
PublishRecipeImport(p) == ingestion.draft # "none" /\ ReviewAction(p)
StartPublish(p) ==
    /\ ReviewAction(p) \/ IngestionPost(p) \/ PublishRecipeImport(p)
    /\ UNCHANGED <<ingestion, source, starter, workflow, agent, published, answered, reopened>>

\* publish with a draft the reviewer completed; one without a title, ingredients
\* or steps is refused at once.
PublishRead(p, draft) ==
    /\ publisher[p] = "read"
    /\ IF draft = "incomplete" THEN Refuse(p)
       ELSE IF Already THEN GiveRecipe(p)
       ELSE IF ~Ready THEN Refuse(p)
       ELSE publisher' = [publisher EXCEPT ![p] = "claim"] /\ UNCHANGED answered
    /\ UNCHANGED <<ingestion, source, starter, workflow, agent, published, reopened>>

\* Mutant: the claim does not look at the status again.
ClaimUnchecked(p) ==
    /\ publisher[p] = "claim"
    /\ ingestion' = [ingestion EXCEPT !.status = "publishing"]
    /\ publisher' = [publisher EXCEPT ![p] = "insert"]
    /\ UNCHANGED <<source, starter, workflow, agent, published, answered, reopened>>
\* Mutant: the claim already says which recipe there will be.
ClaimPublished(p) ==
    /\ publisher[p] = "claim"
    /\ IF Ready
       THEN /\ ingestion' = [ingestion EXCEPT !.status = "published", !.recipeId = p]
            /\ publisher' = [publisher EXCEPT ![p] = "insert"]
       ELSE /\ publisher' = [publisher EXCEPT ![p] = "again"]
            /\ UNCHANGED ingestion
    /\ UNCHANGED <<source, starter, workflow, agent, published, answered, reopened>>
\* findOneAndUpdate on the status; whoever loses looks again.
PublishClaim(p) ==
    /\ publisher[p] = "claim"
    /\ IF Ready
       THEN /\ ingestion' = [ingestion EXCEPT !.status = "publishing"]
            /\ publisher' = [publisher EXCEPT ![p] = "insert"]
       ELSE /\ publisher' = [publisher EXCEPT ![p] = "again"]
            /\ UNCHANGED ingestion
    /\ UNCHANGED <<source, starter, workflow, agent, published, answered, reopened>>

PublishAgain(p) ==
    /\ publisher[p] = "again"
    /\ IF Already THEN GiveRecipe(p) ELSE Refuse(p)
    /\ UNCHANGED <<ingestion, source, starter, workflow, agent, published, reopened>>

\* The recipe; then the aliases to remember and the event.
PublishInsert(p) ==
    /\ publisher[p] = "insert"
    /\ published' = published \cup {p}
    /\ publisher' = [publisher EXCEPT ![p] = "finish"]
    /\ UNCHANGED <<ingestion, source, starter, workflow, agent, answered, reopened>>

PublishFinish(p) ==
    /\ publisher[p] = "finish"
    /\ ingestion' = [ingestion EXCEPT !.status = "published", !.recipeId = p]
    /\ answered' = [answered EXCEPT ![p] = p]
    /\ publisher' = [publisher EXCEPT ![p] = "over"]
    /\ UNCHANGED <<source, starter, workflow, agent, published, reopened>>

\* A command fails, or the Worker ends, between two commands.
PublishLost(p) ==
    /\ publisher[p] \in {"insert", "finish"}
    /\ publisher' = [publisher EXCEPT ![p] = "over"]
    /\ UNCHANGED <<ingestion, source, starter, workflow, agent, published, answered, reopened>>

Cancel ==
    /\ ingestion.status \notin {"none", "cancelled"}
    /\ SetStatus("cancelled")
    /\ UNCHANGED <<source, starter, workflow, agent, publisher, published, answered>>

IngestionNext ==
    \/ \E provider \in {"local", "openrouter"}, configured \in BOOLEAN :
          \/ \E k \in Kind : RecipeNew(provider, configured, k)
          \/ RecipeIngestionsPost(provider, configured) \/ ImportRecipeText(provider, configured)
    \/ StoreSource \/ ExtractLocally \/ StartWorkflow \/ AgentStarted \/ RequestLost
    \/ MarkExtracting \/ Extract \/ SaveExtracted \/ StepRecorded
    \/ WorkflowFails \/ OnWorkflowComplete \/ OnWorkflowError
    \/ \E p \in Publisher : \/ StartPublish(p) \/ \E draft \in LocalDraft : PublishRead(p, draft)
                            \/ PublishClaim(p) \/ PublishAgain(p)
                            \/ PublishInsert(p) \/ PublishFinish(p) \/ PublishLost(p)
    \/ Cancel

IngestionSpec == IngestionInit /\ [][IngestionNext]_ingestionVars

-------------------------------------------------------------------------------
(* However often a draft is submitted to publish, one recipe comes of it,      *)
(* unless the workflow, its error callback or a cancellation overwrote a       *)
(* status that publish had set (ingestions.ts: publish, updateStatus,          *)
(* saveDraft).                                                                 *)
OneRecipeUnlessReopened == Cardinality(published) > 1 => reopened

(* What the document and the answers say is backed: a draft that is ready to   *)
(* review was saved, a published ingestion names a recipe that exists, and so  *)
(* does every answer to publish, the losers of the claim included.             *)
StatusIsBacked ==
    /\ ingestion.status = "review_ready" => ingestion.draft # "none"
    /\ ingestion.status = "published" => ingestion.recipeId \in published
    /\ \A p \in Publisher : answered[p] # NoRecipe => answered[p] \in published
===============================================================================
