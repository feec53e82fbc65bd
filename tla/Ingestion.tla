------------------------------ MODULE Ingestion ------------------------------
(***************************************************************************)
(* Private recipe ingestion of the Kotlin backend: IngestionService.create *)
(* and publish, and RecipeExtractionJobHandler running on the job queue.   *)
(* An ingestion has one job, published under the key                       *)
(* "recipe-extraction:<id>", so an ingestion is named by its job.          *)
(*                                                                         *)
(* The extractor is external: it may fail, answer with something that is   *)
(* no recipe, and give another draft for the same source the next time.    *)
(* publish reads the ingestion before it opens its transaction.            *)
(***************************************************************************)
EXTENDS JobHandling, Sequences

CONSTANTS
    User,       \* concurrent publish requests, one at a time each
    Draft,      \* drafts the extractor or a reviewer may come up with
    NoDraft     \* draft = null

ASSUME DraftAssumption == NoDraft \notin Draft

VARIABLES
    ingestion,  \* ingestion[j]: the status of the document
    draft,      \* draft[j]
    recipes,    \* recipes[j]: drafts of the recipes published from j, in order
    review      \* review[u]: the publish request of u, past its first read

papers        == <<ingestion, draft, recipes, review>>
ingestionVars == <<jobVars, papers>>

NoReview == [of |-> "none"]

IngestionInit ==
    /\ HandlingInit
    /\ ingestion = [j \in Job |-> "absent"]
    /\ draft = [j \in Job |-> NoDraft]
    /\ recipes = [j \in Job |-> <<>>]
    /\ review = [u \in User |-> NoReview]

-------------------------------------------------------------------------------
(* create and the handler.                                                 *)

\* The source goes to the artifact store, then the ingestion is inserted.
CreateIngestion(j) ==
    /\ StoreDocument(j)
    /\ ingestion' = [ingestion EXCEPT ![j] = "queued"]
    /\ UNCHANGED <<draft, recipes, review>>

\* loadForExtraction: whatever it throws is worth another attempt.
Load(w, t) ==
    /\ \E label \in {"loaded", "retryable"} : Within(w, t, "start", label)
    /\ UNCHANGED papers

\* Mutant: a failed extraction is swallowed.
ExtractSwallows(w, t) == Within(w, t, "loaded", "ok") /\ UNCHANGED papers

\* The extractor cannot be reached, refuses, or its answer is no valid draft.
ExtractFails(w, t) == Within(w, t, "loaded", "thrown") /\ UNCHANGED papers

\* Mutant: the update goes by id alone.
SaveAlways(j, d) ==
    /\ ingestion' = [ingestion EXCEPT ![j] = "review_ready"]
    /\ draft' = [draft EXCEPT ![j] = d]
    /\ UNCHANGED <<recipes, review>>

\* The extractor's answer goes to saveExtracted, which leaves an ingestion
\* that already has its draft alone.
SaveExtracted(j, d) ==
    /\ IF ingestion[j] = "queued"
       THEN /\ ingestion' = [ingestion EXCEPT ![j] = "review_ready"]
            /\ draft' = [draft EXCEPT ![j] = d]
       ELSE UNCHANGED <<ingestion, draft>>
    /\ UNCHANGED <<recipes, review>>

Extract(w, t) ==
    /\ Within(w, t, "loaded", "ok")
    /\ \E d \in Draft : SaveExtracted(task[w][t].job, d)

\* A failed update in saveExtracted, or in the runner's complete.
ExtractionStoreFails(w, t) ==
    /\ FaultWithin(w, t, "loaded", "thrown") \/ CompleteFails(w, t)
    /\ UNCHANGED papers

\* Only RetryableJobException asks for another attempt: the runner records
\* every other exception as final.
Thrown(w, t) ==
    /\ pc[w][t] = "thrown"
    /\ Settle(w, t, "fatal") \/ SettleFails(w, t)
    /\ Goto(w, t, "none")
    /\ UNCHANGED <<request, papers>>

ExtractionStep(w, t) ==
    \/ Load(w, t) \/ ExtractFails(w, t) \/ Extract(w, t) \/ Thrown(w, t)
    \/ Return(w, t) /\ UNCHANGED papers

-------------------------------------------------------------------------------
(* publish.                                                                *)

SetReview(u, r) == review' = [review EXCEPT ![u] = r]

\* The first read: a published ingestion answers with its recipe; else the
\* draft is the reviewer's own or, when there is one, the stored one.
BeginPublish(u, j) ==
    /\ review[u] = NoReview
    /\ ingestion[j] \notin {"absent", "published"}
    /\ \/ \E d \in Draft : SetReview(u, [of |-> "own", job |-> j, draft |-> d])
       \/ /\ draft[j] # NoDraft
          /\ SetReview(u, [of |-> "stored", job |-> j, draft |-> draft[j]])
    /\ UNCHANGED <<jobVars, ingestion, draft, recipes>>

\* The transaction, atomic: it commits the recipe, its mutation event under
\* the unique key "publish:<id>" and the new status, or it meets an ingestion
\* not ready (409), or an event already there, and changes nothing.
CommitPublish(u) ==
    LET j == review[u].job
        d == review[u].draft
    IN  /\ review[u] # NoReview
        /\ IF ingestion[j] = "review_ready" /\ recipes[j] = <<>>
           THEN /\ recipes' = [recipes EXCEPT ![j] = Append(@, d)]
                /\ ingestion' = [ingestion EXCEPT ![j] = "published"]
                /\ draft' = [draft EXCEPT ![j] = d]
           ELSE UNCHANGED <<recipes, ingestion, draft>>
        /\ SetReview(u, NoReview)
        /\ UNCHANGED jobVars

\* The request dies, or the transaction is aborted.
AbortPublish(u) ==
    /\ review[u] # NoReview
    /\ SetReview(u, NoReview)
    /\ UNCHANGED <<jobVars, ingestion, draft, recipes>>

-------------------------------------------------------------------------------
IngestionNext ==
    \/ \E j \in Job : \/ CreateIngestion(j)
                      \/ (PublishJob(j) \/ RequestDies(j)) /\ UNCHANGED papers
                      \/ \E u \in User : BeginPublish(u, j)
    \/ \E w \in Worker :
          \/ (Begin(w) \/ Take(w) \/ Die(w)) /\ UNCHANGED papers
          \/ \E t \in Thread : \/ ExtractionStep(w, t)
                               \/ ExtractionStoreFails(w, t)
    \/ \E u \in User : CommitPublish(u) \/ AbortPublish(u)
    \/ (QueueStep \/ TickHandling) /\ UNCHANGED papers

IngestionSpec == IngestionInit /\ [][IngestionNext]_ingestionVars

\* As in JobQueue: time passes, a process is started, one that is up polls,
\* and a handler goes on.  Nobody has to publish.
IngestionFairness ==
    /\ WF_ingestionVars(TickHandling /\ UNCHANGED papers)
    /\ \A w \in Worker :
          /\ WF_ingestionVars(Begin(w) /\ UNCHANGED papers)
          /\ WF_ingestionVars(Take(w) /\ UNCHANGED papers)
          /\ \A t \in Thread : WF_ingestionVars(ExtractionStep(w, t))

FairIngestionSpec == IngestionSpec /\ IngestionFairness

-------------------------------------------------------------------------------
(* Properties.                                                             *)

\* An ingestion has one recipe once it is published and none before, however
\* many publish requests, extraction attempts and replays overlap: no late
\* extraction opens a published ingestion again (saveExtracted, publish).
OneRecipe ==
    \A j \in Job :
        Len(recipes[j]) = IF ingestion[j] = "published" THEN 1 ELSE 0

\* A reviewer who accepts the stored draft publishes that draft: what the
\* request read is still what is stored if its transaction can commit.
ReviewedIsPublished ==
    \A u \in User :
        review[u] # NoReview /\ review[u].of = "stored"
            => \/ draft[review[u].job] = review[u].draft
               \/ ingestion[review[u].job] = "published"

\* An ingestion whose job was published gets its draft, or the job is set
\* aside as dead for an operator to see; it is not forgotten in "queued",
\* as long as some process has a permit left to claim with.
IngestionSettles ==
    \A j \in Job :
        request[j] = "published" ~>
            \/ ingestion[j] \in {"review_ready", "published"}
            \/ status[j] = "dead"
            \/ Drained
===============================================================================
