--------------------------- MODULE IngestionProofs ---------------------------
(* What holds of the private recipe ingestion of the Kotlin backend for any     *)
(* number of ingestions, processes, threads, publish requests and drafts: it is *)
(* a use of the job queue, it makes one recipe of an ingestion, and a reviewer  *)
(* publishes the draft that was read.                                           *)
EXTENDS Ingestion, JobQueueProofs

-------------------------------------------------------------------------------
(* The queue under the ingestion.                                              *)

\* A fault that a handler meets between two commands of the queue.
HandlerFault == Fault /\ UNCHANGED <<document, runner, replays>>

LEMMA IngestionStepOfQueue ==
    ASSUME [IngestionNext]_ingestionVars
    PROVE  [Next]_vars \/ HandlerFault
<1>1. ASSUME NEW j \in Job, CreateIngestion(j) \/ PublishJob(j) \/ RequestDies(j)
      PROVE  [Next]_vars
  BY <1>1 DEF CreateIngestion, StoreDocument, PublishJob, RequestDies, Next
<1>2. ASSUME NEW w \in Worker, Begin(w) \/ Take(w) \/ Die(w)
      PROVE  Next
  BY <1>2 DEF Begin, Take, Die, ClaimSome, Next
<1>3. ASSUME NEW w \in Worker, NEW t \in Thread, Return(w, t) \/ Thrown(w, t)
      PROVE  Next
  <2>1. \/ \E outcome \in Outcome : Settle(w, t, outcome)
        \/ SettleFails(w, t)
    BY <1>3 DEF Return, Thrown, Outcome
  <2>2. QED
    BY <2>1 DEF SettleSome, Next
<1>4. ASSUME NEW w \in Worker, NEW t \in Thread, Load(w, t) \/ ExtractFails(w, t) \/ Extract(w, t)
      PROVE  UNCHANGED vars
  BY <1>4 DEF Load, ExtractFails, Extract, Within
<1>5. ASSUME NEW w \in Worker, NEW t \in Thread, ExtractionStoreFails(w, t)
      PROVE  HandlerFault
  BY <1>5 DEF ExtractionStoreFails, CompleteFails, FaultWithin, HandlerFault
<1>6. ASSUME NEW u \in User, CommitPublish(u) \/ AbortPublish(u) \/ \E j \in Job : BeginPublish(u, j)
      PROVE  UNCHANGED vars
  BY <1>6 DEF CommitPublish, AbortPublish, BeginPublish, jobVars
<1>7. CASE QueueStep \/ TickHandling
  BY <1>7 DEF QueueStep, TickHandling, Next
<1>8. CASE UNCHANGED ingestionVars
  BY <1>8 DEF ingestionVars, jobVars
<1>9. QED
  BY <1>1, <1>2, <1>3, <1>4, <1>5, <1>6, <1>7, <1>8 DEF IngestionNext, ExtractionStep

\* A handler's fault is nothing to the queue.
LEMMA FaultLeavesQueue ==
    ASSUME TypeOK, HandlerFault
    PROVE  /\ TypeOK'
           /\ UNCHANGED <<status, attempts, avail, owner, lease, mode, permits, task>>
  BY TimeAssumption DEF HandlerFault, Fault, document, runner, TypeOK

LEMMA QueueUnderIngestion == IngestionSpec => [](TypeOK /\ LeaseShape)
<1>1. IngestionInit => TypeOK /\ LeaseShape
  BY TypeInitially, NullAssumption DEF IngestionInit, HandlingInit, Init, LeaseShape
<1>2. ASSUME TypeOK, LeaseShape, [IngestionNext]_ingestionVars
      PROVE  TypeOK' /\ LeaseShape'
  <2>1. CASE [Next]_vars
    BY <1>2, <2>1, TypeStep, LeaseShapeStep
  <2>2. CASE HandlerFault
    BY <1>2, <2>2, FaultLeavesQueue DEF LeaseShape
  <2>3. QED
    BY <1>2, <2>1, <2>2, IngestionStepOfQueue
<1>3. QED
  BY <1>1, <1>2, PTL DEF IngestionSpec

\* Under the extraction handler the queue keeps the promise of WorkQueue: what is
\* done stays done, only a dead job is replayed, and tries are counted.
THEOREM IngestionIsWorkQueue == IngestionSpec => IsWorkQueue
<1>1. IngestionInit => Abstract!Init
  BY DEF IngestionInit, HandlingInit, Init, Abstract!Init, PhaseOf
<1>2. ASSUME TypeOK, LeaseShape, [IngestionNext]_ingestionVars
      PROVE  [Abstract!Next]_(Abstract!vars)
  <2>1. CASE [Next]_vars
    BY <1>2, <2>1, AbstractStep
  <2>2. CASE HandlerFault
    <3>1. UNCHANGED <<status, owner, attempts>>
      BY <1>2, <2>2, FaultLeavesQueue
    <3>2. UNCHANGED Abstract!vars
      BY <3>1 DEF Abstract!vars, PhaseOf
    <3>3. QED
      BY <3>2
  <2>3. QED
    BY <1>2, <2>1, <2>2, IngestionStepOfQueue
<1>3. QED
  BY <1>1, <1>2, QueueUnderIngestion, PTL DEF IngestionSpec, IsWorkQueue, Abstract!Spec

\* No ingestion is lost under its handler, either: its job stays in reach of a claim
\* until a thread that holds it records what became of it.
THEOREM NoIngestionIsLost ==
    IngestionSpec => /\ []WithinReach
              /\ [][\A j \in Job : StaysInReach(j)]_vars
              /\ [][TimeHelps]_vars
<1>1. IngestionInit => Delayed
  BY TimeAssumption DEF IngestionInit, HandlingInit, Init, Delayed
<1>2. ASSUME TypeOK, LeaseShape, Delayed, [IngestionNext]_ingestionVars
      PROVE  Delayed'
  <2>1. CASE [Next]_vars
    BY <1>2, <2>1, DelayedStep
  <2>2. CASE HandlerFault
    BY <1>2, <2>2, FaultLeavesQueue DEF Delayed
  <2>3. QED
    BY <1>2, <2>1, <2>2, IngestionStepOfQueue
<1>3. ASSUME TypeOK, LeaseShape, [IngestionNext]_ingestionVars
      PROVE  [\A j \in Job : StaysInReach(j)]_vars /\ [TimeHelps]_vars
  <2>1. CASE [Next]_vars
    BY <1>3, <2>1, StaysStep DEF TimeHelps
  <2>2. CASE HandlerFault
    <3>1. \A j \in Job : StaysInReach(j)
      BY <1>3, <2>2, FaultLeavesQueue, UntouchedStays
    <3>2. Tick => [Next]_vars
      BY DEF Next
    <3>3. QED
      BY <1>3, <3>1, <3>2, StaysStep DEF TimeHelps
  <2>3. QED
    BY <1>3, <2>1, <2>2, IngestionStepOfQueue
<1>4. TypeOK /\ LeaseShape /\ Delayed => WithinReach
  BY ReachIs
<1>5. QED
  BY <1>1, <1>2, <1>3, <1>4, QueueUnderIngestion, PTL DEF IngestionSpec

-------------------------------------------------------------------------------
(* One recipe of an ingestion, and the draft that was read.                    *)

PapersTypeOK ==
    /\ ingestion \in [Job -> {"absent", "queued", "review_ready", "published"}]
    /\ draft \in [Job -> Draft \cup {NoDraft}]
    /\ recipes \in [Job -> Seq(Draft)]
    /\ review \in [User -> {NoReview} \cup [of : {"own", "stored"}, job : Job, draft : Draft]]

\* An ingestion is stored by the request that creates it and by nothing else.
StoredByRequest == \A j \in Job : request[j] = "none" => ingestion[j] = "absent"

\* No draft is stored before the first extraction, which takes it out of the queue.
NoEarlyDraft == \A j \in Job : ingestion[j] \in {"absent", "queued"} => draft[j] = NoDraft

\* So what a request can read is out of the queue for good.
ReadIsReady ==
    \A u \in User : review[u] # NoReview /\ review[u].of = "stored" =>
        ingestion[review[u].job] \in {"review_ready", "published"}

PapersInv ==
    /\ TypeOK /\ request \in [Job -> {"none", "stored", "published", "lost"}] /\ PapersTypeOK
    /\ StoredByRequest /\ NoEarlyDraft /\ ReadIsReady
    /\ OneRecipe /\ ReviewedIsPublished

\* A step leaves the papers alone, or is one of four.
LEMMA PapersStep ==
    ASSUME TypeOK, [IngestionNext]_ingestionVars
    PROVE  \/ \E j \in Job : CreateIngestion(j)
           \/ UNCHANGED papers /\ (UNCHANGED request \/ \E j \in Job : PublishJob(j) \/ RequestDies(j))
           \/ UNCHANGED request /\ \E j \in Job, d \in Draft : SaveExtracted(j, d)
           \/ UNCHANGED request /\ \E u \in User, j \in Job : BeginPublish(u, j)
           \/ UNCHANGED request /\ \E u \in User : CommitPublish(u) \/ AbortPublish(u)
<1>1. ASSUME NEW j \in Job, (PublishJob(j) \/ RequestDies(j)) /\ UNCHANGED papers
      PROVE  UNCHANGED papers /\ \E i \in Job : PublishJob(i) \/ RequestDies(i)
  BY <1>1
<1>2. ASSUME NEW w \in Worker, (Begin(w) \/ Take(w) \/ Die(w)) /\ UNCHANGED papers
      PROVE  UNCHANGED papers /\ UNCHANGED request
  BY <1>2 DEF Begin, Take, Die, handling
<1>3. ASSUME NEW w \in Worker, NEW t \in Thread, Load(w, t) \/ ExtractFails(w, t) \/ Thrown(w, t)
                                              \/ (Return(w, t) /\ UNCHANGED papers) \/ ExtractionStoreFails(w, t)
      PROVE  UNCHANGED papers /\ UNCHANGED request
  BY <1>3 DEF Load, ExtractFails, Thrown, Return, ExtractionStoreFails, CompleteFails, Within, FaultWithin
<1>4. ASSUME NEW w \in Worker, NEW t \in Thread, Extract(w, t)
      PROVE  UNCHANGED request /\ \E j \in Job, d \in Draft : SaveExtracted(j, d)
  BY <1>4 DEF Extract, Within, At, TypeOK, Task
<1>5. ASSUME NEW u \in User, CommitPublish(u) \/ AbortPublish(u) \/ \E j \in Job : BeginPublish(u, j)
      PROVE  UNCHANGED request
  BY <1>5 DEF CommitPublish, AbortPublish, BeginPublish, jobVars, handling
<1>6. CASE (QueueStep \/ TickHandling) /\ UNCHANGED papers
  BY <1>6 DEF QueueStep, TickHandling, handling
<1>7. CASE UNCHANGED ingestionVars
  BY <1>7 DEF ingestionVars, jobVars, handling
<1>8. QED
  BY <1>1, <1>2, <1>3, <1>4, <1>5, <1>6, <1>7 DEF IngestionNext, ExtractionStep

LEMMA PapersInitially == IngestionInit => PapersInv
<1> SUFFICES ASSUME IngestionInit PROVE PapersInv
  OBVIOUS
<1>1. TypeOK
  BY TypeInitially DEF IngestionInit, HandlingInit
<1>2. PapersTypeOK /\ request \in [Job -> {"none", "stored", "published", "lost"}]
  BY DEF IngestionInit, HandlingInit, PapersTypeOK
<1>3. StoredByRequest /\ NoEarlyDraft /\ ReadIsReady
  BY DEF IngestionInit, StoredByRequest, NoEarlyDraft, ReadIsReady
<1>4. OneRecipe /\ ReviewedIsPublished
  BY DEF IngestionInit, OneRecipe, ReviewedIsPublished
<1>5. QED
  BY <1>1, <1>2, <1>3, <1>4 DEF PapersInv

LEMMA PapersKept ==
    ASSUME PapersInv, [IngestionNext]_ingestionVars
    PROVE  PapersInv'
<1> USE DEF PapersInv
<1>t. TypeOK'
  BY IngestionStepOfQueue, TypeStep, FaultLeavesQueue
<1>k. /\ PapersTypeOK /\ StoredByRequest /\ NoEarlyDraft /\ ReadIsReady /\ OneRecipe /\ ReviewedIsPublished
      /\ request \in [Job -> {"none", "stored", "published", "lost"}]
  OBVIOUS
<1> HIDE DEF PapersInv
<1>n. \A u \in User : review[u] # NoReview =>
          review[u] \in [of : {"own", "stored"}, job : Job, draft : Draft] /\ review[u].job \in Job
  BY <1>k DEF PapersTypeOK
<1>1. ASSUME NEW j \in Job, CreateIngestion(j)
      PROVE  PapersInv'
  <2>1. /\ request[j] = "none" /\ request' = [request EXCEPT ![j] = "stored"]
        /\ ingestion' = [ingestion EXCEPT ![j] = "queued"] /\ UNCHANGED <<draft, recipes, review>>
    BY <1>1 DEF CreateIngestion, StoreDocument, RequestTo
  <2>2. ingestion[j] = "absent"
    BY <1>k, <2>1 DEF StoredByRequest
  <2>3. PapersTypeOK' /\ request' \in [Job -> {"none", "stored", "published", "lost"}]
    BY <1>k, <2>1 DEF PapersTypeOK
  <2>4. StoredByRequest' /\ NoEarlyDraft'
    BY <1>k, <2>1, <2>2 DEF StoredByRequest, NoEarlyDraft, PapersTypeOK
  <2>5. ReadIsReady' /\ ReviewedIsPublished'
    BY <1>k, <1>n, <2>1, <2>2 DEF ReadIsReady, ReviewedIsPublished, PapersTypeOK
  <2>6. OneRecipe'
    BY <1>k, <2>1, <2>2 DEF OneRecipe, PapersTypeOK
  <2>7. QED
    BY <1>t, <2>3, <2>4, <2>5, <2>6 DEF PapersInv
<1>2. ASSUME UNCHANGED papers, UNCHANGED request \/ \E j \in Job : PublishJob(j) \/ RequestDies(j)
      PROVE  PapersInv'
  <2>1. /\ request' \in [Job -> {"none", "stored", "published", "lost"}]
        /\ \A j \in Job : request'[j] = "none" => request[j] = "none"
    BY <1>k, <1>2 DEF PublishJob, RequestDies, RequestTo
  <2>2. UNCHANGED <<ingestion, draft, recipes, review>>
    BY <1>2 DEF papers
  <2>3. QED
    BY <1>k, <1>t, <2>1, <2>2 DEF PapersInv, PapersTypeOK, StoredByRequest, NoEarlyDraft, ReadIsReady, OneRecipe,
       ReviewedIsPublished
<1>3. ASSUME NEW j \in Job, NEW d \in Draft, SaveExtracted(j, d), UNCHANGED request
      PROVE  PapersInv'
  <2>1. CASE ingestion[j] = "queued"
    <3>1. /\ ingestion' = [ingestion EXCEPT ![j] = "review_ready"] /\ draft' = [draft EXCEPT ![j] = d]
          /\ UNCHANGED <<recipes, review, request>>
      BY <1>3, <2>1 DEF SaveExtracted
    <3>2. PapersTypeOK' /\ request' \in [Job -> {"none", "stored", "published", "lost"}]
      BY <1>k, <3>1 DEF PapersTypeOK
    <3>3. StoredByRequest' /\ NoEarlyDraft' /\ OneRecipe'
      BY <1>k, <2>1, <3>1 DEF StoredByRequest, NoEarlyDraft, OneRecipe, PapersTypeOK
    <3>4. ReadIsReady' /\ ReviewedIsPublished'
      BY <1>k, <1>n, <2>1, <3>1 DEF ReadIsReady, ReviewedIsPublished, PapersTypeOK
    <3>5. QED
      BY <1>t, <3>2, <3>3, <3>4 DEF PapersInv
  <2>2. CASE ingestion[j] # "queued"
    BY <1>2, <1>3, <2>2 DEF SaveExtracted, papers
  <2>3. QED
    BY <2>1, <2>2
<1>4. ASSUME NEW u \in User, NEW j \in Job, BeginPublish(u, j), UNCHANGED request
      PROVE  PapersInv'
  <2>1. /\ UNCHANGED <<ingestion, draft, recipes>> /\ ingestion[j] \notin {"absent", "published"}
        /\ \E r \in [of : {"own", "stored"}, job : Job, draft : Draft] :
              /\ review' = [review EXCEPT ![u] = r]
              /\ r.of = "stored" => r.job = j /\ draft[j] # NoDraft /\ r.draft = draft[j]
    BY <1>4, <1>k DEF BeginPublish, SetReview, PapersTypeOK
  <2>2. PICK r \in [of : {"own", "stored"}, job : Job, draft : Draft] :
              /\ review' = [review EXCEPT ![u] = r]
              /\ r.of = "stored" => r.job = j /\ draft[j] # NoDraft /\ r.draft = draft[j]
    BY <2>1
  <2>3. draft[j] # NoDraft => ingestion[j] = "review_ready"
    BY <1>k, <2>1 DEF NoEarlyDraft, PapersTypeOK
  <2>4. PapersTypeOK'
    BY <1>k, <2>1, <2>2 DEF PapersTypeOK
  <2>5. \A v \in User : v # u => review'[v] = review[v]
    BY <1>k, <2>2 DEF PapersTypeOK
  <2>6. review'[u] = r
    BY <1>k, <2>2 DEF PapersTypeOK
  <2>7. ReadIsReady' /\ ReviewedIsPublished'
    BY <1>k, <2>1, <2>2, <2>3, <2>5, <2>6 DEF ReadIsReady, ReviewedIsPublished
  <2>8. StoredByRequest' /\ NoEarlyDraft' /\ OneRecipe'
    BY <1>k, <1>4, <2>1 DEF StoredByRequest, NoEarlyDraft, OneRecipe
  <2>9. QED
    BY <1>k, <1>t, <1>4, <2>4, <2>7, <2>8 DEF PapersInv
<1>5. ASSUME NEW u \in User, UNCHANGED <<ingestion, draft, recipes, request>>, SetReview(u, NoReview)
      PROVE  PapersInv'
  <2>1. PapersTypeOK'
    BY <1>k, <1>5 DEF PapersTypeOK, SetReview
  <2>2. \A v \in User : review'[v] = review[v] \/ review'[v] = NoReview
    BY <1>k, <1>5 DEF PapersTypeOK, SetReview
  <2>3. ReadIsReady' /\ ReviewedIsPublished'
    BY <1>k, <1>5, <2>2 DEF ReadIsReady, ReviewedIsPublished
  <2>4. StoredByRequest' /\ NoEarlyDraft' /\ OneRecipe'
    BY <1>k, <1>5 DEF StoredByRequest, NoEarlyDraft, OneRecipe
  <2>5. QED
    BY <1>k, <1>t, <1>5, <2>1, <2>3, <2>4 DEF PapersInv
<1>6. ASSUME NEW u \in User, CommitPublish(u), UNCHANGED request
      PROVE  PapersInv'
  <2>1. PICK j \in Job, d \in Draft : j = review[u].job /\ d = review[u].draft
    BY <1>6, <1>n DEF CommitPublish
  <2>2. CASE ingestion[j] = "review_ready" /\ recipes[j] = <<>>
    <3>1. /\ recipes' = [recipes EXCEPT ![j] = Append(recipes[j], d)]
          /\ ingestion' = [ingestion EXCEPT ![j] = "published"]
          /\ draft' = [draft EXCEPT ![j] = d]
          /\ review' = [review EXCEPT ![u] = NoReview]
      BY <1>6, <2>1, <2>2 DEF CommitPublish, SetReview
    <3>2. Append(recipes[j], d) \in Seq(Draft) /\ Len(Append(recipes[j], d)) = 1
      BY <2>2
    <3>3. PapersTypeOK'
      BY <1>k, <3>1, <3>2 DEF PapersTypeOK
    <3>4. \A v \in User : review'[v] = review[v] \/ review'[v] = NoReview
      BY <1>k, <3>1 DEF PapersTypeOK
    <3>5. /\ ingestion'[j] = "published" /\ Len(recipes'[j]) = 1
          /\ \A i \in Job \ {j} : ingestion'[i] = ingestion[i] /\ recipes'[i] = recipes[i] /\ draft'[i] = draft[i]
      BY <1>k, <3>1, <3>2 DEF PapersTypeOK
    <3>6. ReadIsReady' /\ ReviewedIsPublished'
      BY <1>k, <1>n, <3>4, <3>5 DEF ReadIsReady, ReviewedIsPublished
    <3>7. StoredByRequest' /\ NoEarlyDraft'
      BY <1>k, <1>6, <2>2, <3>5 DEF StoredByRequest, NoEarlyDraft
    <3>8. OneRecipe'
      BY <1>k, <3>5 DEF OneRecipe
    <3>9. QED
      BY <1>k, <1>t, <1>6, <3>3, <3>6, <3>7, <3>8 DEF PapersInv
  <2>3. CASE ~(ingestion[j] = "review_ready" /\ recipes[j] = <<>>)
    BY <1>5, <1>6, <2>1, <2>3 DEF CommitPublish
  <2>4. QED
    BY <2>2, <2>3
<1>7. ASSUME NEW u \in User, AbortPublish(u), UNCHANGED request
      PROVE  PapersInv'
  BY <1>5, <1>7 DEF AbortPublish
<1>8. QED
  <2>1. TypeOK
    BY DEF PapersInv
  <2>2. QED
    BY <1>1, <1>2, <1>3, <1>4, <1>6, <1>7, <2>1, PapersStep

\* An ingestion has one recipe once it is published and none before, however many
\* publish requests, extraction attempts and replays overlap (saveExtracted, publish).
THEOREM OneRecipeHolds == IngestionSpec => []OneRecipe
<1>1. PapersInv => OneRecipe
  BY DEF PapersInv
<1>2. QED
  BY <1>1, PapersInitially, PapersKept, PTL DEF IngestionSpec

\* What a reviewer accepts is what is stored, as long as it can still be published
\* (saveExtracted, publish).
THEOREM ReviewedIsPublishedHolds == IngestionSpec => []ReviewedIsPublished
<1>1. PapersInv => ReviewedIsPublished
  BY DEF PapersInv
<1>2. QED
  BY <1>1, PapersInitially, PapersKept, PTL DEF IngestionSpec
===============================================================================
