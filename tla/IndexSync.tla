------------------------------ MODULE IndexSync ------------------------------
(* Schema maintenance of the MongoDB database: gateway/migrate.ts, which       *)
(* creates what is missing, and scripts/sync-mongodb-indexes.ts, which plans   *)
(* and applies the difference between the managed indexes of one collection    *)
(* and those the database has.  Every drop and every create is a command of    *)
(* its own, and the script may end between two of them.                        *)
EXTENDS Naturals, Sequences, FiniteSets, SequencesExt

CONSTANTS
    IndexName,     \* names an index can have, "_id_" apart
    IndexShape,    \* keys and options, up to indexesMatch
    Managed,       \* the indexes gateway/schema.ts lists, in its order
    NoIndex,       \* what the database has under a name it does not use
    SyncBound      \* bound: how many runs of the scripts an instance follows

\* Every managed index has a name of its own and a shape of its own.
ASSUME IndexAssumption ==
    /\ Managed \in Seq([name : IndexName, shape : IndexShape])
    /\ \A i, j \in DOMAIN Managed : i # j => /\ Managed[i].name # Managed[j].name
                                             /\ Managed[i].shape # Managed[j].shape
    /\ IsFiniteSet(IndexName) /\ NoIndex \notin IndexShape
    /\ SyncBound \in Nat

VARIABLES
    indexes,    \* what the collection has: a shape or NoIndex under each name
    collection, \* whether the collection exists
    syncPlan,   \* the actions the running sync has left
    syncPhase,  \* "fresh", "idle", "applying", "done" or "failed"
    syncRuns    \* runs of the scripts so far, up to SyncBound

indexVars == <<indexes, collection, syncPlan, syncPhase, syncRuns>>

ManagedNames == {Managed[i].name : i \in DOMAIN Managed}
ManagedIndexes == [n \in IndexName |->
    IF n \in ManagedNames
    THEN Managed[CHOOSE i \in DOMAIN Managed : Managed[i].name = n].shape
    ELSE NoIndex]

\* No two indexes of a collection have one shape: the server refuses the second.
IndexSets == {f \in [IndexName -> IndexShape \cup {NoIndex}] :
                \A m, n \in IndexName : f[m] = f[n] /\ m # n => f[m] = NoIndex}

-------------------------------------------------------------------------------
(* planCollectionIndexSync                                                     *)

Drop(n)   == [type |-> "drop", name |-> n]
Create(i) == [type |-> "create", name |-> i.name, shape |-> i.shape]

\* Mutant: an index of the right name is taken to be the right index.
NamedAlike(i, actual) == actual[i.name] # NoIndex
\* indexesMatch: the index of that name has the key and the options expected.
Matches(i, actual) == actual[i.name] = i.shape
\* The index that has the shape of i under another name, if there is one.
Equivalent(i, actual) == {n \in IndexName \ {i.name} : actual[n] = i.shape}

\* Mutant: every namesake is replaced, whether it matches or not.
DropNamesakes(i, actual) ==
    (IF actual[i.name] # NoIndex THEN <<Drop(i.name)>> ELSE <<>>)
    \o SetToSeq({Drop(n) : n \in Equivalent(i, actual)})
\* What has to go before i can be created: its namesake, then its equivalent.
PreDrops(i, actual) ==
    IF Matches(i, actual) THEN <<>>
    ELSE (IF actual[i.name] # NoIndex THEN <<Drop(i.name)>> ELSE <<>>)
         \o SetToSeq({Drop(n) : n \in Equivalent(i, actual)})

PlanSync(actual) ==
    LET replaced == {k \in DOMAIN Managed : PreDrops(Managed[k], actual) # <<>>}
        missing  == {k \in DOMAIN Managed \ replaced : ~Matches(Managed[k], actual)}
        Creates(wanted) == FlattenSeq([k \in DOMAIN Managed |->
                               IF k \in wanted THEN <<Create(Managed[k])>> ELSE <<>>])
        preDrops == FlattenSeq([i \in DOMAIN Managed |-> PreDrops(Managed[i], actual)])
        Dropped  == {preDrops[k].name : k \in DOMAIN preDrops}
        Obsolete == {n \in IndexName : actual[n] # NoIndex /\ n \notin ManagedNames \cup Dropped}
    IN  Creates(missing) \o preDrops \o Creates(replaced) \o SetToSeq({Drop(n) : n \in Obsolete})

-------------------------------------------------------------------------------
(* The scripts                                                                 *)

\* What the server does with a command on an index set; a command it refuses
\* makes the driver throw.
Refuses(command, actual) ==
    IF command.type = "drop" THEN actual[command.name] = NoIndex
    ELSE \/ actual[command.name] \notin {NoIndex, command.shape}
         \/ Equivalent(command, actual) # {}
Applied(command, actual) ==
    [actual EXCEPT ![command.name] = IF command.type = "drop" THEN NoIndex ELSE command.shape]

\* resolveIndexSyncTarget: production is changed only with --confirm-production.
MayApply(environment, dryRun, confirmed) ==
    environment = "production" /\ ~dryRun => confirmed

IndexInit ==
    /\ indexes = [n \in IndexName |-> NoIndex]
    /\ collection = FALSE
    /\ syncPlan = <<>>
    /\ syncPhase = "fresh"
    /\ syncRuns = 0

\* The database as an earlier release left it, or without the collection.
Deployed(old) ==
    /\ syncPhase = "fresh"
    /\ indexes' = old /\ collection' = TRUE
    /\ syncPhase' = "idle"
    /\ UNCHANGED <<syncPlan, syncRuns>>

\* ensureMongoSchema: the collection, then all its indexes in one command, which
\* the server refuses as a whole when one of them collides.
Migrate ==
    /\ syncPhase # "applying" /\ syncRuns < SyncBound
    /\ collection' = TRUE
    /\ LET refused == \E i \in DOMAIN Managed : Refuses(Create(Managed[i]), indexes)
       IN  /\ indexes' = IF refused THEN indexes
                         ELSE [n \in IndexName |-> IF n \in ManagedNames THEN ManagedIndexes[n]
                                                   ELSE indexes[n]]
           /\ syncPhase' = IF refused THEN "failed" ELSE "idle"
    /\ syncRuns' = syncRuns + 1
    /\ UNCHANGED syncPlan

\* syncMongoIndexes up to the plan; a dry run only prints it.
StartSync(environment, dryRun, confirmed) ==
    /\ syncPhase # "applying" /\ syncRuns < SyncBound
    /\ MayApply(environment, dryRun, confirmed)
    /\ syncRuns' = syncRuns + 1
    /\ IF dryRun
       THEN UNCHANGED <<indexes, collection, syncPlan, syncPhase>>
       ELSE /\ collection' = TRUE
            /\ syncPlan' = PlanSync(indexes)
            /\ syncPhase' = "applying"
            /\ UNCHANGED indexes

ApplyNext ==
    /\ syncPhase = "applying" /\ syncPlan # <<>>
    /\ IF Refuses(Head(syncPlan), indexes)
       THEN /\ syncPhase' = "failed" /\ syncPlan' = <<>>
            /\ UNCHANGED indexes
       ELSE /\ indexes' = Applied(Head(syncPlan), indexes)
            /\ syncPlan' = Tail(syncPlan)
            /\ UNCHANGED syncPhase
    /\ UNCHANGED <<collection, syncRuns>>

EndSync ==
    /\ syncPhase = "applying" /\ syncPlan = <<>>
    /\ syncPhase' = "done"
    /\ UNCHANGED <<indexes, collection, syncPlan, syncRuns>>

\* The script is interrupted, or loses its connection, between two commands.
Interrupt ==
    /\ syncPhase = "applying"
    /\ syncPhase' = "failed" /\ syncPlan' = <<>>
    /\ UNCHANGED <<indexes, collection, syncRuns>>

IndexNext ==
    \/ \E old \in IndexSets : Deployed(old)
    \/ Migrate
    \/ \E e \in {"local", "production"}, dryRun, confirmed \in BOOLEAN : StartSync(e, dryRun, confirmed)
    \/ ApplyNext \/ EndSync \/ Interrupt

IndexSpec == IndexInit /\ [][IndexNext]_indexVars

-------------------------------------------------------------------------------
(* A sync that reports success has made the indexes those of the schema,       *)
(* whatever an earlier release, an interrupted sync or a migration left        *)
(* (index-sync.ts: planCollectionIndexSync and syncMongoIndexes).              *)
SyncedIsManaged == syncPhase = "done" => indexes = ManagedIndexes

(* A sync never takes away an index that is already as the schema wants it: a  *)
(* unique index that guards inserts is not even gone for a moment.             *)
GoodIndexesStay ==
    [][\A n \in ManagedNames :
          syncPhase = "applying" /\ indexes[n] = ManagedIndexes[n] => indexes'[n] = indexes[n]
      ]_indexVars
===============================================================================
