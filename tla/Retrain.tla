------------------------------- MODULE Retrain -------------------------------
(***************************************************************************)
(* One tenant's model: invocations of the retrain worker write it to       *)
(* staging, read it back, put it through the gate and promote it, while    *)
(* the containers of the API load and keep what production held.  The      *)
(* nightly event may be delivered twice and a failed invocation is         *)
(* repeated, so two workers may be at work on one tenant.                  *)
(*                                                                         *)
(* A model is the number of its training.  An item of the Models table     *)
(* holds a forest and statistics, and the code means both to come from the *)
(* same training.  DynamoDB may answer a get with what an item was before. *)
(***************************************************************************)
EXTENDS Integers

CONSTANTS
    Workers,        \* invocations of the worker that may overlap
    Containers,     \* warm containers of the API
    StaleReads,     \* whether a get may be answered with an earlier item
    MaxTrained      \* bound: models trained

ASSUME RetrainAssumption == StaleReads \in BOOLEAN /\ MaxTrained \in Nat \ {0}

VARIABLES
    stored,     \* the Models item of each stage
    earlier,    \* earlier items of each stage a get may still return
    trained,    \* models trained so far
    pc,         \* per worker, its next call
    meta,       \* per worker, staging_meta: the training its statistics are of
    staged,     \* per worker, staging_model: the training its forest is of
    cache,      \* per container, ModelManager._cache
    approved,   \* ghost: the models validate_model has approved
    promoted,   \* ghost: the items production has held
    exposed     \* ghost: trainings whose staging item was replaced, or read
                \* as it was before, when their worker read it back

retrainVars == <<stored, earlier, trained, pc, meta, staged, cache, approved, promoted, exposed>>

Stages == {"staging", "production"}
Models == 1..MaxTrained
Item == [forest : Models, stats : Models]
None == [forest |-> 0, stats |-> 0]

RetrainInit ==
    /\ stored = [s \in Stages |-> None]
    /\ earlier = [s \in Stages |-> {}]
    /\ trained = 0
    /\ pc = [w \in Workers |-> "idle"]
    /\ meta = [w \in Workers |-> 0]
    /\ staged = [w \in Workers |-> 0]
    /\ cache = [c \in Containers |-> None]
    /\ approved = {}
    /\ promoted = {}
    /\ exposed = {}

Gettable(stage) == {stored[stage]} \union earlier[stage]

Put(stage, item) ==
    /\ stored' = [stored EXCEPT ![stage] = item]
    /\ earlier' = IF StaleReads THEN [earlier EXCEPT ![stage] = @ \union {stored[stage]}]
                  ELSE earlier

Goto(w, call) == pc' = [pc EXCEPT ![w] = call]

-----------------------------------------------------------------------------
(* The retrain worker.                                                     *)

\* Mutant: a repeated invocation resumes after the training.
CollectResumes(w) ==
    /\ pc[w] = "idle"
    /\ Goto(w, IF meta[w] # 0 THEN "readback" ELSE "train")
    /\ UNCHANGED <<stored, earlier, trained, meta, staged, cache, approved, promoted, exposed>>

\* retrain_tenant has collected enough vectors.
Collect(w) ==
    /\ pc[w] = "idle"
    /\ Goto(w, "train")
    /\ UNCHANGED <<stored, earlier, trained, meta, staged, cache, approved, promoted, exposed>>

\* train_and_save: other workers that have not read their item back yet will
\* find this one in its place.
Train(w) ==
    /\ pc[w] = "train" /\ trained < MaxTrained
    /\ trained' = trained + 1
    /\ Put("staging", [forest |-> trained', stats |-> trained'])
    /\ meta' = [meta EXCEPT ![w] = trained']
    /\ exposed' = exposed \union {meta[v] : v \in {v \in Workers : pc[v] = "readback"}}
    /\ Goto(w, "readback")
    /\ UNCHANGED <<staged, cache, approved, promoted>>

\* The forest is what the stage holds, whoever put it there.
ReadBack(w) ==
    /\ pc[w] = "readback"
    /\ \E item \in Gettable("staging") :
         /\ staged' = [staged EXCEPT ![w] = item.forest]
         /\ exposed' = IF item = stored["staging"] THEN exposed ELSE exposed \union {meta[w]}
    /\ Goto(w, "validate")
    /\ UNCHANGED <<stored, earlier, trained, meta, cache, approved, promoted>>

\* validate_model approves the forest in hand.
Approve(w) ==
    /\ pc[w] = "validate" /\ staged[w] # 0
    /\ approved' = approved \union {staged[w]}
    /\ Goto(w, "promote")
    /\ UNCHANGED <<stored, earlier, trained, meta, staged, cache, promoted, exposed>>

\* The gate refuses, or there is no forest and decision_function raises: the
\* staged item stays, and production goes on serving.
Refuse(w) ==
    /\ pc[w] = "validate"
    /\ Goto(w, "idle")
    /\ UNCHANGED <<stored, earlier, trained, meta, staged, cache, approved, promoted, exposed>>

\* Mutant: the staging item is copied.
PromoteStaged(w) ==
    /\ pc[w] = "promote"
    /\ Put("production", stored["staging"])
    /\ promoted' = promoted \union {stored["staging"]}
    /\ Goto(w, "idle")
    /\ UNCHANGED <<trained, meta, staged, cache, approved, exposed>>

\* save_model with the forest read back and the statistics of this training.
Promote(w) ==
    /\ pc[w] = "promote"
    /\ LET item == [forest |-> staged[w], stats |-> meta[w]] IN
         /\ Put("production", item)
         /\ promoted' = promoted \union {item}
    /\ Goto(w, "idle")
    /\ UNCHANGED <<trained, meta, staged, cache, approved, exposed>>

\* A call raises or the invocation is cut off; a retry begins anew.
Abort(w) ==
    /\ pc[w] # "idle"
    /\ Goto(w, "idle")
    /\ UNCHANGED <<stored, earlier, trained, meta, staged, cache, approved, promoted, exposed>>

-----------------------------------------------------------------------------
(* The API's containers, and DynamoDB.                                     *)

\* Mutant: two reads, one for the forest and one for the statistics.
LoadTwice(c) ==
    /\ cache[c] = None
    /\ \E a, b \in Gettable("production") \ {None} :
         cache' = [cache EXCEPT ![c] = [forest |-> a.forest, stats |-> b.stats]]
    /\ UNCHANGED <<stored, earlier, trained, pc, meta, staged, approved, promoted, exposed>>

\* Mutant: the default stage of save_model.
LoadStaging(c) ==
    /\ cache[c] = None
    /\ \E item \in Gettable("staging") \ {None} : cache' = [cache EXCEPT ![c] = item]
    /\ UNCHANGED <<stored, earlier, trained, pc, meta, staged, approved, promoted, exposed>>

\* ModelManager.load finds the tenant in its cache, and nothing happens, or
\* reads the item once.  Without a usable model it caches nothing.
Load(c) ==
    /\ cache[c] = None
    /\ \E item \in Gettable("production") \ {None} : cache' = [cache EXCEPT ![c] = item]
    /\ UNCHANGED <<stored, earlier, trained, pc, meta, staged, approved, promoted, exposed>>

Recycle(c) ==
    /\ cache[c] # None
    /\ cache' = [cache EXCEPT ![c] = None]
    /\ UNCHANGED <<stored, earlier, trained, pc, meta, staged, approved, promoted, exposed>>

Forget(stage) ==
    /\ earlier[stage] # {}
    /\ earlier' = [earlier EXCEPT ![stage] = {}]
    /\ UNCHANGED <<stored, trained, pc, meta, staged, cache, approved, promoted, exposed>>

-----------------------------------------------------------------------------

Worker(w) ==
    Collect(w) \/ Train(w) \/ ReadBack(w) \/ Approve(w) \/ Refuse(w) \/ Promote(w) \/ Abort(w)

RetrainNext ==
    \/ \E w \in Workers : Worker(w)
    \/ \E c \in Containers : Load(c) \/ Recycle(c)
    \/ \E s \in Stages : Forget(s)

RetrainSpec == RetrainInit /\ [][RetrainNext]_retrainVars

\* Containers do not live for ever, and a write is seen in the end.
RetrainFairSpec ==
    /\ RetrainSpec
    /\ \A c \in Containers : WF_retrainVars(Recycle(c))
    /\ \A s \in Stages : WF_retrainVars(Forget(s))

-----------------------------------------------------------------------------
(* Properties.                                                             *)

\* The types, and that no model is approved, promoted or kept before it was
\* trained.
RetrainTypeOK ==
    /\ \A s \in Stages : Gettable(s) \subseteq Item \union {None}
    /\ trained \in 0..MaxTrained
    /\ pc \in [Workers -> {"idle", "train", "readback", "validate", "promote"}]
    /\ meta \in [Workers -> 0..trained] /\ staged \in [Workers -> 0..trained]
    /\ cache \in [Containers -> Item \union {None}]
    /\ approved \subseteq 1..trained /\ exposed \subseteq 1..trained
    /\ promoted \subseteq Item

\* However workers overlap and reads lag, the forest in production, and every
\* forest a container scores with, has passed the gate itself: a refused or
\* unexamined model never judges traffic.
OnlyApprovedServes ==
    \A item \in Gettable("production") \union {cache[c] : c \in Containers} :
        item # None => item.forest \in approved

\* A container's forest and statistics were one item of production together,
\* so a score is never tiered against the statistics of a later promotion.
CachedTogether == \A c \in Containers : cache[c] # None => cache[c] \in promoted

\* Production pairs a forest with another training's statistics only if,
\* before the worker read its own item back, another worker had replaced it
\* or the read was answered from before.
MixedOnlyByRace ==
    LET item == stored["production"] IN
        item.forest # item.stats => item.stats \in exposed

\* Once no more models are promoted, every container comes to serve the last
\* one or, until it has loaded it, none.
ServingCatchesUp == <>[](\A c \in Containers : cache[c] \in {None, stored["production"]})

=============================================================================
