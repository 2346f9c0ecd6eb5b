------------------------- MODULE AssetUploadsProofs -------------------------
(***************************************************************************)
(* What AssetUploads promises, for any assets, uploadComplete requests and *)
(* quota, and any number of failures, disconnects and restarts: the        *)
(* credentials of an upload are taken once, an uploading asset is          *)
(* accounted for, and files belong to an asset.                            *)
(***************************************************************************)
EXTENDS AssetUploads, FiniteSetTheorems, TLAPS

Held(c, a) == comp[c].of = a /\ comp[c].at # "take"

(* Only a create that is over has anything else going on for its asset.       *)
FreshIsAlone(a) ==
    create[a] # "ended" =>
        /\ a \notin ion /\ a \notin job /\ a \notin storing /\ expiring[a] = "none"
        /\ \A c \in Completers : comp[c].of # a

(* The status WriteAsset and CreateAsset give, unless the row went since.     *)
AsPrepared(a) ==
    asset[a] = "gone" \/ asset[a] = (IF a \in served THEN "ready" ELSE "uploading")

CreateRows(a) ==
    /\ create[a] \in {"none", "ion version", "credentials", "ion undo"} => dir[a] = {}
    /\ create[a] \in {"none", "stream", "prepare", "row"} => asset[a] = "absent"
    /\ create[a] \in {"version", "submit", "undo"} => AsPrepared(a)
    /\ create[a] \in {"ion version", "credentials", "ion undo"} =>
           asset[a] \in {"uploading", "gone"}
    /\ create[a] = "discard" => asset[a] # "uploading" \/ a \in mishap

IonAndJobRows(a) ==
    /\ a \in ion => asset[a] = "uploading" /\ a \notin job /\ expiring[a] = "none"
    /\ a \in job => HasRow(a)

OneHolder(a) ==
    \A c \in Completers : Held(c, a) =>
        /\ a \notin ion /\ a \notin job /\ expiring[a] = "none"
        /\ \A d \in Completers : Held(d, a) => d = c

HolderRows(a) ==
    \A c \in Completers : comp[c].of = a =>
        /\ comp[c].at \in {"gather", "move", "sweep", "prepare", "write"} =>
               asset[a] \in {"uploading", "gone"}
        /\ comp[c].at = "submit" => AsPrepared(a)
        /\ comp[c].at = "clear" => asset[a] # "uploading" \/ a \in mishap

EndedRows(a) ==
    /\ expiring[a] = "clear" => asset[a] # "uploading" \/ a \in mishap
    /\ deleter[a] = "dir" => asset[a] = "gone"
    /\ deleter[a] # "idle" => asset[a] # "absent"

GoneLeavesNothing(a) ==
    asset[a] = "gone" /\ a \notin mishap /\ a \notin late =>
        dir[a] = {} \/ deleter[a] = "dir" \/ create[a] = "discard"

Accounted(a) ==
    asset[a] = "uploading" /\ a \notin mishap => a \in job \/ a \in ion \/ Working(a)

Owned(a) ==
    dir[a] # {} /\ a \notin mishap /\ a \notin late =>
        \/ asset[a] \in {"uploading", "ready"}
        \/ asset[a] = "error" /\ a \in job
        \/ Working(a)

AssetInv(a) ==
    /\ FreshIsAlone(a) /\ CreateRows(a) /\ IonAndJobRows(a) /\ OneHolder(a) /\ HolderRows(a)
    /\ EndedRows(a) /\ GoneLeavesNothing(a) /\ Accounted(a) /\ Owned(a)

Inv == TypeOK /\ \A a \in Assets : AssetInv(a)

(* Before anything happens.                                                   *)
LEMMA InitInv == Init => Inv
<1> SUFFICES ASSUME Init PROVE Inv
  OBVIOUS
<1> USE IdsAssumption, BoundsAssumption DEF Init
<1>1. TypeOK
  BY DEF TypeOK, Statuses, CreateSteps, CompSteps
<1>2. ASSUME NEW a \in Assets PROVE AssetInv(a)
  BY DEF AssetInv, FreshIsAlone, CreateRows, IonAndJobRows, OneHolder, Held, HolderRows,
         EndedRows, GoneLeavesNothing, Accounted, Owned
<1>3. QED
  BY <1>1, <1>2 DEF Inv

(* A step that leaves all of an asset alone keeps what holds of it.           *)
Untouched(a) ==
    /\ asset'[a] = asset[a] /\ create'[a] = create[a] /\ dir'[a] = dir[a]
    /\ expiring'[a] = expiring[a] /\ deleter'[a] = deleter[a]
    /\ a \in ion' <=> a \in ion
    /\ a \in job' <=> a \in job
    /\ a \in served' <=> a \in served
    /\ a \in storing' <=> a \in storing
    /\ a \in mishap' <=> a \in mishap
    /\ a \in late' <=> a \in late
    /\ \A c \in Completers : comp[c].of = a \/ comp'[c].of = a => comp'[c] = comp[c]

(* Such a step keeps what holds of the asset.                                 *)
LEMMA UntouchedKeeps ==
    ASSUME NEW a \in Assets, AssetInv(a), Untouched(a)
    PROVE  AssetInv(a)'
<1> USE DEF Untouched, AssetInv
<1>1. FreshIsAlone(a)' /\ CreateRows(a)' /\ IonAndJobRows(a)'
  BY DEF FreshIsAlone, CreateRows, AsPrepared, IonAndJobRows, HasRow
<1>2. OneHolder(a)' /\ HolderRows(a)'
  BY DEF OneHolder, Held, HolderRows, AsPrepared
<1>3. EndedRows(a)' /\ GoneLeavesNothing(a)'
  BY DEF EndedRows, GoneLeavesNothing
<1>4. Accounted(a)' /\ Owned(a)'
  BY DEF Accounted, Owned, Working
<1>5. QED
  BY <1>1, <1>2, <1>3, <1>4

-----------------------------------------------------------------------------
(* What one asset's create, files, expiry and delete do.                      *)
CreateAct(a) == Stream(a) \/ CreateIon(a) \/ CreateStep(a)
OtherAct(a)  ==
    \/ PutObject(a) \/ StoreObject(a) \/ Expire(a) \/ Tiled(a)
    \/ FailExpired(a) \/ ClearExpired(a) \/ DeleteJobs(a) \/ DeleteStep(a)
    \/ CutCreate(a) \/ CutDelete(a)

(* A statement works or fails.                                                *)
LEMMA MishapsCounted ==
    ASSUME TypeOK, Works \/ Fails
    PROVE  mishaps' \in 0..MaxMishaps
BY BoundsAssumption DEF TypeOK, Works, Fails

(* Everything but uploadComplete, the tick and a restart is of one asset;     *)
(* it keeps the kinds of the variables,                                       *)
LEMMA ActTypes ==
    ASSUME TypeOK, NEW x \in Assets, CreateAct(x) \/ OtherAct(x)
    PROVE  TypeOK'
<1> USE DEF CreateAct, CreateStep, Stream, CreateIon, FinishInput, Prepare,
            CreateAsset, AddVersion,
            Undo, Discard, Submit, CreateIonUpload, Goto, OtherAct, PutObject,
            StoreObject,
            Expire, Tiled, FailExpired, ClearExpired, Updated, DeleteJobs, DeleteStep,
            DeleteIon, DeleteRow, DeleteDir, Deleting, CutCreate, CutDelete, Emptied,
            rows, ghosts
<1>1. (Works \/ Fails) /\ others' = others /\ comp' = comp
  BY DEF Works
<1>2. asset' \in [Assets -> Statuses]
  BY DEF TypeOK, Statuses
<1>3. create' \in [Assets -> CreateSteps]
  BY DEF TypeOK, CreateSteps
<1>4. ion' \in SUBSET Assets /\ job' \in SUBSET Assets /\ served' \in SUBSET Assets
  <2>1. ion' \in SUBSET Assets
    BY DEF TypeOK
  <2>2. job' \in SUBSET Assets
    <3>1. job' = job \/ job' = job \cup {x} \/ job' = job \ {x}
      OBVIOUS
    <3>2. job \in SUBSET Assets
      BY DEF TypeOK
    <3>3. QED
      BY <3>1, <3>2
  <2>3. served' \in SUBSET Assets
    BY DEF TypeOK
  <2>4. QED
    BY <2>1, <2>2, <2>3
<1>5. due' \in SUBSET Assets /\ storing' \in SUBSET Assets
  BY DEF TypeOK
<1>6. mishap' \in SUBSET Assets /\ late' \in SUBSET Assets
  BY DEF TypeOK
<1>7. dir' \in [Assets -> SUBSET {"stream", "staged", "input"}]
  <2>1. \/ dir' = dir
        \/ \E files \in SUBSET {"stream", "staged", "input"} : dir' = [dir EXCEPT ![x] = files]
        \/ dir' = [dir EXCEPT ![x] = dir[x] \cup {"staged"}]
    OBVIOUS
  <2>2. dir[x] \cup {"staged"} \in SUBSET {"stream", "staged", "input"}
    BY DEF TypeOK
  <2>3. dir \in [Assets -> SUBSET {"stream", "staged", "input"}]
    BY DEF TypeOK
  <2> HIDE DEF CreateAct, OtherAct
  <2>4. QED
    BY <2>1, <2>2, <2>3
<1>8. expiring' \in [Assets -> {"none", "fail", "clear"}]
  BY DEF TypeOK
<1>9. deleter' \in [Assets -> {"idle", "ion", "row", "dir"}]
  BY DEF TypeOK
<1>10. QED
  BY <1>1, <1>2, <1>3, <1>4, <1>5, <1>6, <1>7, <1>8, <1>9, MishapsCounted DEF TypeOK

(* leaves every other asset alone,                                            *)
LEMMA OthersUntouched ==
    ASSUME TypeOK, NEW x \in Assets, CreateAct(x) \/ OtherAct(x), NEW b \in Assets, b # x
    PROVE  Untouched(b)
<1> USE DEF CreateAct, CreateStep, Stream, CreateIon, FinishInput, Prepare,
            CreateAsset, AddVersion,
            Undo, Discard, Submit, CreateIonUpload, Goto, OtherAct, PutObject,
            StoreObject,
            Expire, Tiled, FailExpired, ClearExpired, Updated, DeleteJobs, DeleteStep,
            DeleteIon, DeleteRow, DeleteDir, Deleting, CutCreate, CutDelete, Emptied,
            rows, ghosts
<1>1. comp' = comp
  OBVIOUS
<1>2. asset'[b] = asset[b] /\ create'[b] = create[b] /\ dir'[b] = dir[b]
  BY DEF TypeOK
<1>3. expiring'[b] = expiring[b] /\ deleter'[b] = deleter[b]
  BY DEF TypeOK
<1>4. /\ b \in ion' <=> b \in ion
      /\ b \in job' <=> b \in job
      /\ b \in served' <=> b \in served
      /\ b \in storing' <=> b \in storing
  <2>1. b \in ion' <=> b \in ion
    OBVIOUS
  <2>2. b \in job' <=> b \in job
    OBVIOUS
  <2>3. b \in served' <=> b \in served
    OBVIOUS
  <2>4. b \in storing' <=> b \in storing
    OBVIOUS
  <2>5. QED
    BY <2>1, <2>2, <2>3, <2>4
<1>5. /\ b \in mishap' <=> b \in mishap
      /\ b \in late' <=> b \in late
  BY DEF TypeOK
<1>6. QED
  BY <1>1, <1>2, <1>3, <1>4, <1>5 DEF Untouched

(* Of the asset a create is at work on, nothing else is.                      *)
Rows(a) ==
    CreateRows(a) /\ IonAndJobRows(a) /\ EndedRows(a) /\ GoneLeavesNothing(a)
    /\ Accounted(a) /\ Owned(a)

(* The steps of a create keep what they can disturb.                          *)
LEMMA CreateKeeps ==
    ASSUME Inv, NEW x \in Assets, CreateAct(x)
    PROVE  AssetInv(x)'
<1>1. /\ TypeOK /\ Rows(x) /\ create[x] # "ended"
      /\ x \notin ion /\ x \notin job /\ x \notin storing /\ expiring[x] = "none"
      /\ \A c \in Completers : comp[c].of # x
  <2>1. create[x] # "ended"
    BY DEF CreateAct, CreateStep, Stream, CreateIon, FinishInput, Prepare, CreateAsset,
           AddVersion, Undo, Discard, Submit, CreateIonUpload, Goto
  <2>2. QED
    BY <2>1 DEF Inv, AssetInv, FreshIsAlone, Rows
<1>2. UNCHANGED <<comp, storing, expiring, deleter, late>>
  BY DEF CreateAct, CreateStep, Stream, CreateIon, FinishInput, Prepare, CreateAsset,
         AddVersion, Undo, Discard, Submit, CreateIonUpload, ghosts
<1>3. OneHolder(x)' /\ HolderRows(x)'
  BY <1>1, <1>2 DEF OneHolder, Held, HolderRows
<1> USE DEF Rows, CreateRows, IonAndJobRows, EndedRows, GoneLeavesNothing, Accounted,
            Owned,
            Working, AsPrepared, HasRow, FreshIsAlone
<1> DEFINE Goal == FreshIsAlone(x)' /\ Rows(x)'
           Still == UNCHANGED <<asset, ion, job, served, mishap>>
<1>4. ASSUME Stream(x) PROVE Goal
  <2>1. create[x] = "none" /\ create'[x] = "stream" /\ Still
    BY <1>1, <1>4 DEF Stream, Goto, TypeOK, rows, ghosts
  <2>2. QED
    BY <1>1, <1>2, <2>1
<1>5. ASSUME FinishInput(x) PROVE Goal
  <2>1. create[x] = "stream" /\ create'[x] \in {"prepare", "discard"} /\ Still
    BY <1>1, <1>5 DEF FinishInput, Goto, TypeOK, rows, ghosts
  <2>2. QED
    BY <1>1, <1>2, <2>1
<1>6. ASSUME Prepare(x) PROVE Goal
  <2>1. /\ create[x] = "prepare" /\ create'[x] \in {"row", "discard"}
        /\ UNCHANGED <<asset, ion, job, dir, mishap>>
    BY <1>1, <1>6 DEF Prepare, Goto, TypeOK, ghosts
  <2>2. QED
    BY <1>1, <1>2, <2>1
<1>7. ASSUME CreateAsset(x) PROVE Goal
  <2>1. /\ UNCHANGED <<ion, job, served, dir, mishap>> /\ create[x] = "row"
        /\ \/ create'[x] = "version" /\ AsPrepared(x)' /\ HasRow(x)'
           \/ create'[x] = "discard" /\ UNCHANGED asset
    BY <1>1, <1>7 DEF CreateAsset, Goto, TypeOK, ghosts, AsPrepared
  <2>2. QED
    BY <1>1, <1>2, <2>1
<1>8. ASSUME AddVersion(x) PROVE Goal
  <2>1. /\ Still /\ UNCHANGED dir
        /\ \/ create[x] = "version" /\ create'[x] \in {"submit", "undo"}
           \/ create[x] = "ion version" /\ create'[x] \in {"credentials", "ion undo"}
    BY <1>1, <1>8 DEF AddVersion, Goto, TypeOK, rows, ghosts
  <2>2. QED
    BY <1>1, <1>2, <2>1
<1>9. ASSUME Undo(x) PROVE Goal
  <2>1. /\ UNCHANGED <<ion, job, served, dir>>
        /\ \/ create[x] = "undo" /\ create'[x] = "discard"
           \/ create[x] = "ion undo" /\ create'[x] = "ended"
        /\ \/ asset'[x] = "gone" /\ UNCHANGED mishap
           \/ UNCHANGED asset /\ x \in mishap' 
    BY <1>1, <1>9 DEF Undo, Goto, TypeOK
  <2>2. QED
    BY <1>1, <1>2, <2>1
<1>10. ASSUME Discard(x) PROVE Goal
  <2>1. create[x] = "discard" /\ create'[x] = "ended" /\ dir'[x] = {} /\ Still
    BY <1>1, <1>10 DEF Discard, Goto, Emptied, TypeOK, rows, ghosts
  <2>2. QED
    BY <1>1, <1>2, <2>1
<1>11. ASSUME Submit(x) PROVE Goal
  <2>1. /\ create[x] = "submit" /\ create'[x] = "ended" /\ UNCHANGED <<asset, ion, served, dir>>
        /\ \/ UNCHANGED <<job, mishap>> /\ (x \in served \/ ~HasRow(x))
           \/ x \in job' /\ HasRow(x) /\ UNCHANGED mishap
           \/ x \in mishap' /\ UNCHANGED job
    BY <1>1, <1>11 DEF Submit, Goto, TypeOK
  <2>2. QED
    BY <1>1, <1>2, <2>1
<1>12. ASSUME CreateIon(x) PROVE Goal
  <2>1. /\ create[x] = "none" /\ create'[x] = "ion version" /\ asset'[x] = "uploading"
        /\ UNCHANGED <<ion, job, served, dir, mishap>>
    BY <1>1, <1>12 DEF CreateIon, Goto, TypeOK, ghosts
  <2>2. QED
    BY <1>1, <1>2, <2>1
<1>13. ASSUME CreateIonUpload(x) PROVE Goal
  <2>1. /\ create[x] = "credentials" /\ UNCHANGED <<asset, job, served, dir, mishap>>
        /\ \/ create'[x] = "ended" /\ x \in ion' /\ HasRow(x)
           \/ create'[x] = "ion undo" /\ UNCHANGED ion
    BY <1>1, <1>13 DEF CreateIonUpload, TypeOK, ghosts
  <2>2. QED
    BY <1>1, <1>2, <2>1
<1>14. QED
  BY <1>3, <1>4, <1>5, <1>6, <1>7, <1>8, <1>9, <1>10, <1>11, <1>12, <1>13
     DEF CreateAct, CreateStep, AssetInv

(* What files, expiry, delete and the queue do to an asset.                   *)
LEMMA OtherKeeps ==
    ASSUME Inv, NEW x \in Assets, OtherAct(x)
    PROVE  AssetInv(x)'
<1>1. TypeOK /\ AssetInv(x)
  BY DEF Inv
<1>2. comp' = comp /\ served' = served
  BY DEF OtherAct, PutObject, StoreObject, Expire, Tiled, FailExpired, ClearExpired,
         DeleteJobs,
         DeleteStep, DeleteIon, DeleteRow, DeleteDir, CutCreate, CutDelete, rows
<1> USE DEF FreshIsAlone, CreateRows, IonAndJobRows, OneHolder, Held, HolderRows,
            EndedRows,
            GoneLeavesNothing, Accounted, Owned, AssetInv, Working, AsPrepared, HasRow
<1> DEFINE StillRows == UNCHANGED <<asset, create, ion, job>>
           StillTasks == UNCHANGED <<storing, expiring, deleter>>
           StillGhosts == UNCHANGED <<mishap, late>>
<1>3. ASSUME PutObject(x) PROVE AssetInv(x)'
  <2>1. StillRows /\ StillGhosts /\ UNCHANGED <<dir, expiring, deleter>> /\ x \in ion
    BY <1>1, <1>3 DEF PutObject, rows, ghosts
  <2>2. QED
    BY <1>1, <1>2, <2>1
<1>4. ASSUME StoreObject(x) PROVE AssetInv(x)'
  <2>1. /\ StillRows /\ UNCHANGED <<expiring, deleter, mishap>> 
        /\ x \in storing /\ x \notin storing'
        /\ \/ x \in ion /\ UNCHANGED late
           \/ x \in late'
           \/ UNCHANGED <<dir, late>>
    BY <1>1, <1>4 DEF StoreObject, rows, TypeOK
  <2>2. QED
    BY <1>1, <1>2, <2>1
<1>5. ASSUME Expire(x) PROVE AssetInv(x)'
  <2>1. StillRows /\ StillTasks /\ StillGhosts /\ UNCHANGED dir
    BY <1>1, <1>5 DEF Expire, rows, ghosts
  <2>2. QED
    BY <1>1, <1>2, <2>1
<1>6. ASSUME Tiled(x) PROVE AssetInv(x)'
  <2>1. /\ UNCHANGED <<create, ion, job, dir>> /\ StillTasks /\ StillGhosts
        /\ x \in job /\ asset[x] = "uploading" /\ asset'[x] \in {"ready", "error"}
    BY <1>1, <1>6 DEF Tiled, ghosts, TypeOK
  <2>2. QED
    BY <1>1, <1>2, <2>1
<1>7. ASSUME FailExpired(x) PROVE AssetInv(x)'
  <2>1. /\ UNCHANGED <<create, ion, job, dir, storing, deleter, late>>
        /\ expiring[x] = "fail" /\ expiring'[x] = "clear"
        /\ \/ UNCHANGED mishap /\ asset'[x] = IF HasRow(x) THEN "error" ELSE asset[x]
           \/ UNCHANGED asset /\ x \in mishap' 
    BY <1>1, <1>7 DEF FailExpired, Updated, TypeOK
  <2>2. QED
    BY <1>1, <1>2, <2>1
<1>8. ASSUME ClearExpired(x) PROVE AssetInv(x)'
  <2>1. /\ StillRows /\ StillGhosts /\ UNCHANGED <<storing, deleter>>
        /\ expiring[x] = "clear" /\ expiring'[x] = "none" /\ dir'[x] = {}
    BY <1>1, <1>8 DEF ClearExpired, Emptied, rows, ghosts, TypeOK
  <2>2. QED
    BY <1>1, <1>2, <2>1
<1>9. ASSUME DeleteJobs(x) PROVE AssetInv(x)'
  <2>1. /\ UNCHANGED <<asset, create, ion, dir, storing, expiring>> /\ StillGhosts
        /\ HasRow(x) /\ x \notin job' /\ deleter[x] = "idle" /\ deleter'[x] = "ion"
    BY <1>1, <1>9 DEF DeleteJobs, Deleting, ghosts, TypeOK
  <2>2. QED
    BY <1>1, <1>2, <2>1
<1>10. ASSUME DeleteIon(x) PROVE AssetInv(x)'
  <2>1. /\ UNCHANGED <<asset, create, job, dir, storing, expiring>> /\ StillGhosts
        /\ x \notin ion' /\ deleter[x] = "ion" /\ deleter'[x] = "row"
    BY <1>1, <1>10 DEF DeleteIon, Deleting, ghosts, TypeOK
  <2>2. QED
    BY <1>1, <1>2, <2>1
<1>11. ASSUME DeleteRow(x) PROVE AssetInv(x)'
  <2>1. /\ UNCHANGED <<create, ion, job, dir, storing, expiring>>
        /\ StillGhosts /\ deleter[x] = "row"
        /\ \/ x \notin job /\ x \notin ion /\ deleter'[x] = "dir" /\ asset'[x] = "gone"
           \/ (x \in job \/ x \in ion) /\ deleter'[x] = "idle" /\ UNCHANGED asset
    BY <1>1, <1>11 DEF DeleteRow, Deleting, ghosts, TypeOK
  <2>2. QED
    BY <1>1, <1>2, <2>1
<1>12. ASSUME DeleteDir(x) PROVE AssetInv(x)'
  <2>1. /\ StillRows /\ StillGhosts /\ UNCHANGED <<storing, expiring>>
        /\ deleter[x] = "dir" /\ deleter'[x] = "idle" /\ dir'[x] = {}
    BY <1>1, <1>12 DEF DeleteDir, Deleting, Emptied, rows, ghosts, TypeOK
  <2>2. QED
    BY <1>1, <1>2, <2>1
<1>13. ASSUME CutCreate(x) PROVE AssetInv(x)'
  <2>1. /\ UNCHANGED <<asset, ion, job, dir, late>> /\ StillTasks
        /\ create'[x] = "ended" /\ x \in mishap' 
    BY <1>1, <1>13 DEF CutCreate, rows, TypeOK
  <2>2. QED
    BY <1>1, <1>2, <2>1
<1>14. ASSUME CutDelete(x) PROVE AssetInv(x)'
  <2>1. /\ StillRows /\ UNCHANGED <<dir, storing, expiring, late>>
        /\ deleter'[x] = "idle" /\ x \in mishap' 
    BY <1>1, <1>14 DEF CutDelete, rows, TypeOK
  <2>2. QED
    BY <1>1, <1>2, <2>1
<1>15. QED
  BY <1>3, <1>4, <1>5, <1>6, <1>7, <1>8, <1>9, <1>10, <1>11, <1>12, <1>13, <1>14
     DEF OtherAct, DeleteStep

-----------------------------------------------------------------------------
(* uploadComplete                                                             *)
CompleteAct(c) == CompleteStep(c) \/ CutComplete(c)

CompOK ==
    /\ comp \in [Completers -> [at : CompSteps, of : Assets \cup {NoAsset}]]
    /\ \A c \in Completers : comp[c].at = "idle" <=> comp[c].of = NoAsset

(* A request goes on to its next await and stays with its asset.              *)
LEMMA AwaitMoves ==
    ASSUME CompOK, NEW c \in Completers, NEW at \in CompSteps, at # "idle",
           comp[c].at # "idle", Await(c, at)
    PROVE  /\ CompOK' /\ comp'[c].at = at /\ comp'[c].of = comp[c].of
           /\ \A d \in Completers \ {c} : comp'[d] = comp[d]
BY DEF CompOK, CompSteps, Await

(* A request returns and is about no asset.                                   *)
LEMMA ReturnMoves ==
    ASSUME CompOK, NEW c \in Completers, Return(c)
    PROVE  /\ CompOK' /\ comp'[c].at = "idle" /\ comp'[c].of = NoAsset
           /\ \A d \in Completers \ {c} : comp'[d] = comp[d]
BY DEF CompOK, CompSteps, Return

(* Whatever uploadComplete does, no other request moves.                      *)
LEMMA CompleteMoves ==
    ASSUME CompOK, NEW c \in Completers, CompleteAct(c)
    PROVE  /\ CompOK' /\ comp[c].of \in Assets
           /\ comp'[c].of \in {comp[c].of, NoAsset}
           /\ \A d \in Completers \ {c} : comp'[d] = comp[d]
<1>1. comp[c].at # "idle"
  BY DEF CompleteAct, CompleteStep, Take, Gather, MoveInput, Sweep, PrepareInput,
         WriteAsset,
         SubmitJob, FailUpload, ClearUpload, CutComplete
<1>2. comp[c].of \in Assets
  BY <1>1 DEF CompOK
<1>3. Return(c) \/ \E at \in CompSteps \ {"idle"} : Await(c, at)
  <2>1. {"gather", "move", "sweep", "prepare", "write", "submit", "fail", "clear"}
            \subseteq CompSteps \ {"idle"}
    BY DEF CompSteps
  <2>2. QED
    BY <2>1 DEF CompleteAct, CompleteStep, Take, Gather, MoveInput, Sweep, PrepareInput,
                WriteAsset, SubmitJob, FailUpload, ClearUpload, CutComplete
<1>4. QED
  BY <1>1, <1>2, <1>3, AwaitMoves, ReturnMoves

(* uploadComplete keeps the kinds of the variables,                           *)
LEMMA CompleteTypes ==
    ASSUME TypeOK, NEW c \in Completers, CompleteAct(c)
    PROVE  TypeOK'
<1>1. CompOK' /\ comp[c].of \in Assets
  BY CompleteMoves DEF TypeOK, CompOK
<1> USE DEF CompleteAct, CompleteStep, Take, Gather, MoveInput, Sweep, PrepareInput,
            WriteAsset,
            SubmitJob, FailUpload, ClearUpload, CutComplete, Updated, Emptied, rows,
            ghosts
<1>2. (Works \/ Fails) /\ UNCHANGED <<others, due, create, storing, expiring, deleter, late>>
  BY DEF Works
<1>3. asset' \in [Assets -> Statuses]
  BY <1>1 DEF TypeOK, Statuses
<1>4. ion' \in SUBSET Assets /\ job' \in SUBSET Assets
  BY <1>1 DEF TypeOK
<1>5. served' \in SUBSET Assets /\ mishap' \in SUBSET Assets
  BY <1>1 DEF TypeOK
<1>6. dir' \in [Assets -> SUBSET {"stream", "staged", "input"}]
  BY <1>1 DEF TypeOK
<1>7. QED
  BY <1>1, <1>2, <1>3, <1>4, <1>5, <1>6, MishapsCounted DEF TypeOK, CompOK

(* leaves every asset but its own alone,                                      *)
LEMMA CompleteLeavesOthers ==
    ASSUME TypeOK, NEW c \in Completers, CompleteAct(c), NEW b \in Assets, b # comp[c].of
    PROVE  Untouched(b)
<1>1. \A d \in Completers : comp[d].of = b \/ comp'[d].of = b => comp'[d] = comp[d]
  BY CompleteMoves, IdsAssumption DEF TypeOK, CompOK
<1> USE DEF CompleteAct, CompleteStep, Take, Gather, MoveInput, Sweep, PrepareInput,
            WriteAsset,
            SubmitJob, FailUpload, ClearUpload, CutComplete, Updated, Emptied, rows,
            ghosts
<1>2. UNCHANGED <<others, due, create, storing, expiring, deleter, late>>
  OBVIOUS
<1>3. asset'[b] = asset[b]
  BY DEF TypeOK
<1>4. dir'[b] = dir[b]
  BY DEF TypeOK
<1>5. (b \in ion' <=> b \in ion) /\ (b \in job' <=> b \in job)
  OBVIOUS
<1>6. (b \in served' <=> b \in served) /\ (b \in mishap' <=> b \in mishap)
  OBVIOUS
<1>7. QED
  BY <1>1, <1>2, <1>3, <1>4, <1>5, <1>6 DEF Untouched

(* and keeps what holds of its own.                                           *)
LEMMA CompleteKeeps ==
    ASSUME Inv, NEW c \in Completers, CompleteAct(c), NEW x \in Assets, comp[c].of = x
    PROVE  AssetInv(x)'
<1>1. TypeOK /\ CompOK /\ AssetInv(x) /\ create[x] = "ended"
  BY DEF Inv, CompOK, TypeOK, AssetInv, FreshIsAlone
<1>2. /\ \A d \in Completers \ {c} : comp'[d] = comp[d]
      /\ UNCHANGED <<others, due, create, storing, expiring, deleter, late>>
  <2>1. UNCHANGED <<others, due, create, storing, expiring, deleter, late>>
    BY DEF CompleteAct, CompleteStep, Take, Gather, MoveInput, Sweep, PrepareInput,
           WriteAsset,
           SubmitJob, FailUpload, ClearUpload, CutComplete, rows, ghosts
  <2>2. QED
    BY <1>1, <2>1, CompleteMoves
<1>3. ASSUME NEW at \in {"gather", "move", "sweep", "prepare", "write", "submit", "fail", "clear"},
             comp[c].at # "idle", Await(c, at)
      PROVE  comp'[c].of = x /\ comp'[c].at = at
  BY <1>1, <1>3, AwaitMoves DEF CompSteps
<1>4. Return(c) => comp'[c].of = NoAsset /\ NoAsset # x
  BY <1>1, ReturnMoves, IdsAssumption
<1> DEFINE To(at) == comp'[c].of = x /\ comp'[c].at = at
           Ends == comp'[c].of = NoAsset
<1>5. AssetInv(x)' <=> OneHolder(x)' /\ HolderRows(x)' /\ IonAndJobRows(x)' /\ EndedRows(x)'
                       /\ GoneLeavesNothing(x)' /\ Accounted(x)' /\ Owned(x)'
  BY <1>1, <1>2 DEF AssetInv, FreshIsAlone, CreateRows
<1> USE DEF IonAndJobRows, OneHolder, Held, HolderRows, EndedRows,
            GoneLeavesNothing, Accounted, Owned, AssetInv, Working, AsPrepared, HasRow
<1>6. ASSUME Take(c) PROVE AssetInv(x)'
  <2>1. /\ UNCHANGED <<asset, job, served, dir, mishap>> /\ comp[c].at = "take"
        /\ \/ To("gather") /\ x \in ion /\ x \notin ion'
           \/ Return(c) /\ UNCHANGED ion
    BY <1>1, <1>3, <1>4, <1>6 DEF Take, Taken, ghosts
  <2>2. QED
    BY <1>1, <1>2, <1>4, <1>5, <2>1
<1>7. ASSUME Gather(c) PROVE AssetInv(x)'
  <2>1. /\ UNCHANGED <<asset, ion, job, served, dir, mishap>> /\ comp[c].at = "gather"
        /\ To("move") \/ To("fail")
    BY <1>1, <1>3, <1>4, <1>7 DEF Gather, rows, ghosts
  <2>2. QED
    BY <1>1, <1>2, <1>4, <1>5, <2>1
<1>8. ASSUME MoveInput(c) PROVE AssetInv(x)'
  <2>1. /\ UNCHANGED <<asset, ion, job, served, mishap>> /\ comp[c].at = "move"
        /\ \/ To("sweep") /\ dir[x] # {}
           \/ To("fail") /\ UNCHANGED dir
    BY <1>1, <1>3, <1>4, <1>8 DEF MoveInput, rows, ghosts
  <2>2. QED
    BY <1>1, <1>2, <1>4, <1>5, <2>1
<1>9. ASSUME Sweep(c) PROVE AssetInv(x)'
  <2>1. /\ UNCHANGED <<asset, ion, job, served, mishap>> /\ comp[c].at = "sweep"
        /\ To("prepare") /\ dir'[x] \subseteq dir[x]
    BY <1>1, <1>3, <1>4, <1>9 DEF Sweep, rows, ghosts, TypeOK
  <2>2. QED
    BY <1>1, <1>2, <1>4, <1>5, <2>1
<1>10. ASSUME PrepareInput(c) PROVE AssetInv(x)'
  <2>1. /\ UNCHANGED <<asset, ion, job, dir, mishap>> /\ comp[c].at = "prepare"
        /\ To("write") \/ To("fail")
    BY <1>1, <1>3, <1>4, <1>10 DEF PrepareInput, ghosts
  <2>2. QED
    BY <1>1, <1>2, <1>4, <1>5, <2>1
<1>11. ASSUME WriteAsset(c) PROVE AssetInv(x)'
  <2>1. /\ UNCHANGED <<ion, job, served, dir, mishap>> /\ comp[c].at = "write"
        /\ \/ /\ To("submit")
              /\ asset'[x] = IF ~HasRow(x) THEN asset[x]
                             ELSE IF x \in served THEN "ready" ELSE "uploading"
           \/ To("fail") /\ UNCHANGED asset
    BY <1>1, <1>3, <1>4, <1>11 DEF WriteAsset, Updated, ghosts, TypeOK
  <2>2. QED
    BY <1>1, <1>2, <1>4, <1>5, <2>1
<1>12. ASSUME SubmitJob(c) PROVE AssetInv(x)'
  <2>1. /\ UNCHANGED <<asset, ion, served, dir, mishap>> /\ comp[c].at = "submit"
        /\ \/ Return(c) /\ x \in served /\ UNCHANGED job
           \/ Return(c) /\ HasRow(x) /\ x \in job'
           \/ To("fail") /\ UNCHANGED job
    BY <1>1, <1>3, <1>4, <1>12 DEF SubmitJob, ghosts
  <2>2. QED
    BY <1>1, <1>2, <1>4, <1>5, <2>1
<1>13. ASSUME FailUpload(c) PROVE AssetInv(x)'
  <2>1. /\ UNCHANGED <<ion, job, served, dir>> /\ comp[c].at = "fail" /\ To("clear")
        /\ \/ UNCHANGED mishap /\ asset'[x] = IF HasRow(x) THEN "error" ELSE asset[x]
           \/ UNCHANGED asset /\ x \in mishap' 
    BY <1>1, <1>3, <1>4, <1>13 DEF FailUpload, Updated, TypeOK
  <2>2. QED
    BY <1>1, <1>2, <1>4, <1>5, <2>1
<1>14. ASSUME ClearUpload(c) PROVE AssetInv(x)'
  <2>1. /\ UNCHANGED <<asset, ion, job, served, mishap>> /\ comp[c].at = "clear"
        /\ Return(c) /\ dir'[x] = {}
    BY <1>1, <1>3, <1>4, <1>14 DEF ClearUpload, Emptied, rows, ghosts, TypeOK
  <2>2. QED
    BY <1>1, <1>2, <1>4, <1>5, <2>1
<1>15. ASSUME CutComplete(c) PROVE AssetInv(x)'
  <2>1. /\ UNCHANGED <<asset, ion, job, served, dir>> /\ Return(c)
        /\ \/ comp[c].at = "take" /\ UNCHANGED mishap
           \/ comp[c].at # "take" /\ x \in mishap' 
    BY <1>1, <1>3, <1>4, <1>15 DEF CutComplete, rows
  <2>2. QED
    BY <1>1, <1>2, <1>4, <1>5, <2>1
<1>16. QED
  BY <1>6, <1>7, <1>8, <1>9, <1>10, <1>11, <1>12, <1>13, <1>14, <1>15 DEF CompleteAct,
            CompleteStep

-----------------------------------------------------------------------------
(* The steps that are of no asset, or of many.                                *)
(* A request that looks takes nothing.                                        *)
LEMMA LookKeeps ==
    ASSUME Inv, NEW c \in Completers, NEW x \in Assets, Look(c, x)
    PROVE  Inv'
<1>1. /\ TypeOK /\ CompOK /\ AssetInv(x) /\ comp[c].at = "idle" /\ comp[c].of = NoAsset
      /\ x \in ion /\ create[x] = "ended"
  BY DEF Inv, TypeOK, CompOK, AssetInv, FreshIsAlone, Look
<1>2. /\ CompOK' /\ comp'[c].at = "take" /\ comp'[c].of = x
      /\ \A d \in Completers \ {c} : comp'[d] = comp[d]
  BY <1>1, IdsAssumption DEF CompOK, CompSteps, Look
<1>3. UNCHANGED <<rows, due, dir, create, storing, expiring, deleter, ghosts, mishaps>>
  BY DEF Look
<1>4. TypeOK'
  BY <1>1, <1>2, <1>3 DEF TypeOK, CompOK, rows, ghosts
<1>5. AssetInv(x)'
  BY <1>1, <1>2, <1>3, IdsAssumption
     DEF AssetInv, FreshIsAlone, CreateRows, IonAndJobRows, OneHolder, Held,
         HolderRows, EndedRows,
         GoneLeavesNothing, Accounted, Owned, Working, AsPrepared, HasRow, rows, ghosts
<1>6. ASSUME NEW b \in Assets, b # x PROVE AssetInv(b)'
  <2>1. Untouched(b)
    BY <1>1, <1>2, <1>3, <1>6, IdsAssumption DEF Untouched, rows, ghosts
  <2>2. QED
    BY <2>1, UntouchedKeeps DEF Inv
<1>7. QED
  BY <1>4, <1>5, <1>6 DEF Inv

(* The tick takes every expired upload at once; the rest is as it was.        *)
LEMMA TakeExpiredKeeps == Inv /\ TakeExpired => Inv'
<1> SUFFICES ASSUME Inv, TakeExpired PROVE Inv'
  OBVIOUS
<1>1. /\ UNCHANGED <<asset, others, job, served, due, dir, create, comp, storing, deleter>>
      /\ UNCHANGED <<mishap, late, mishaps>> /\ ion' \subseteq ion
      /\ \A a \in Assets : expiring'[a] = IF a \in ion /\ a \in due THEN "fail" ELSE "none"
      /\ \A a \in Assets : a \in ion' <=> a \in ion /\ a \notin due
  BY DEF TakeExpired, Status, ghosts
<1>2. TypeOK'
  BY <1>1 DEF Inv, TypeOK, TakeExpired, Status
<1>3. ASSUME NEW a \in Assets PROVE AssetInv(a)'
  <2>1. AssetInv(a) /\ expiring[a] = "none"
    BY DEF Inv, TakeExpired
  <2>2. QED
    BY <1>1, <2>1
       DEF AssetInv, FreshIsAlone, CreateRows, IonAndJobRows, OneHolder, Held, HolderRows,
           EndedRows, GoneLeavesNothing, Accounted, Owned, Working, AsPrepared, HasRow
<1>4. QED
  BY <1>2, <1>3 DEF Inv

(* After a restart nothing is at work; what was, is a mishap.                 *)
LEMMA RestartKeeps == Inv /\ Restart => Inv'
<1> SUFFICES ASSUME Inv, Restart PROVE Inv'
  OBVIOUS
<1>1. /\ UNCHANGED <<ion, others, job, served, due, dir, late>>
      /\ \A a \in Assets :
           /\ asset'[a] = IF asset[a] = "uploading" /\ a \notin job /\ a \notin ion
                          THEN "error" ELSE asset[a]
           /\ create'[a] = IF create[a] = "none" THEN "none" ELSE "ended"
           /\ expiring'[a] = "none" /\ deleter'[a] = "idle" /\ a \notin storing'
           /\ a \in mishap' <=> a \in mishap \/ Working(a)
      /\ \A c \in Completers : comp'[c].at = "idle" /\ comp'[c].of = NoAsset
  BY DEF Restart, Status
<1>2. TypeOK'
  <2>1. mishaps' \in 0..MaxMishaps
    BY MishapsCounted DEF Inv, Restart
  <2>2. asset' \in [Assets -> Statuses] /\ create' \in [Assets -> CreateSteps]
    BY DEF Inv, TypeOK, Statuses, CreateSteps, Restart, Status
  <2>3. comp' \in [Completers -> [at : CompSteps, of : Assets \cup {NoAsset}]]
    BY DEF CompSteps, Restart
  <2>4. mishap' \in SUBSET Assets
    BY DEF Inv, TypeOK, Restart
  <2>5. QED
    BY <1>1, <2>1, <2>2, <2>3, <2>4 DEF Inv, TypeOK, Restart
<1>3. ASSUME NEW a \in Assets PROVE AssetInv(a)'
  <2>1. AssetInv(a) /\ \A c \in Completers : comp'[c].of # a
    BY <1>1, IdsAssumption DEF Inv
  <2>2. FreshIsAlone(a)' /\ CreateRows(a)' /\ IonAndJobRows(a)'
    BY <1>1, <2>1 DEF AssetInv, FreshIsAlone, CreateRows, IonAndJobRows, HasRow
  <2>3. OneHolder(a)' /\ HolderRows(a)' /\ EndedRows(a)'
    BY <1>1, <2>1 DEF OneHolder, Held, HolderRows, EndedRows
  <2>4. GoneLeavesNothing(a)' /\ Accounted(a)'
    BY <1>1, <2>1 DEF AssetInv, GoneLeavesNothing, Accounted, Working
  <2>5. Owned(a)'
    BY <1>1, <2>1 DEF AssetInv, Owned, Accounted
  <2>6. QED
    BY <2>2, <2>3, <2>4, <2>5 DEF AssetInv
<1>4. QED
  BY <1>2, <1>3 DEF Inv

(* So every step of the system keeps the invariant.                           *)
LEMMA StepKeeps == Inv /\ [Next]_vars => Inv'
<1> SUFFICES ASSUME Inv, [Next]_vars PROVE Inv'
  OBVIOUS
<1>1. ASSUME NEW x \in Assets, CreateAct(x) \/ OtherAct(x) PROVE Inv'
  <2>1. TypeOK'
    BY <1>1, ActTypes DEF Inv
  <2>2. AssetInv(x)'
    BY <1>1, CreateKeeps, OtherKeeps
  <2>3. ASSUME NEW b \in Assets, b # x PROVE AssetInv(b)'
    BY <1>1, <2>3, OthersUntouched, UntouchedKeeps DEF Inv
  <2>4. QED
    BY <2>1, <2>2, <2>3 DEF Inv
<1>2. ASSUME NEW c \in Completers, CompleteAct(c) PROVE Inv'
  <2>1. TypeOK'
    BY <1>2, CompleteTypes DEF Inv
  <2>2. ASSUME NEW x \in Assets, x = comp[c].of PROVE AssetInv(x)'
    BY <1>2, <2>2, CompleteKeeps
  <2>3. ASSUME NEW b \in Assets, b # comp[c].of PROVE AssetInv(b)'
    BY <1>2, <2>3, CompleteLeavesOthers, UntouchedKeeps DEF Inv
  <2>4. QED
    BY <2>1, <2>2, <2>3 DEF Inv
<1>3. CASE OtherUploads
  <2>1. UNCHANGED <<asset, ion, job, served, due, dir, create, comp, storing, expiring, deleter>>
        /\ UNCHANGED <<mishap, late, mishaps>>
    BY <1>3 DEF OtherUploads, ghosts
  <2>2. others' \in Nat
    BY <1>3 DEF OtherUploads, Inv, TypeOK
  <2>3. TypeOK'
    BY <2>1, <2>2 DEF Inv, TypeOK
  <2>4. ASSUME NEW a \in Assets PROVE AssetInv(a)'
    BY <2>1, UntouchedKeeps DEF Inv, Untouched
  <2>5. QED
    BY <2>3, <2>4 DEF Inv
<1>4. CASE UNCHANGED vars
  <2>1. TypeOK'
    BY <1>4 DEF vars, rows, ghosts, Inv, TypeOK
  <2>2. ASSUME NEW a \in Assets PROVE AssetInv(a)'
    BY <1>4, UntouchedKeeps DEF vars, rows, ghosts, Inv, Untouched
  <2>3. QED
    BY <2>1, <2>2 DEF Inv
<1>5. QED
  BY <1>1, <1>2, <1>3, <1>4, LookKeeps, TakeExpiredKeeps, RestartKeeps
     DEF Next, CreateAct, OtherAct, CompleteAct

(* The credentials of an upload are taken once: by one uploadComplete or by   *)
(* the expiry.                                                                *)
THEOREM UploadTakenOnce == Spec => []TakenOnce
<1>1. Inv => TakenOnce
  <2> SUFFICES ASSUME Inv, NEW a \in Assets
               PROVE  /\ Cardinality(Holders(a)) <= 1
                      /\ Holders(a) # {} => a \notin ion /\ expiring[a] = "none"
                      /\ expiring[a] # "none" => a \notin ion
    BY DEF TakenOnce
  <2>1. AssetInv(a)
    BY DEF Inv
  <2>2. expiring[a] # "none" => a \notin ion
    BY <2>1 DEF AssetInv, IonAndJobRows
  <2>3. Holders(a) # {} => a \notin ion /\ expiring[a] = "none"
    BY <2>1 DEF AssetInv, OneHolder, Held, Holders
  <2>4. Cardinality(Holders(a)) <= 1
    <3>1. CASE Holders(a) = {}
      BY <3>1, FS_EmptySet
    <3>2. CASE Holders(a) # {}
      <4>1. PICK c \in Completers : Holders(a) = {c}
        BY <2>1, <3>2 DEF AssetInv, OneHolder, Held, Holders
      <4>2. QED
        BY <4>1, FS_Singleton
    <3>3. QED
      BY <3>1, <3>2
  <2>5. QED
    BY <2>2, <2>3, <2>4
<1>2. QED
  BY InitInv, StepKeeps, <1>1, PTL DEF Spec

(* An uploading asset has a job, credentials or a request at work on it,      *)
(* unless a mishap stranded it.                                               *)
THEOREM UploadingAccounted == Spec => []UploadingIsAccounted
<1>1. Inv => UploadingIsAccounted
  BY DEF Inv, AssetInv, Accounted, UploadingIsAccounted
<1>2. QED
  BY InitInv, StepKeeps, <1>1, PTL DEF Spec

(* Files belong to an asset that is or may become one, unless a mishap or a   *)
(* late PutObject left them.                                                  *)
THEOREM FilesOwned == Spec => []FilesAreOwned
<1>1. Inv => FilesAreOwned
  BY DEF Inv, AssetInv, Owned, FilesAreOwned
<1>2. QED
  BY InitInv, StepKeeps, <1>1, PTL DEF Spec

=============================================================================
