---------------------------- MODULE AssetUploads ----------------------------
(***************************************************************************)
(* How an asset comes to be in tiletopia-server: the multipart route of    *)
(* upload.rs, ion's create / PutObject / uploadComplete of ion_upload.rs,  *)
(* the expiry of uploads nobody completes, the delete route of lib.rs, and *)
(* what a start of the server does with the assets it finds uploading.     *)
(*                                                                         *)
(* An asset is a row, perhaps credentials in ion_uploads, perhaps a job,   *)
(* and a directory.  No transaction spans them: every request changes them *)
(* one await at a time, and a handler whose client disconnects stops at    *)
(* the await it is in.  The tiling queue is seen only by what it does to   *)
(* the row (TilingQueue models it), the S3 endpoint only by the file it    *)
(* stores (StagedUploads models it).                                       *)
(***************************************************************************)
EXTENDS Naturals, FiniteSets

CONSTANTS
    Assets,        \* assets followed here, all of one owner
    Completers,    \* uploadComplete requests at work at a time
    NoAsset,
    MostAwaiting,  \* MOST_ASSETS_AWAITING_FILES_PER_OWNER
    MaxMishaps     \* bound: statements that fail, disconnects and restarts

ASSUME IdsAssumption == NoAsset \notin Assets

ASSUME BoundsAssumption == {MostAwaiting, MaxMishaps} \subseteq Nat

VARIABLES
    asset,      \* status of each row
    ion,        \* assets with a row in ion_uploads
    others,     \* rows there of the owner's other assets
    due,        \* assets whose credentials have expired
    job,        \* assets with a row in jobs
    served,     \* assets prepare_input found to be served as uploaded
    dir,        \* what the asset's directory holds
    create,     \* what the request that creates each asset awaits
    comp,       \* what each uploadComplete request awaits, and of which asset
    storing,    \* assets with a PutObject past its authentication
    expiring,   \* what the scheduler's tick awaits for each asset it took
    deleter,    \* what the delete request of each asset awaits
    mishap,     \* assets with a failed statement or a handler that was cut short
    late,       \* assets a PutObject wrote to after their credentials were gone
    mishaps     \* how many there were

rows   == <<asset, ion, others, job, served>>
ghosts == <<mishap, late>>
vars   == <<rows, due, dir, create, comp, storing, expiring, deleter, ghosts, mishaps>>

Statuses    == {"absent", "uploading", "ready", "error", "gone"}
CreateSteps == {"none", "stream", "prepare", "row", "version", "submit", "undo",
                "discard", "ion version", "credentials", "ion undo", "ended"}
CompSteps   == {"idle", "take", "gather", "move", "sweep", "prepare", "write",
                "submit", "fail", "clear"}

HasRow(a)  == asset[a] \in {"uploading", "ready", "error"}
Status(f, S, status) == [a \in Assets |-> IF a \in S THEN status ELSE f[a]]

(* discard, remove_dir_if_present: everything under the asset's directory. *)
WithoutInput(a) == [dir EXCEPT ![a] = @ \ {"input"}]
Emptied(a) == [dir EXCEPT ![a] = {}]

Fails == mishaps < MaxMishaps /\ mishaps' = mishaps + 1
Works == UNCHANGED mishaps

Init ==
    /\ asset = [a \in Assets |-> "absent"]
    /\ ion = {} /\ others = 0 /\ due = {} /\ job = {} /\ served = {}
    /\ dir = [a \in Assets |-> {}]
    /\ create = [a \in Assets |-> "none"]
    /\ comp = [c \in Completers |-> [at |-> "idle", of |-> NoAsset]]
    /\ storing = {}
    /\ expiring = [a \in Assets |-> "none"]
    /\ deleter = [a \in Assets |-> "idle"]
    /\ mishap = {} /\ late = {}
    /\ mishaps = 0

-----------------------------------------------------------------------------
(* POST /api/v1/assets: the file is streamed to disk, checked and prepared,  *)
(* and only then is there a row.  Every refusal discards the directory.      *)

Goto(a, from, to) == create[a] = from /\ create' = [create EXCEPT ![a] = to]

Stream(a) ==
    /\ Goto(a, "none", "stream")
    /\ dir' = [dir EXCEPT ![a] = {"stream"}]
    /\ UNCHANGED <<rows, due, comp, storing, expiring, deleter, ghosts,
                   mishaps>>

FinishInput(a) ==
    /\ \/ Goto(a, "stream", "prepare") /\ dir' = [dir EXCEPT ![a] = {"input"}]
       \/ Goto(a, "stream", "discard") /\ UNCHANGED dir
    /\ UNCHANGED <<rows, due, comp, storing, expiring, deleter, ghosts,
                   mishaps>>

(* prepare_input refuses the file, or finds what is to become of it: imagery *)
(* and CZML are served as they are, the rest is tiled.                       *)
Prepare(a) ==
    /\ \/ Goto(a, "prepare", "row") /\ served' \in {served, served \cup {a}}
       \/ Goto(a, "prepare", "discard") /\ UNCHANGED served
    /\ UNCHANGED <<asset, ion, others, job, due, dir, comp, storing, expiring,
                   deleter, ghosts, mishaps>>

CreateAsset(a) ==
    /\ \/ /\ Goto(a, "row", "version") /\ Works
          /\ asset' = [asset EXCEPT ![a] = IF a \in served THEN "ready" ELSE "uploading"]
       \/ Goto(a, "row", "discard") /\ Fails /\ UNCHANGED asset
    /\ UNCHANGED <<ion, others, job, served, due, dir, comp, storing,
                   expiring, deleter, ghosts>>

(* add_version, where the upload names a base asset.  An asset whose version *)
(* cannot be recorded is deleted again, in a statement of its own.           *)
AddVersion(a) ==
    /\ \/ Goto(a, "version", "submit") /\ Works
       \/ Goto(a, "version", "undo") /\ Fails
       \/ Goto(a, "ion version", "credentials") /\ Works
       \/ Goto(a, "ion version", "ion undo") /\ Fails
    /\ UNCHANGED <<rows, due, dir, comp, storing, expiring, deleter, ghosts>>

Undo(a) ==
    /\ Goto(a, "undo", "discard") \/ Goto(a, "ion undo", "ended")
    /\ \/ /\ Works /\ asset' = [asset EXCEPT ![a] = "gone"] /\ UNCHANGED mishap
       \/ /\ Fails /\ mishap' = mishap \cup {a} /\ UNCHANGED asset
    /\ UNCHANGED <<ion, others, job, served, due, dir, comp, storing,
                   expiring, deleter, late>>

Discard(a) ==
    /\ Goto(a, "discard", "ended")
    /\ dir' = Emptied(a)
    /\ UNCHANGED <<rows, due, comp, storing, expiring, deleter, ghosts,
                   mishaps>>

(* submit: the job row references the asset's.  An upload whose job cannot be *)
(* stored answers 500 and leaves the asset as it is.                          *)
Submit(a) ==
    /\ Goto(a, "submit", "ended")
    /\ IF a \in served
       THEN Works /\ UNCHANGED <<job, mishap>>
       ELSE \/ /\ Works
               /\ job' = IF HasRow(a) THEN job \cup {a} ELSE job
               /\ UNCHANGED mishap
            \/ Fails /\ mishap' = mishap \cup {a} /\ UNCHANGED job
    /\ UNCHANGED <<asset, ion, others, served, due, dir, comp, storing,
                   expiring, deleter, late>>

-----------------------------------------------------------------------------
(* POST /v1/assets and the S3 location it hands out *)

CreateIon(a) ==
    /\ Goto(a, "none", "ion version")
    /\ asset' = [asset EXCEPT ![a] = "uploading"]
    /\ UNCHANGED <<ion, others, job, served, due, dir, comp, storing,
                   expiring, deleter, ghosts, mishaps>>

(* create_ion_upload counts and inserts in one statement. *)
QuotaOneOver == Cardinality(ion) + others <= MostAwaiting
Quota == Cardinality(ion) + others < MostAwaiting

CreateIonUpload(a) ==
    /\ create[a] = "credentials"
    /\ \/ /\ Works /\ HasRow(a) /\ Quota
          /\ ion' = ion \cup {a}
          /\ create' = [create EXCEPT ![a] = "ended"]
       \/ /\ \/ Works /\ ~(HasRow(a) /\ Quota)
             \/ Fails
          /\ create' = [create EXCEPT ![a] = "ion undo"]
          /\ UNCHANGED ion
    /\ UNCHANGED <<asset, others, job, served, due, dir, comp, storing,
                   expiring, deleter, ghosts>>

(* The owner's other assets come and go by the same statements. *)
OtherUploads ==
    /\ \/ Quota /\ others' = others + 1
       \/ others > 0 /\ others' = others - 1
    /\ UNCHANGED <<asset, ion, job, served, due, dir, create, comp, storing,
                   expiring, deleter, ghosts, mishaps>>

(* A PutObject is let in by credentials that are there and have not expired; *)
(* its body then streams for as long as it takes.                            *)
PutObject(a) ==
    /\ a \in ion \ due /\ a \notin storing
    /\ storing' = storing \cup {a}
    /\ UNCHANGED <<rows, due, dir, create, comp, expiring, deleter, ghosts,
                   mishaps>>

StoreObject(a) ==
    /\ a \in storing
    /\ storing' = storing \ {a}
    /\ \/ /\ dir' = [dir EXCEPT ![a] = @ \cup {"staged"}]
          /\ late' = IF a \in ion THEN late ELSE late \cup {a}
       \/ UNCHANGED <<dir, late>>
    /\ UNCHANGED <<rows, due, create, comp, expiring, deleter, mishap,
                   mishaps>>

Expire(a) ==
    /\ a \in ion \ due
    /\ due' = due \cup {a}
    /\ UNCHANGED <<rows, dir, create, comp, storing, expiring, deleter,
                   ghosts, mishaps>>

-----------------------------------------------------------------------------
(* POST /v1/assets/{id}/uploadComplete *)

Await(c, at) == comp' = [comp EXCEPT ![c].at = at]
ReturnHolding(c) == Await(c, "idle")
Return(c) == comp' = [comp EXCEPT ![c] = [at |-> "idle", of |-> NoAsset]]

(* The row, the credentials and a staged file are looked for, and nothing is *)
(* taken yet.                                                                *)
Look(c, a) ==
    /\ comp[c].at = "idle"
    /\ HasRow(a) /\ a \in ion /\ "staged" \in dir[a]
    /\ comp' = [comp EXCEPT ![c] = [at |-> "take", of |-> a]]
    /\ UNCHANGED <<rows, due, dir, create, storing, expiring, deleter, ghosts,
                   mishaps>>

(* take_ion_upload deletes and returns the row: only one request gets it. *)
SeenByLook(c) == comp[c].of # NoAsset
Taken(c) == comp[c].of \in ion
Take(c) ==
    /\ comp[c].at = "take"
    /\ \/ Works /\ Taken(c) /\ ion' = ion \ {comp[c].of} /\ Await(c, "gather")
       \/ Works /\ ~Taken(c) /\ Return(c) /\ UNCHANGED ion
       \/ Fails /\ Return(c) /\ UNCHANGED ion
    /\ UNCHANGED <<asset, others, job, served, due, dir, create, storing,
                   expiring, deleter, ghosts>>

(* gather_source_files, main_source_file and check_main_file *)
Gather(c) ==
    /\ comp[c].at = "gather"
    /\ \/ "staged" \in dir[comp[c].of] /\ Await(c, "move")
       \/ Await(c, "fail")
    /\ UNCHANGED <<rows, due, dir, create, storing, expiring, deleter, ghosts,
                   mishaps>>

MoveInput(c) ==
    /\ comp[c].at = "move"
    /\ LET a == comp[c].of
       IN IF "staged" \in dir[a]
          THEN dir' = [dir EXCEPT ![a] = (@ \ {"staged"}) \cup {"input"}] /\ Await(c, "sweep")
          ELSE UNCHANGED dir /\ Await(c, "fail")
    /\ UNCHANGED <<rows, due, create, storing, expiring, deleter, ghosts,
                   mishaps>>

(* The staging, unpack and parts directories go. *)
Sweep(c) ==
    /\ comp[c].at = "sweep"
    /\ dir' = [dir EXCEPT ![comp[c].of] = @ \ {"staged"}]
    /\ Await(c, "prepare")
    /\ UNCHANGED <<rows, due, create, storing, expiring, deleter, ghosts,
                   mishaps>>

PrepareInput(c) ==
    /\ comp[c].at = "prepare"
    /\ LET a == comp[c].of
       IN \/ /\ "input" \in dir[a] /\ Await(c, "write")
             /\ served' \in {served, served \cup {a}}
          \/ Await(c, "fail") /\ UNCHANGED served
    /\ UNCHANGED <<asset, ion, others, job, due, dir, create, storing,
                   expiring, deleter, ghosts, mishaps>>

(* update_asset changes a row that is still there. *)
UpdatedAwaiting(a, status) == IF a \in ion THEN [asset EXCEPT ![a] = status] ELSE asset
Updated(a, status) == IF HasRow(a) THEN [asset EXCEPT ![a] = status] ELSE asset

WriteAsset(c) ==
    /\ comp[c].at = "write"
    /\ LET a == comp[c].of
       IN \/ /\ Works /\ Await(c, "submit")
             /\ asset' = Updated(a, IF a \in served THEN "ready" ELSE "uploading")
          \/ Fails /\ Await(c, "fail") /\ UNCHANGED asset
    /\ UNCHANGED <<ion, others, job, served, due, dir, create, storing,
                   expiring, deleter, ghosts>>

(* Here an upload whose job cannot be stored fails its asset. *)
SubmitJob(c) ==
    /\ comp[c].at = "submit"
    /\ LET a == comp[c].of
       IN \/ Works /\ a \in served /\ Return(c) /\ UNCHANGED job
          \/ Works /\ a \notin served /\ HasRow(a) /\ job' = job \cup {a} /\ Return(c)
          \/ Works /\ a \notin served /\ ~HasRow(a) /\ Await(c, "fail") /\ UNCHANGED job
          \/ Fails /\ a \notin served /\ Await(c, "fail") /\ UNCHANGED job
    /\ UNCHANGED <<asset, ion, others, served, due, dir, create, storing,
                   expiring, deleter, ghosts>>

(* fail_upload: the status, then the files; a status that cannot be stored is *)
(* logged.                                                                    *)
FailUpload(c) ==
    /\ comp[c].at = "fail"
    /\ LET a == comp[c].of
       IN \/ Works /\ asset' = Updated(a, "error") /\ UNCHANGED mishap
          \/ Fails /\ mishap' = mishap \cup {a} /\ UNCHANGED asset
    /\ Await(c, "clear")
    /\ UNCHANGED <<ion, others, job, served, due, dir, create, storing,
                   expiring, deleter, late>>

ClearUpload(c) ==
    /\ comp[c].at = "clear"
    /\ dir' = Emptied(comp[c].of)
    /\ Return(c)
    /\ UNCHANGED <<rows, due, create, storing, expiring, deleter, ghosts,
                   mishaps>>

-----------------------------------------------------------------------------
(* expire_abandoned_uploads, at every tick of the scheduler *)

TakeExpired ==
    /\ \A a \in Assets : expiring[a] = "none"
    /\ ion \cap due # {}
    /\ ion' = ion \ due
    /\ expiring' = Status(expiring, ion \cap due, "fail")
    /\ UNCHANGED <<asset, others, job, served, due, dir, create, comp,
                   storing, deleter, ghosts, mishaps>>

FailExpired(a) ==
    /\ expiring[a] = "fail"
    /\ expiring' = [expiring EXCEPT ![a] = "clear"]
    /\ \/ Works /\ asset' = Updated(a, "error") /\ UNCHANGED mishap
       \/ Fails /\ mishap' = mishap \cup {a} /\ UNCHANGED asset
    /\ UNCHANGED <<ion, others, job, served, due, dir, create, comp, storing,
                   deleter, late>>

ClearExpired(a) ==
    /\ expiring[a] = "clear"
    /\ expiring' = [expiring EXCEPT ![a] = "none"]
    /\ dir' = Emptied(a)
    /\ UNCHANGED <<rows, due, create, comp, storing, deleter, ghosts,
                   mishaps>>

-----------------------------------------------------------------------------
(* DELETE /api/v1/assets/{id}: the rows one statement at a time, the asset's *)
(* last, which fails while another row references it; then the directory.    *)

Deleting(a, from, to) == deleter[a] = from /\ deleter' = [deleter EXCEPT ![a] = to]

DeleteJobs(a) ==
    /\ HasRow(a)
    /\ Deleting(a, "idle", "ion")
    /\ job' = job \ {a}
    /\ UNCHANGED <<asset, ion, others, served, due, dir, create, comp,
                   storing, expiring, ghosts, mishaps>>

DeleteIon(a) ==
    /\ Deleting(a, "ion", "row")
    /\ ion' = ion \ {a}
    /\ UNCHANGED <<asset, others, job, served, due, dir, create, comp,
                   storing, expiring, ghosts, mishaps>>

DeleteRow(a) ==
    /\ \/ /\ a \notin job \cup ion
          /\ Deleting(a, "row", "dir")
          /\ asset' = [asset EXCEPT ![a] = "gone"]
       \/ /\ a \in job \cup ion
          /\ Deleting(a, "row", "idle")
          /\ UNCHANGED asset
    /\ UNCHANGED <<ion, others, job, served, due, dir, create, comp, storing,
                   expiring, ghosts, mishaps>>

DeleteDir(a) ==
    /\ Deleting(a, "dir", "idle")
    /\ dir' = Emptied(a)
    /\ UNCHANGED <<rows, due, create, comp, storing, expiring, ghosts,
                   mishaps>>

-----------------------------------------------------------------------------
(* What cuts a handler short.  hyper drops the handler of a client that goes *)
(* away; what it was about to do is never done.                              *)

CutCreate(a) ==
    /\ Fails /\ create[a] \notin {"none", "ended"}
    /\ create' = [create EXCEPT ![a] = "ended"]
    /\ mishap' = mishap \cup {a}
    /\ UNCHANGED <<rows, due, dir, comp, storing, expiring, deleter, late>>

CutComplete(c) ==
    /\ Fails /\ comp[c].at # "idle"
    /\ Return(c)
    /\ mishap' = mishap \cup (IF comp[c].at = "take" THEN {} ELSE {comp[c].of})
    /\ UNCHANGED <<rows, due, dir, create, storing, expiring, deleter, late>>

CutDelete(a) ==
    /\ Fails /\ deleter[a] # "idle"
    /\ deleter' = [deleter EXCEPT ![a] = "idle"]
    /\ mishap' = mishap \cup {a}
    /\ UNCHANGED <<rows, due, dir, create, comp, storing, expiring, late>>

Working(a) ==
    \/ create[a] \notin {"none", "ended"}
    \/ expiring[a] # "none" \/ deleter[a] # "idle"
    \/ \E c \in Completers : comp[c].of = a /\ comp[c].at # "take"

(* A stop and a start: fail_stranded_uploads fails what is uploading with    *)
(* neither a job nor credentials.                                            *)
Restart ==
    /\ Fails
    /\ asset' = Status(asset, {a \in Assets : asset[a] = "uploading"
                                               /\ a \notin job /\ a \notin ion}, "error")
    /\ mishap' = mishap \cup {a \in Assets : Working(a)}
    /\ create' = [a \in Assets |-> IF create[a] = "none" THEN "none" ELSE "ended"]
    /\ comp' = [c \in Completers |-> [at |-> "idle", of |-> NoAsset]]
    /\ storing' = {}
    /\ expiring' = [a \in Assets |-> "none"]
    /\ deleter' = [a \in Assets |-> "idle"]
    /\ UNCHANGED <<ion, others, job, served, due, dir, late>>

(* The tiling queue settles a job, and the asset with it. *)
Tiled(a) ==
    /\ a \in job /\ asset[a] = "uploading"
    /\ asset' \in {[asset EXCEPT ![a] = "ready"], [asset EXCEPT ![a] = "error"]}
    /\ UNCHANGED <<ion, others, job, served, due, dir, create, comp, storing,
                   expiring, deleter, ghosts, mishaps>>

CreateStep(a) ==
    \/ FinishInput(a) \/ Prepare(a) \/ CreateAsset(a) \/ AddVersion(a) \/ Undo(a)
    \/ Discard(a) \/ Submit(a) \/ CreateIonUpload(a)
CompleteStep(c) ==
    \/ Take(c) \/ Gather(c) \/ MoveInput(c) \/ Sweep(c) \/ PrepareInput(c)
    \/ WriteAsset(c) \/ SubmitJob(c) \/ FailUpload(c) \/ ClearUpload(c)
DeleteStep(a) == DeleteIon(a) \/ DeleteRow(a) \/ DeleteDir(a)

Next ==
    \/ \E a \in Assets :
         \/ Stream(a) \/ CreateIon(a) \/ CreateStep(a)
         \/ PutObject(a) \/ StoreObject(a) \/ Expire(a)
         \/ FailExpired(a) \/ ClearExpired(a)
         \/ DeleteJobs(a) \/ DeleteStep(a)
         \/ CutCreate(a) \/ CutDelete(a) \/ Tiled(a)
         \/ \E c \in Completers : Look(c, a)
    \/ \E c \in Completers : CompleteStep(c) \/ CutComplete(c)
    \/ TakeExpired \/ OtherUploads \/ Restart

Spec == Init /\ [][Next]_vars

(* Handlers are run until they return, the clock reaches expires_at, the     *)
(* scheduler ticks and the tiling queue settles what it holds.  Nothing      *)
(* makes a client call, and nothing makes the server restart.                *)
FairSpec ==
    /\ Spec
    /\ \A a \in Assets :
         /\ WF_vars(CreateStep(a)) /\ WF_vars(Expire(a)) /\ WF_vars(DeleteStep(a))
         /\ WF_vars(FailExpired(a)) /\ WF_vars(ClearExpired(a)) /\ WF_vars(Tiled(a))
    /\ \A c \in Completers : WF_vars(CompleteStep(c))
    /\ WF_vars(TakeExpired)

-----------------------------------------------------------------------------
(* Type invariant; a request that is not at work is about no asset. *)
TypeOK ==
    /\ asset \in [Assets -> Statuses]
    /\ ion \in SUBSET Assets /\ others \in Nat
    /\ due \in SUBSET Assets /\ job \in SUBSET Assets
    /\ served \in SUBSET Assets /\ storing \in SUBSET Assets
    /\ dir \in [Assets -> SUBSET {"stream", "staged", "input"}]
    /\ create \in [Assets -> CreateSteps]
    /\ comp \in [Completers -> [at : CompSteps, of : Assets \cup {NoAsset}]]
    /\ \A c \in Completers : comp[c].at = "idle" <=> comp[c].of = NoAsset
    /\ expiring \in [Assets -> {"none", "fail", "clear"}]
    /\ deleter \in [Assets -> {"idle", "ion", "row", "dir"}]
    /\ mishap \in SUBSET Assets /\ late \in SUBSET Assets
    /\ mishaps \in 0..MaxMishaps

(* The credentials of an upload are taken once: by one uploadComplete or by   *)
(* the expiry, never by two of them, so that one of them alone moves, fails   *)
(* or deletes its files.                                                      *)
Holders(a) == {c \in Completers : comp[c].of = a /\ comp[c].at # "take"}
TakenOnce ==
    \A a \in Assets :
        /\ Cardinality(Holders(a)) <= 1
        /\ Holders(a) # {} => a \notin ion /\ expiring[a] = "none"
        /\ expiring[a] # "none" => a \notin ion

(* No editor has more than MOST_ASSETS_AWAITING_FILES_PER_OWNER assets        *)
(* awaiting files, however many creates run at once.                          *)
QuotaHolds == Cardinality(ion) + others <= MostAwaiting

(* An asset that is uploading has a job, credentials or a request at work on  *)
(* it: nothing but a failed statement, a client that went away or a stop      *)
(* strands it, which is what fail_stranded_uploads is there for.              *)
UploadingIsAccounted ==
    \A a \in Assets : asset[a] = "uploading" /\ a \notin mishap =>
        a \in job \/ a \in ion \/ Working(a)

(* Files belong to an asset that is or may become one: what was refused,      *)
(* failed, expired or deleted leaves none, unless a request was cut short or  *)
(* a PutObject outlived the credentials that let it in.                       *)
FilesAreOwned ==
    \A a \in Assets : dir[a] # {} /\ a \notin mishap \cup late =>
        \/ asset[a] \in {"uploading", "ready"}
        \/ asset[a] = "error" /\ a \in job
        \/ Working(a)

(* README.md:179: "An upload with no uploadComplete 12 hours after its create *)
(* call goes to ERROR and its files are deleted".                             *)
(* The code does not keep this one (README, section 3).                       *)
ExpiredHasNoFiles ==
    \A a \in Assets : a \in due /\ asset[a] = "error" /\ a \notin ion \cup job \cup mishap
        /\ ~Working(a) => dir[a] = {}

(* An upload does not stay uploading: it is tiled, completed or expired, or   *)
(* something stranded it.                                                     *)
UploadsSettle ==
    \A a \in Assets : asset[a] = "uploading" ~> asset[a] # "uploading" \/ a \in mishap

=============================================================================
