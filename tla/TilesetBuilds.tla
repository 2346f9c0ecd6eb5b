---------------------------- MODULE TilesetBuilds ----------------------------
(***************************************************************************)
(* Vector tilesets of tiletopia-server: the upload and delete routes and   *)
(* the build worker of tilesets.rs, the rows of the tilesets table in      *)
(* db.rs, and what a start of the server does with the rows it finds.      *)
(*                                                                         *)
(* The worker builds one archive at a time.  Its every await (a statement, *)
(* a file, the tippecanoe process) may be overtaken by the delete route,   *)
(* which removes the same files, source and row one await at a time.       *)
(***************************************************************************)
EXTENDS Naturals, FiniteSets

CONSTANTS
    Tilesets,    \* tileset ids, numbered in the order of created_at
    NoTileset,
    MaxFaults,   \* bound: statements that fail
    MaxCrashes   \* bound: times the server is stopped and started again

ASSUME IdsAssumption == Tilesets \subseteq Nat /\ NoTileset \notin Tilesets

ASSUME BoundsAssumption == MaxFaults \in Nat /\ MaxCrashes \in Nat

VARIABLES
    row,       \* status of each row, or what there is before and after it
    claimed,   \* rows with a started_at
    input,     \* tilesets whose uploaded file is on disk
    archive,   \* tilesets whose archive is on disk
    source,    \* martin sources, in memory
    step,      \* what the worker awaits
    current,   \* the tileset the worker claimed
    built,     \* outcome of its build
    slot,      \* CurrentBuild: the tileset whose token a delete finds
    killed,    \* the token of the current build is cancelled
    deleter,   \* what each DELETE request awaits
    raced,     \* tilesets recorded while their delete was between two steps
    mishap,    \* tilesets with a failed statement or a step that was cut short
    faults, crashes

disk   == <<input, archive>>
worker == <<step, current, built, slot, killed>>
ghosts == <<raced, mishap>>
vars   == <<row, claimed, disk, source, worker, deleter, ghosts, faults, crashes>>

Rows  == {"absent", "received", "building", "ready", "failed", "deleted"}
Steps == {"idle", "take", "prepare", "tippecanoe", "register", "scratch",
          "discard", "finish", "undo"}
DeleteSteps == {"idle", "source", "archive", "scratch", "row"}

HasRow(t) == row[t] \in {"building", "ready", "failed"}

Fails == faults < MaxFaults /\ faults' = faults + 1
Works == UNCHANGED faults

-----------------------------------------------------------------------------
Init ==
    /\ row = [t \in Tilesets |-> "absent"]
    /\ claimed = {}
    /\ input = {} /\ archive = {} /\ source = {}
    /\ step = "idle" /\ current = NoTileset /\ built = FALSE
    /\ slot = NoTileset /\ killed = FALSE
    /\ deleter = [t \in Tilesets |-> "idle"]
    /\ raced = {} /\ mishap = {}
    /\ faults = 0 /\ crashes = 0

(* upload_tileset writes the file, then the row.  A row that cannot be stored *)
(* leaves the file.                                                           *)
Receive(t) ==
    /\ row[t] = "absent"
    /\ \A u \in Tilesets : u < t => row[u] # "absent"
    /\ row' = [row EXCEPT ![t] = "received"]
    /\ input' = input \cup {t}
    /\ UNCHANGED <<claimed, archive, source, worker, deleter, ghosts, faults,
                   crashes>>

Store(t) ==
    /\ row[t] = "received"
    /\ \/ row' = [row EXCEPT ![t] = "building"] /\ Works /\ UNCHANGED mishap
       \/ /\ Fails /\ row' = [row EXCEPT ![t] = "deleted"]
          /\ mishap' = mishap \cup {t}
    /\ UNCHANGED <<claimed, disk, source, worker, deleter, raced, crashes>>

-----------------------------------------------------------------------------
(* The worker *)

(* claim_tileset_build: the oldest build nobody has claimed *)
Unclaimed(t) == row[t] = "building" /\ t \notin claimed

Claim(t) ==
    /\ step = "idle" /\ Unclaimed(t)
    /\ \A u \in Tilesets : u < t => ~Unclaimed(u)
    /\ claimed' = claimed \cup {t}
    /\ step' = "take" /\ current' = t
    /\ UNCHANGED <<row, disk, source, built, slot, killed, deleter, ghosts,
                   faults, crashes>>

(* A delete that comes before the slot is taken finds nothing to cancel. *)
Take ==
    /\ step = "take"
    /\ slot' = current /\ killed' = FALSE
    /\ step' = "prepare"
    /\ UNCHANGED <<row, claimed, disk, source, current, built, deleter, ghosts,
                   faults, crashes>>

(* build_archive removes what an earlier build of this tileset left. *)
Prepare ==
    /\ step = "prepare"
    /\ archive' = archive \ {current}
    /\ step' = "tippecanoe"
    /\ UNCHANGED <<row, claimed, input, source, current, built, slot, killed,
                   deleter, ghosts, faults, crashes>>

(* The outcome of build_archive, with which the slot is released. *)
OutcomeSlotKept(ok) == built' = ok /\ step' = "scratch" /\ UNCHANGED <<slot, killed>>
Outcome(ok) ==
    /\ built' = ok
    /\ slot' = NoTileset /\ killed' = FALSE
    /\ step' = "scratch"

(* run_tippecanoe: without its input it fails; killed or failed, it may leave *)
(* part of an archive.                                                        *)
Tippecanoe ==
    /\ step = "tippecanoe"
    /\ \/ /\ current \in input /\ ~killed
          /\ archive' = archive \cup {current}
          /\ step' = "register"
          /\ UNCHANGED <<built, slot, killed>>
       \/ /\ archive' \in {archive, archive \cup {current}}
          /\ Outcome(FALSE)
    /\ UNCHANGED <<row, claimed, input, source, current, deleter, ghosts,
                   faults, crashes>>

(* add_pmtiles opens the archive. *)
Register ==
    /\ step = "register"
    /\ \/ current \in archive /\ source' = source \cup {current} /\ Outcome(TRUE)
       \/ current \notin archive /\ UNCHANGED source /\ Outcome(FALSE)
    /\ UNCHANGED <<row, claimed, disk, current, deleter, ghosts, faults, crashes>>

RemoveScratch ==
    /\ step = "scratch"
    /\ input' = input \ {current}
    /\ step' = IF built THEN "finish" ELSE "discard"
    /\ UNCHANGED <<row, claimed, archive, source, current, built, slot, killed,
                   deleter, ghosts, faults, crashes>>

Discard ==
    /\ step = "discard"
    /\ archive' = archive \ {current}
    /\ step' = "finish"
    /\ UNCHANGED <<row, claimed, input, source, current, built, slot, killed,
                   deleter, ghosts, faults, crashes>>

(* A row that is gone is told by finish_tileset's count of rows. *)
RowGoneUnseen == FALSE
RowGone == ~HasRow(current)

Rest == step' = "idle" /\ current' = NoTileset

Finish ==
    /\ step = "finish"
    /\ \/ /\ ~RowGone /\ Works
          /\ row' = IF HasRow(current)
                    THEN [row EXCEPT ![current] =
                             IF built THEN "ready" ELSE "failed"]
                    ELSE row
          /\ raced' = IF deleter[current] = "idle" THEN raced
                      ELSE raced \cup {current}
          /\ Rest /\ UNCHANGED mishap
       \/ /\ RowGone /\ Works
          /\ step' = "undo" /\ UNCHANGED <<row, ghosts, current>>
       \/ /\ Fails /\ mishap' = mishap \cup {current}
          /\ Rest /\ UNCHANGED <<row, raced>>
    /\ UNCHANGED <<claimed, disk, source, built, slot, killed, deleter, crashes>>

(* The tileset was deleted while it was building. *)
Undo ==
    /\ step = "undo"
    /\ source' = source \ {current}
    /\ archive' = archive \ {current}
    /\ Rest
    /\ UNCHANGED <<row, claimed, input, built, slot, killed, deleter, ghosts,
                   faults, crashes>>

-----------------------------------------------------------------------------
(* delete_tileset *)

DeleteBegins(t) ==
    /\ deleter[t] = "idle" /\ HasRow(t)
    /\ deleter' = [deleter EXCEPT ![t] = "source"]
    /\ UNCHANGED <<row, claimed, disk, source, worker, ghosts, faults, crashes>>

DeleteFiles(t) ==
    /\ \/ /\ deleter[t] = "source"
          /\ deleter' = [deleter EXCEPT ![t] = "archive"]
          /\ source' = source \ {t} /\ UNCHANGED disk
       \/ /\ deleter[t] = "archive"
          /\ deleter' = [deleter EXCEPT ![t] = "scratch"]
          /\ archive' = archive \ {t} /\ UNCHANGED <<source, input>>
       \/ /\ deleter[t] = "scratch"
          /\ deleter' = [deleter EXCEPT ![t] = "row"]
          /\ input' = input \ {t} /\ UNCHANGED <<source, archive>>
    /\ UNCHANGED <<row, claimed, worker, ghosts, faults, crashes>>

(* CurrentBuild::cancel looks whose build is in the slot. *)
CancelsAny(t) == slot # NoTileset
Cancels(t) == slot = t

DeleteRow(t) ==
    /\ deleter[t] = "row"
    /\ \/ /\ Works
          /\ row' = [row EXCEPT ![t] = "deleted"]
          /\ killed' = (killed \/ Cancels(t))
          /\ UNCHANGED mishap
       \/ Fails /\ mishap' = mishap \cup {t} /\ UNCHANGED <<row, killed>>
    /\ deleter' = [deleter EXCEPT ![t] = "idle"]
    /\ UNCHANGED <<claimed, disk, source, step, current, built, slot, raced,
                   crashes>>

-----------------------------------------------------------------------------
(* A stop of the server and its next start: register_ready_tilesets, then     *)
(* requeue_claimed_tileset_builds.                                            *)
RegisteredNone == {}
Registered == {t \in Tilesets : row[t] = "ready" /\ t \in archive}
KeptClaims == claimed
ClaimsAtStart == {t \in claimed : row[t] # "building"}

Restart ==
    /\ crashes < MaxCrashes /\ crashes' = crashes + 1
    /\ source' = Registered
    /\ claimed' = ClaimsAtStart
    /\ row' = [t \in Tilesets |->
                  IF row[t] = "received" THEN "deleted" ELSE row[t]]
    /\ mishap' = mishap \cup {t \in Tilesets :
                    \/ row[t] = "received"
                    \/ deleter[t] # "idle"
                    \/ current = t /\ ~HasRow(t)}
    /\ Rest /\ built' = FALSE /\ slot' = NoTileset /\ killed' = FALSE
    /\ deleter' = [t \in Tilesets |-> "idle"]
    /\ UNCHANGED <<disk, raced, faults>>

WorkerStep ==
    \/ (\E t \in Tilesets : Claim(t)) \/ Take \/ Prepare \/ Tippecanoe
    \/ Register \/ RemoveScratch \/ Discard \/ Finish \/ Undo

Next ==
    \/ WorkerStep \/ Restart
    \/ \E t \in Tilesets :
          \/ Receive(t) \/ Store(t)
          \/ DeleteBegins(t) \/ DeleteFiles(t) \/ DeleteRow(t)

Spec == Init /\ [][Next]_vars

(* The worker goes on and tippecanoe ends: it is killed at its time limit. *)
FairSpec == Spec /\ WF_vars(WorkerStep)

-----------------------------------------------------------------------------
(* The rows, the files, the worker and the requests hold values of their kinds. *)
TypeOK ==
    /\ row \in [Tilesets -> Rows]
    /\ claimed \subseteq Tilesets
    /\ input \subseteq Tilesets /\ archive \subseteq Tilesets
    /\ source \subseteq Tilesets
    /\ step \in Steps
    /\ current \in Tilesets \cup {NoTileset}
    /\ step # "idle" => current \in Tilesets
    /\ built \in BOOLEAN /\ killed \in BOOLEAN
    /\ slot \in {current, NoTileset}
    /\ deleter \in [Tilesets -> DeleteSteps]
    /\ raced \subseteq Tilesets /\ mishap \subseteq Tilesets
    /\ faults \in Nat /\ crashes \in Nat

(* A ready tileset answers at /martin/{id}, also after a restart: its archive *)
(* is on disk and registered, unless a delete of it is under way or failed.   *)
ReadyIsServed ==
    \A t \in Tilesets :
        row[t] = "ready" /\ deleter[t] = "idle" /\ t \notin mishap
            => t \in archive /\ t \in source

(* A delete kills the build of its own tileset and no other: a build is       *)
(* killed only when its row is gone, so the next one in the queue is not hit. *)
KilledOnlyDeleted == killed => ~HasRow(current)

(* What a build writes after its row was deleted it removes itself, whichever *)
(* await the delete came at; only a build recorded between two steps of the   *)
(* delete is not seen by either side.                                         *)
DeletedBuildIsUndone ==
    \A t \in Tilesets :
        row[t] = "deleted" /\ current # t /\ t \notin raced \cup mishap
            => t \notin archive /\ t \notin source

(* tilesets.rs:688, "so no half of the pair outlives the other": once no      *)
(* request and no build is at work on a deleted tileset, its archive and its  *)
(* source are gone too.  A build that is recorded after the delete removed    *)
(* the source, and before it removes the row, leaves them behind.             *)
(* The code does not keep this one (README, section 3).                       *)
NoHalfOutlives ==
    \A t \in Tilesets :
        row[t] = "deleted" /\ current # t => t \notin archive /\ t \notin source

(* db.rs:998, "The uploaded input is still on disk until a build reaches a    *)
(* terminal state, so the retry has something to read".  The worker removes   *)
(* the input before it writes the state.                                      *)
(* The code does not keep this one (README, section 3).                       *)
RequeuedHasInput ==
    [][\A t \in claimed \ claimed' : deleter[t] = "idle" => t \in input]_vars

(* A build that is queued ends ready, failed or deleted, also when a stop of  *)
(* the server interrupted it; one whose row could not be written waits for    *)
(* the next start.                                                            *)
BuildsSettle ==
    \A t \in Tilesets :
        row[t] = "building" ~> (row[t] # "building" \/ t \in mishap)

=============================================================================
