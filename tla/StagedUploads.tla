---------------------------- MODULE StagedUploads ----------------------------
(***************************************************************************)
(* The S3 endpoint an ion upload writes to (ion_s3_endpoint.rs), for one   *)
(* asset: PutObject, CreateMultipartUpload, UploadPart,                    *)
(* CompleteMultipartUpload and AbortMultipartUpload, the StagedLedger that *)
(* counts what the asset holds, and the mutex replacing_stored_files.      *)
(*                                                                         *)
(* A request streams its body into a file of its own while it reserves     *)
(* each frame in the ledger.  What it then does to the stored files runs   *)
(* in a spawned task, past a disconnect of the client and under the mutex; *)
(* only a stop of the server cuts that short.  Any call of the file system *)
(* may fail, and a removal that a failed call makes may fail with it.      *)
(* Bytes are counted in units, an absent file or part has 0 of them, and   *)
(* no file is empty.                                                       *)
(***************************************************************************)
EXTENDS Naturals, FiniteSets, FiniteSetsExt

CONSTANTS
    Requests,     \* requests, each serving once
    NoRequest,
    Keys,         \* file names under the asset's prefix
    Sessions,     \* ids of multipart uploads
    KeyOf,        \* the file name a multipart upload is created for
    Parts,        \* part numbers
    MaxBody,      \* bound: units in one body
    ByteCap, FileCap, SessionCap,   \* STAGED_CAPS
    MaxFaults,    \* bound: file system calls that fail on their own
    MaxCrashes    \* bound: times the server is stopped and started again

ASSUME KeysAssumption ==
    NoRequest \notin Requests /\ KeyOf \in [Sessions -> Keys]

ASSUME FinitenessAssumption ==
    \A S \in {Requests, Keys, Sessions, Parts} : IsFiniteSet(S)

ASSUME CapsAssumption == {ByteCap, FileCap, SessionCap} \subseteq Nat

ASSUME BoundsAssumption == {MaxBody, MaxFaults, MaxCrashes} \subseteq Nat

VARIABLES
    stored,     \* size of each file in the staging directory
    session,    \* directory of each multipart upload: none yet, keyless (it has no
                \* key file), open, joining, joined or left (not removed), gone
    part,       \* size of each part in it
    incoming,   \* size of each request's own file
    left,       \* size of the files of ended requests that could not be removed
    ledger,     \* the counters, and whether they were read from the disk yet
    lock,       \* holder of replacing_stored_files
    req,        \* what each request does and has reserved
    overdrawn,  \* a request freed less than it had reserved against
    overcounted,    \* what the ledger counts of parts a failed abort removed
    faults, crashes

files  == <<stored, session, part>>
own    == <<incoming, left>>
bounds == <<faults, crashes>>
vars   == <<files, own, ledger, lock, req, overdrawn, overcounted, bounds>>

Sum(f, S) == MapThenSumSet(LAMBDA x : f[x], S)
Count(f, S) == Cardinality({x \in S : f[x] > 0})

PartBytes(s) == Sum(part[s], Parts)
PartFiles(s) == Count(part[s], Parts)

BytesOnDisk ==
    Sum(stored, Keys) + Sum([s \in Sessions |-> PartBytes(s)], Sessions)
        + Sum(incoming, Requests) + left
FilesOnDisk ==
    Count(stored, Keys) + Sum([s \in Sessions |-> PartFiles(s)], Sessions)
SessionsOnDisk == Cardinality({s \in Sessions : session[s] \notin {"none", "gone"}})

(* The directories the ledger does not count: it released the upload, and the *)
(* removal is still to come or failed.  A joined one has its key file still.  *)
Uncounted == {s \in Sessions : session[s] \in {"joined", "left"}}

Idle == [op |-> "none", pc |-> "idle", key |-> NoRequest, s |-> NoRequest,
         n |-> NoRequest, listed |-> <<>>, replaced |-> 0, bytes |-> 0,
         files |-> 0, usage |-> [bytes |-> 0, files |-> 0], freed |-> 0,
         ok |-> FALSE]
Done == [Idle EXCEPT !.pc = "done"]

Init ==
    /\ incoming = [r \in Requests |-> 0] /\ left = 0
    /\ stored \in [Keys -> {0, 2}]
    /\ session \in [Sessions -> {"none", "open"}]
    /\ part \in [Sessions -> [Parts -> {0, 1}]]
    /\ \A s \in Sessions : session[s] = "none" => PartBytes(s) = 0
    /\ BytesOnDisk <= ByteCap
    /\ FilesOnDisk <= FileCap
    /\ SessionsOnDisk <= SessionCap
    /\ ledger = [loaded |-> FALSE, bytes |-> 0, files |-> 0, sessions |-> 0]
    /\ lock = NoRequest
    /\ req = [r \in Requests |-> Idle]
    /\ overdrawn = FALSE /\ overcounted = [bytes |-> 0, files |-> 0]
    /\ faults = 0 /\ crashes = 0

-----------------------------------------------------------------------------
(* The ledger *)

AllowsBeforeAdding(staged, replaced, adding, cap) == staged <= cap + replaced
Allows(staged, replaced, adding, cap) == staged + adding <= cap + replaced

Fails == faults < MaxFaults /\ faults' = faults + 1
Works == UNCHANGED faults

(* Reservation::drop *)
ReleasedBytes(r) == [ledger EXCEPT !.bytes = @ - req[r].bytes]
Released(r) == [ledger EXCEPT !.bytes = @ - req[r].bytes,
                              !.files = @ - req[r].files]
Release(r) == ledger' = Released(r) /\ req' = [req EXCEPT ![r] = Done]

(* IncomingFile::drop: the request's own file is removed, and a failure of    *)
(* that is only logged.                                                       *)
Unlinked(r) == incoming' = [incoming EXCEPT ![r] = 0]
Unlink(r) ==
    /\ Unlinked(r)
    /\ \/ Works /\ UNCHANGED left
       \/ Fails /\ left' = left + incoming[r]
FailingUnlink(r) == Unlinked(r) /\ left' \in {left, left + incoming[r]}

Drop(r) == Release(r) /\ Unlink(r)
FailingDrop(r) == Release(r) /\ FailingUnlink(r)

(* What a count of the directories gives once clear_interrupted_writes is through. *)
CountedNone == [loaded |-> TRUE, bytes |-> 0, files |-> 0, sessions |-> 0]
CountedFiles == [loaded |-> TRUE, bytes |-> Sum(stored, Keys),
                 files |-> Count(stored, Keys), sessions |-> SessionsOnDisk]
Counted == [loaded |-> TRUE, bytes |-> BytesOnDisk - Sum(incoming, Requests) - left,
            files |-> FilesOnDisk, sessions |-> SessionsOnDisk]

(* staged_ledger: the first request since a start removes what the stop cut  *)
(* off, reopens the uploads it was joining and counts what there is.         *)
Scan ==
    /\ incoming' = [r \in Requests |-> 0] /\ left' = 0
    /\ session' = [s \in Sessions |->
                     CASE session[s] \in {"joining", "joined"} -> "open"
                       [] session[s] = "left" -> "keyless"
                       [] OTHER -> session[s]]
    /\ ledger' = Counted

(* serve: a request is taken to its handler.  A client completes an upload   *)
(* with the parts it was told of, so it lists what the upload now holds.     *)
Start(r, call) == req' = [req EXCEPT ![r] = call]

Begin(r) ==
    /\ req[r].pc = "idle"
    /\ IF ledger.loaded THEN UNCHANGED <<own, session, ledger>> ELSE Scan
    /\ \/ \E k \in Keys : Start(r, [Idle EXCEPT !.op = "put", !.pc = "read", !.key = k])
       \/ \E s \in Sessions :
            /\ session[s] = "none"
            /\ \A q \in Requests : ~(req[q].op = "create" /\ req[q].s = s)
            /\ Start(r, [Idle EXCEPT !.op = "create", !.pc = "read", !.s = s])
       \/ \E s \in Sessions, n \in Parts :
            Start(r, [Idle EXCEPT !.op = "part", !.pc = "read", !.s = s, !.n = n])
       \/ \E s \in Sessions : \E listed \in (SUBSET {n \in Parts : part[s][n] > 0}) \ {{}} :
            Start(r, [Idle EXCEPT !.op = "complete", !.pc = "claim", !.s = s,
                                  !.key = KeyOf[s],
                                  !.listed = [n \in listed |-> part[s][n]]])
       \/ \E s \in Sessions : Start(r, [Idle EXCEPT !.op = "abort", !.pc = "store", !.s = s])
    /\ UNCHANGED <<stored, part, lock, overdrawn, overcounted, bounds>>

-----------------------------------------------------------------------------
(* PutObject and UploadPart up to their last byte *)

(* multipart_session finds it: neither claimed by a complete nor removed. *)
OpenOrClaimed(s) == session[s] \in {"open", "joining"}
Open(s) == session[s] = "open"

EarlierCopy(r) == IF req[r].op = "put" THEN stored[req[r].key]
                  ELSE part[req[r].s][req[r].n]

(* The copy the request will replace is read before its body is. *)
Read(r) ==
    /\ req[r].pc = "read" /\ req[r].op \in {"put", "part"}
    /\ LET earlier  == EarlierCopy(r)
           replaced == IF earlier > 0 THEN 1 ELSE 0
           goes     == /\ req[r].op = "part" => Open(req[r].s)
                       /\ Allows(ledger.files, replaced, 1, FileCap)
       IN  /\ req' = [req EXCEPT ![r] = IF goes THEN [@ EXCEPT !.pc = "body",
                                         !.replaced = earlier, !.files = 1] ELSE Done]
           /\ ledger' = IF goes THEN [ledger EXCEPT !.files = @ + 1] ELSE ledger
    /\ UNCHANGED <<files, own, lock, overdrawn, overcounted, bounds>>

(* write_payload: a frame is reserved, then written. *)
Frame(r) ==
    /\ req[r].pc = "body" /\ req[r].bytes < MaxBody
    /\ IF Allows(ledger.bytes, req[r].replaced, 1, ByteCap)
       THEN /\ Works
            /\ ledger' = [ledger EXCEPT !.bytes = @ + 1]
            /\ incoming' = [incoming EXCEPT ![r] = @ + 1]
            /\ req' = [req EXCEPT ![r].bytes = @ + 1]
            /\ UNCHANGED left
       ELSE Drop(r)
    /\ UNCHANGED <<files, lock, overdrawn, overcounted, crashes>>

BodyEnds(r) ==
    /\ req[r].pc = "body" /\ req[r].bytes > 0
    /\ req' = [req EXCEPT ![r].pc = "store"]
    /\ UNCHANGED <<files, own, ledger, lock, overdrawn, overcounted, bounds>>

(* The client disconnects, or the body is not what its headers say. *)
GiveUp(r) ==
    /\ req[r].pc = "body"
    /\ Drop(r)
    /\ UNCHANGED <<files, lock, overdrawn, overcounted, crashes>>

-----------------------------------------------------------------------------
(* What runs under replacing_stored_files *)

Locks(r)   == lock = NoRequest /\ lock' = r
Unlocks(r) == lock = r /\ lock' = NoRequest

StorePut(r) ==
    /\ req[r].pc = "store" /\ req[r].op = "put"
    /\ Locks(r)
    /\ req' = [req EXCEPT ![r].pc = "rename"]
    /\ UNCHANGED <<files, own, ledger, overdrawn, overcounted, bounds>>

(* The upload may have been completed or aborted since the part began: it is *)
(* looked up again, and the earlier copy goes before the new one is named.   *)
StorePart(r) ==
    /\ req[r].pc = "store" /\ req[r].op = "part"
    /\ lock = NoRequest
    /\ LET s == req[r].s  n == req[r].n  earlier == part[s][n]
       IN \/ /\ Open(s) /\ Works
             /\ part' = [part EXCEPT ![s][n] = 0]
             /\ ledger' = [ledger EXCEPT !.bytes = @ - earlier,
                             !.files = @ - (IF earlier > 0 THEN 1 ELSE 0)]
             /\ req' = [req EXCEPT ![r].pc = "name", ![r].freed = earlier]
             /\ lock' = r
             /\ UNCHANGED own
          \/ Open(s) /\ Fails /\ FailingDrop(r) /\ UNCHANGED <<part, lock>>
          \/ ~Open(s) /\ Drop(r) /\ UNCHANGED <<part, lock>>
    /\ UNCHANGED <<stored, session, overdrawn, overcounted, crashes>>

(* A new part that cannot be named leaves the number without either copy. *)
NamePart(r) ==
    /\ req[r].pc = "name"
    /\ Unlocks(r)
    /\ \/ /\ Works
          /\ part' = [part EXCEPT ![req[r].s][req[r].n] = incoming[r]]
          /\ incoming' = [incoming EXCEPT ![r] = 0]
          /\ overdrawn' = (overdrawn \/ req[r].replaced > req[r].freed)
          /\ req' = [req EXCEPT ![r] = Done]
          /\ UNCHANGED <<left, ledger>>
       \/ Fails /\ FailingDrop(r) /\ UNCHANGED <<part, overdrawn>>
    /\ UNCHANGED <<stored, session, overcounted, crashes>>

Create(r) ==
    /\ req[r].pc = "read" /\ req[r].op = "create"
    /\ IF Allows(ledger.sessions, 0, 1, SessionCap)
       THEN /\ ledger' = [ledger EXCEPT !.sessions = @ + 1]
            /\ req' = [req EXCEPT ![r].pc = "mkdir"]
       ELSE UNCHANGED ledger /\ req' = [req EXCEPT ![r] = Done]
    /\ UNCHANGED <<files, own, lock, overdrawn, overcounted, bounds>>

Refuse == ledger' = [ledger EXCEPT !.sessions = @ - 1]

MakeDir(r) ==
    /\ req[r].pc = "mkdir"
    /\ \/ /\ Works
          /\ session' = [session EXCEPT ![req[r].s] = "keyless"]
          /\ req' = [req EXCEPT ![r].pc = "key"]
          /\ UNCHANGED ledger
       \/ Fails /\ Refuse /\ req' = [req EXCEPT ![r] = Done] /\ UNCHANGED session
    /\ UNCHANGED <<stored, part, own, lock, overdrawn, overcounted, crashes>>

(* The upload is released before its directory is removed. *)
WriteKey(r) ==
    /\ req[r].pc = "key"
    /\ \/ /\ Works
          /\ session' = [session EXCEPT ![req[r].s] = "open"]
          /\ req' = [req EXCEPT ![r] = Done]
          /\ UNCHANGED ledger
       \/ /\ Fails /\ Refuse
          /\ session' = [session EXCEPT ![req[r].s] = "left"]
          /\ req' = [req EXCEPT ![r].pc = "clean"]
    /\ UNCHANGED <<stored, part, own, lock, overdrawn, overcounted, crashes>>

CleanSession(r) ==
    /\ req[r].pc = "clean"
    /\ session' \in {[session EXCEPT ![req[r].s] = "gone"], session}
    /\ req' = [req EXCEPT ![r] = Done]
    /\ UNCHANGED <<stored, part, own, ledger, lock, overdrawn, overcounted, bounds>>

ReleaseSession(s, usage) == [ledger EXCEPT !.bytes = @ - usage.bytes,
                                !.files = @ - usage.files, !.sessions = @ - 1]
Usage(s) == [bytes |-> PartBytes(s), files |-> PartFiles(s)]
RemoveSession(s) ==
    /\ session' = [session EXCEPT ![s] = "gone"]
    /\ part' = [part EXCEPT ![s] = [n \in Parts |-> 0]]

(* A removal that fails has removed any of the parts, and maybe the key file. *)
RemovalFails(s, removed, states) ==
    /\ part' = [part EXCEPT ![s] = [n \in Parts |->
                                       IF n \in removed THEN 0 ELSE part[s][n]]]
    /\ \E state \in states : session' = [session EXCEPT ![s] = state]

(* The upload is released only when all of it was removed. *)
Abort(r) ==
    /\ req[r].pc = "store" /\ req[r].op = "abort"
    /\ lock = NoRequest
    /\ LET s == req[r].s
       IN \/ /\ Open(s) /\ Works
             /\ RemoveSession(s)
             /\ ledger' = ReleaseSession(s, Usage(s))
             /\ UNCHANGED overcounted
          \/ /\ Open(s) /\ Fails
             /\ \E removed \in SUBSET Parts :
                  /\ RemovalFails(s, removed, {"open", "keyless"})
                  /\ overcounted' =
                        [bytes |-> overcounted.bytes + Sum(part[s], removed),
                         files |-> overcounted.files + Count(part[s], removed)]
             /\ UNCHANGED ledger
          \/ ~Open(s) /\ Works /\ UNCHANGED <<session, part, ledger, overcounted>>
    /\ req' = [req EXCEPT ![r] = Done]
    /\ UNCHANGED <<stored, own, lock, overdrawn, crashes>>

-----------------------------------------------------------------------------
(* CompleteMultipartUpload *)

(* claim_session: the listed parts must still be what the client was told of *)
(* (the ETag names the content).  The whole of it reserves against all the   *)
(* parts of the upload and against the file it will replace.                 *)
Claim(r) ==
    /\ req[r].pc = "claim"
    /\ lock = NoRequest
    /\ LET s        == req[r].s
           listed   == req[r].listed
           total    == Sum(listed, DOMAIN listed)
           usage    == Usage(s)
           earlier  == stored[req[r].key]
           replaced == IF earlier > 0 THEN 1 ELSE 0
           goes     == /\ Open(s)
                       /\ \A n \in DOMAIN listed : part[s][n] = listed[n]
                       /\ total <= ByteCap
                       /\ Allows(ledger.bytes, usage.bytes + earlier, total, ByteCap)
                       /\ Allows(ledger.files, usage.files + replaced, 1, FileCap)
       IN  IF goes
           THEN /\ session' = [session EXCEPT ![s] = "joining"]
                /\ ledger' = [ledger EXCEPT !.bytes = @ + total, !.files = @ + 1]
                /\ req' = [req EXCEPT ![r] = [@ EXCEPT !.pc = "join",
                              !.replaced = usage.bytes + earlier, !.bytes = total,
                              !.files = 1, !.usage = usage]]
           ELSE req' = [req EXCEPT ![r] = Done] /\ UNCHANGED <<session, ledger>>
    /\ UNCHANGED <<stored, part, own, lock, overdrawn, overcounted, bounds>>

(* join_parts, while other requests go on: the lock is not held. *)
Join(r) ==
    /\ req[r].pc = "join"
    /\ \/ /\ Works
          /\ incoming' = [incoming EXCEPT ![r] =
                            Sum(part[req[r].s], DOMAIN req[r].listed)]
          /\ req' = [req EXCEPT ![r].pc = "swap", ![r].ok = TRUE]
          /\ UNCHANGED left
       \/ /\ Fails
          /\ req' = [req EXCEPT ![r].pc = "swap"]
          /\ \E written \in 0..req[r].bytes : left' = left + written
          /\ UNCHANGED incoming
    /\ UNCHANGED <<files, ledger, lock, overdrawn, overcounted, crashes>>

Swap(r) ==
    /\ req[r].pc = "swap"
    /\ Locks(r)
    /\ req' = [req EXCEPT ![r].pc = IF req[r].ok THEN "rename" ELSE "reopen"]
    /\ UNCHANGED <<files, own, ledger, overdrawn, overcounted, bounds>>

(* move_into_staging, for a put and for a joined upload: the rename replaces *)
(* the earlier file, and the ledger is told of it afterwards.                *)
Rename(r) ==
    /\ req[r].pc = "rename" /\ lock = r
    /\ \/ /\ Works
          /\ stored' = [stored EXCEPT ![req[r].key] = incoming[r]]
          /\ incoming' = [incoming EXCEPT ![r] = 0]
          /\ req' = [req EXCEPT ![r].pc = "settle", ![r].freed = stored[req[r].key]]
          /\ overdrawn' = (overdrawn \/ req[r].replaced >
                              stored[req[r].key] + req[r].usage.bytes)
          /\ UNCHANGED <<left, ledger, lock>>
       \/ /\ Fails /\ req[r].op = "put"
          /\ FailingDrop(r)
          /\ lock' = NoRequest
          /\ UNCHANGED <<stored, overdrawn>>
       \/ /\ Fails /\ req[r].op = "complete"
          /\ FailingUnlink(r)
          /\ req' = [req EXCEPT ![r].pc = "reopen", ![r].ok = FALSE]
          /\ UNCHANGED <<stored, ledger, lock, overdrawn>>
    /\ UNCHANGED <<session, part, overcounted, crashes>>

Settle(r) ==
    /\ req[r].pc = "settle" /\ lock = r
    /\ ledger' = [ledger EXCEPT !.bytes = @ - req[r].freed,
                     !.files = @ - (IF req[r].freed > 0 THEN 1 ELSE 0)]
    /\ IF req[r].op = "put"
       THEN req' = [req EXCEPT ![r] = Done] /\ lock' = NoRequest
       ELSE /\ req' = [req EXCEPT ![r] = [@ EXCEPT !.pc = "discard",
                                             !.bytes = 0, !.files = 0]]
            /\ UNCHANGED lock
    /\ UNCHANGED <<files, own, overdrawn, overcounted, bounds>>

(* The joined parts go, and what they held is released whether or not they   *)
(* could be removed.                                                         *)
Discard(r) ==
    /\ req[r].pc = "discard"
    /\ Unlocks(r)
    /\ \/ Works /\ RemoveSession(req[r].s)
       \/ /\ Fails
          /\ \E removed \in SUBSET Parts :
               RemovalFails(req[r].s, removed, {"joined", "left"})
    /\ ledger' = ReleaseSession(req[r].s, req[r].usage)
    /\ req' = [req EXCEPT ![r] = Done]
    /\ UNCHANGED <<stored, own, overdrawn, overcounted, crashes>>

(* A client that got a 500 may complete the upload again. *)
Reopen(r) ==
    /\ req[r].pc = "reopen"
    /\ Unlocks(r)
    /\ \/ Works /\ session' = [session EXCEPT ![req[r].s] = "open"]
       \/ Fails /\ UNCHANGED session
    /\ Release(r)
    /\ UNCHANGED <<stored, part, own, overdrawn, overcounted, crashes>>

-----------------------------------------------------------------------------
(* The server stops and starts: the requests and the ledger were in memory.  *)
(* A stop between the rename and the removal of the parts leaves both, and   *)
(* the next count finds the directories that were not counted.               *)
Crash ==
    /\ crashes < MaxCrashes
    /\ crashes' = crashes + 1
    /\ req' = [r \in Requests |-> IF req[r].pc = "idle" THEN Idle ELSE Done]
    /\ ledger' = [loaded |-> FALSE, bytes |-> 0, files |-> 0, sessions |-> 0]
    /\ lock' = NoRequest
    /\ overdrawn' = (overdrawn \/ Uncounted # {} \/ \E r \in Requests :
                       req[r].op = "complete" /\ req[r].pc \in {"settle", "discard"})
    /\ overcounted' = [bytes |-> 0, files |-> 0]
    /\ UNCHANGED <<files, own, faults>>

Step(r) ==
    \/ Read(r) \/ Frame(r) \/ BodyEnds(r) \/ GiveUp(r)
    \/ StorePut(r) \/ StorePart(r) \/ NamePart(r)
    \/ Create(r) \/ MakeDir(r) \/ WriteKey(r) \/ CleanSession(r) \/ Abort(r)
    \/ Claim(r) \/ Join(r) \/ Swap(r) \/ Rename(r) \/ Settle(r)
    \/ Discard(r) \/ Reopen(r)

Next == (\E r \in Requests : Begin(r) \/ Step(r)) \/ Crash

Spec == Init /\ [][Next]_vars

-----------------------------------------------------------------------------
Busy(r) == req[r].pc \notin {"idle", "done"}
Quiet   == \A r \in Requests : ~Busy(r)

(* Type invariant; a counter that is released twice wraps below 0, outside Nat. *)
TypeOK ==
    /\ stored \in [Keys -> Nat] /\ incoming \in [Requests -> Nat] /\ left \in Nat
    /\ session \in [Sessions ->
                      {"none", "keyless", "open", "joining", "joined", "left", "gone"}]
    /\ part \in [Sessions -> [Parts -> Nat]]
    /\ ledger \in [loaded : BOOLEAN, bytes : Nat, files : Nat, sessions : Nat]
    /\ lock \in Requests \cup {NoRequest}
    /\ overdrawn \in BOOLEAN /\ overcounted \in [bytes : Nat, files : Nat]
    /\ faults \in 0..MaxFaults /\ crashes \in 0..MaxCrashes

(* What is on the disk and not counted: the files of ended requests that could *)
(* not be removed, and the directories released before they were removed.      *)
BytesUncounted == left + Sum([s \in Sessions |-> PartBytes(s)], Uncounted)
FilesUncounted == Sum([s \in Sessions |-> PartFiles(s)], Uncounted)

(* At every moment the counters cover what is on the disk, the bodies being     *)
(* written included, so that a request is never let past a cap by a file that   *)
(* is there and not counted (StagedLedger, Reservation).  Not covered is only   *)
(* what a failed removal left, and the directory a failed create has yet to     *)
(* remove: for those the code gives the room back first.                        *)
LedgerCoversDisk ==
    ledger.loaded =>
        /\ ledger.bytes + BytesUncounted >= BytesOnDisk
        /\ ledger.files + FilesUncounted >= FilesOnDisk + Count(incoming, Requests)
        /\ ledger.sessions + Cardinality(Uncounted) >= SessionsOnDisk

(* Once no request is at work the counters are exactly what is on the disk, but *)
(* for what failed removals left uncounted and for the parts that aborts took   *)
(* before they failed, which stay counted: nothing else that fails, breaks off  *)
(* or is replaced leaves anything reserved or gives anything back twice.        *)
QuietLedgerExact ==
    ledger.loaded /\ Quiet =>
        /\ ledger.bytes + BytesUncounted = BytesOnDisk + overcounted.bytes
        /\ ledger.files + FilesUncounted = FilesOnDisk + overcounted.files
        /\ ledger.sessions + Cardinality(Uncounted) = SessionsOnDisk

(* Once no request is at work the asset holds no more than STAGED_CAPS allow    *)
(* beside what failed removals left, unless a request counted on replacing a    *)
(* copy that had meanwhile shrunk, or a stop came with an upload on the disk    *)
(* beside the file it was joined into or with a directory not counted.          *)
CapsHold ==
    ledger.loaded /\ Quiet /\ ~overdrawn =>
        /\ BytesOnDisk <= ByteCap + BytesUncounted
        /\ FilesOnDisk <= FileCap + FilesUncounted
        /\ SessionsOnDisk <= SessionCap + Cardinality(Uncounted)

(* README.md:168: "The files and multipart parts one set of credentials holds *)
(* total at most MAX_UPLOAD_BYTES", with no stop of the server in between.    *)
(* The code does not keep this one (README, section 3).                       *)
HoldsAtMostCap ==
    ledger.loaded /\ Quiet /\ crashes = 0 => BytesOnDisk <= ByteCap + BytesUncounted

(* The file a completed upload stores is made of the parts its client listed, *)
(* whatever parts arrived while it was joined (store_claimed_session).        *)
CompletedAsListed ==
    \A r \in Requests : req[r].op = "complete" /\ req[r].pc \in {"settle", "discard"} =>
        stored[req[r].key] = Sum(req[r].listed, DOMAIN req[r].listed)

(* Two requests never join the parts of one upload. *)
Joins(r, s) == /\ req[r].op = "complete" /\ req[r].s = s
               /\ req[r].pc \in {"join", "swap", "rename", "settle", "discard", "reopen"}
OneJoiner ==
    \A q, r \in Requests, s \in Sessions : Joins(q, s) /\ Joins(r, s) => q = r

=============================================================================
