----------------------------- MODULE RenditionUpload -----------------------------
(***************************************************************************)
(* One rung of a video, file by file: the transcode job encodes it into a  *)
(* work directory, uploads the directory in batches and may take it back,  *)
(* while a moderation decision empties the prefix page by page.  What      *)
(* TranscodeProcessor and ModerationActions do in one step takes many here, *)
(* and nobody awaits some of it: the progress updates, and the puts that   *)
(* are on their way when another one of their batch rejects.               *)
(*                                                                         *)
(* Files are numbered in the order in which S3 lists their keys; readdir   *)
(* may give them in any other.                                             *)
(***************************************************************************)
EXTENDS Integers, FiniteSets

CONSTANTS
    NFiles,              \* init.mp4, playlist.m3u8 and the segments
    UPLOAD_CONCURRENCY,
    PageSize,            \* keys on a page of ListObjectsV2
    Whole,               \* 100 per cent
    PROGRESS_STEP,
    Siblings,            \* the other rungs of the video's ladder
    MaxAttempts,
    MaxFaults            \* bound: awaits that reject and restarts

Files == 1..NFiles

ASSUME UploadAssumption ==
    /\ NFiles \in Nat \ {0}
    /\ UPLOAD_CONCURRENCY \in Nat \ {0}
    /\ PageSize \in Nat \ {0}
    /\ Whole \in Nat \ {0}
    /\ PROGRESS_STEP \in Nat \ {0}
    /\ Siblings \in Nat
    /\ MaxAttempts \in Nat \ {0}
    /\ MaxFaults \in Nat

VARIABLES
    blocked,   \* isBlockedStatus(row.moderationStatus)
    rendition, \* status and progress of the row
    stored,    \* the files whose keys are in the bucket
    job,       \* its state and the attempts made
    pc,        \* the next await of the handler
    uploaded,  \* the files of the batches that are over
    batch,     \* the puts the handler waits for
    adrift,    \* puts that nobody waits for
    lastSaved,
    late,      \* progress updates on their way
    deletes,   \* deletePrefix of the decision and that of the job
    faults

row     == <<blocked, rendition>>
handler == <<job, pc>>
upload  == <<uploaded, batch, adrift>>
reports == <<lastSaved, late>>
vars    == <<row, stored, handler, upload, reports, deletes, faults>>

Deleters == {"decision", "job"}

NoListing == [step |-> "idle", token |-> 0, page |-> {}, truncated |-> FALSE]

Init ==
    /\ blocked = FALSE
    /\ rendition = [status |-> "pending", progress |-> 0]
    /\ stored = {}
    /\ job = [state |-> "waiting", made |-> 0, stalled |-> FALSE]
    /\ pc = "idle"
    /\ uploaded = {} /\ batch = {} /\ adrift = {}
    /\ lastSaved = 0 /\ late = {}
    /\ deletes = [d \in Deleters |-> NoListing]
    /\ faults = 0

Goto(step) == pc' = step /\ UNCHANGED job

Faulty == faults < MaxFaults /\ faults' = faults + 1

-----------------------------------------------------------------------------
(* StorageService.deletePrefix: a page is listed, its keys are deleted, and  *)
(* the next listing goes on behind it, whatever has been put meanwhile.      *)

Beyond(token) == {f \in stored : f > token}

Listed(token) ==
    {f \in Beyond(token) : Cardinality({g \in Beyond(token) : g < f}) < PageSize}

LastKey(page) == CHOOSE f \in page : \A g \in page : g <= f

(* Mutant of GoesOn: the first page only. *)
FirstPageOnly(listing) == FALSE

GoesOn(listing) == listing.truncated

After(listing) == IF GoesOn(listing) THEN [listing EXCEPT !.step = "list", !.page = {}]
                                     ELSE NoListing

List(d) ==
    LET token == deletes[d].token
        page  == Listed(token)
    IN
    /\ deletes[d].step = "list"
    /\ deletes' = [deletes EXCEPT ![d] =
                     IF page = {} THEN NoListing
                     ELSE [step      |-> "delete",
                           token     |-> LastKey(page),
                           page      |-> page,
                           truncated |-> page # Beyond(token)]]
    /\ UNCHANGED <<row, stored, handler, upload, reports, faults>>

Delete(d) ==
    /\ deletes[d].step = "delete"
    /\ stored' = stored \ deletes[d].page
    /\ deletes' = [deletes EXCEPT ![d] = After(deletes[d])]
    /\ UNCHANGED <<row, handler, upload, reports, faults>>

DeletesPrefix(d) == deletes' = [deletes EXCEPT ![d].step = "list"]

-----------------------------------------------------------------------------
(* ModerationActionsService.apply: the status first, then the removal. *)

Block ==
    /\ ~blocked
    /\ blocked' = TRUE
    /\ DeletesPrefix("decision")
    /\ UNCHANGED <<rendition, stored, handler, upload, reports, faults>>

(* The removal rejects, perhaps after the page was deleted; the job that runs *)
(* again skips the blocked video.                                             *)
RemovalFails ==
    /\ Faulty
    /\ deletes["decision"].step # "idle"
    /\ stored' \in {stored, stored \ deletes["decision"].page}
    /\ deletes' = [deletes EXCEPT !["decision"] = NoListing]
    /\ UNCHANGED <<row, handler, upload, reports>>

-----------------------------------------------------------------------------
(* VideoTranscodeProcessor.process. *)

Take ==
    /\ job.state = "waiting"
    /\ job' = [job EXCEPT !.state = "active"]
    /\ pc' = "start"
    /\ UNCHANGED <<row, stored, upload, reports, deletes, faults>>

(* The video, then the rendition, whose status only this job writes here.    *)
Start ==
    /\ pc = "start"
    /\ Goto(IF blocked \/ rendition.status = "ready" THEN "return" ELSE "encoding")
    /\ UNCHANGED <<row, stored, upload, reports, deletes, faults>>

Encoding ==
    /\ pc = "encoding"
    /\ rendition' = [status |-> "encoding", progress |-> 0]
    /\ lastSaved' = 0
    /\ Goto("ffmpeg")
    /\ UNCHANGED <<blocked, stored, upload, late, deletes, faults>>

(* ffmpeg tells how far it is, which is never the whole; an update is sent   *)
(* for every PROGRESS_STEP of it.                                            *)
OnProgress(pct) ==
    /\ pc = "ffmpeg"
    /\ pct >= lastSaved + PROGRESS_STEP
    /\ lastSaved' = pct
    /\ late' = late \cup {pct}
    /\ UNCHANGED <<row, stored, handler, upload, deletes, faults>>

(* It lands at any time, in any order, or it rejects, which is caught.       *)
ProgressLands(pct) ==
    /\ pct \in late
    /\ late' = late \ {pct}
    /\ \/ rendition' = [rendition EXCEPT !.progress = pct]
       \/ UNCHANGED rendition
    /\ UNCHANGED <<blocked, stored, handler, upload, lastSaved, deletes, faults>>

Encoded ==
    /\ pc = "ffmpeg"
    /\ uploaded' = {}
    /\ Goto("upload")
    /\ UNCHANGED <<row, stored, batch, adrift, reports, deletes, faults>>

-----------------------------------------------------------------------------
(* StorageService.uploadDirectory: batch after batch, the puts of a batch at *)
(* the same time.                                                            *)

(* files.slice(i, i + UPLOAD_CONCURRENCY): the last batch may be smaller.    *)
IsBatch(files, rest) ==
    /\ files # {}
    /\ \/ Cardinality(files) = UPLOAD_CONCURRENCY
       \/ Cardinality(files) < UPLOAD_CONCURRENCY /\ files = rest

PutBatch ==
    /\ pc = "upload" /\ batch = {}
    /\ batch' \in SUBSET (Files \ uploaded) /\ IsBatch(batch', Files \ uploaded)
    /\ UNCHANGED <<row, stored, handler, uploaded, adrift, reports, deletes, faults>>

PutLands(f) ==
    /\ f \in batch
    /\ stored' = stored \cup {f}
    /\ uploaded' = uploaded \cup {f}
    /\ batch' = batch \ {f}
    /\ UNCHANGED <<row, handler, adrift, reports, deletes, faults>>

(* Mutant of AllPut: the loop ends before a smaller last batch. *)
NoFullBatchLeft(rest) == Cardinality(rest) < UPLOAD_CONCURRENCY

AllPut(rest) == rest = {}

Uploaded ==
    /\ pc = "upload" /\ batch = {} /\ AllPut(Files \ uploaded)
    /\ Goto("ready")
    /\ UNCHANGED <<row, stored, upload, reports, deletes, faults>>

(* Mutant of PutRejects: Promise.allSettled, and what became of the puts is *)
(* never asked.                                                              *)
AllSettled ==
    /\ Faulty
    /\ pc = "upload" /\ batch # {}
    /\ adrift' = adrift \cup batch
    /\ uploaded' = uploaded \cup batch
    /\ batch' = {}
    /\ UNCHANGED <<row, stored, handler, reports, deletes>>

(* A put rejects, and Promise.all with it: nobody waits for the others of    *)
(* the batch, nor knows whether the one that rejected had an effect.         *)
PutRejects ==
    /\ Faulty
    /\ pc = "upload" /\ batch # {}
    /\ adrift' = adrift \cup batch
    /\ batch' = {}
    /\ Goto("catch")
    /\ UNCHANGED <<row, stored, uploaded, reports, deletes>>

AdriftEnds(f) ==
    /\ f \in adrift
    /\ adrift' = adrift \ {f}
    /\ stored' \in {stored, stored \cup {f}}
    /\ UNCHANGED <<row, handler, uploaded, batch, reports, deletes, faults>>

-----------------------------------------------------------------------------
(* The rest of process. *)

Ready ==
    /\ pc = "ready"
    /\ rendition' = [status |-> "ready", progress |-> Whole]
    /\ Goto("recheck")
    /\ UNCHANGED <<blocked, stored, upload, reports, deletes, faults>>

Recheck ==
    /\ pc = "recheck"
    /\ \/ blocked /\ DeletesPrefix("job") /\ Goto("cleanup")
       \/ ~blocked /\ Goto("publish") /\ UNCHANGED deletes
    /\ UNCHANGED <<row, stored, upload, reports, faults>>

(* deletePrefix, or the publication of the rendition, is over.               *)
Done ==
    /\ pc = "publish" \/ (pc = "cleanup" /\ deletes["job"].step = "idle")
    /\ Goto("return")
    /\ UNCHANGED <<row, stored, upload, reports, deletes, faults>>

(* What rejects inside the try block leads to the catch, the rest to BullMQ. *)
Rejects ==
    /\ Faulty
    /\ \/ pc \in {"start", "encoding", "catch"} /\ Goto("throw") /\ UNCHANGED <<stored, deletes>>
       \/ /\ pc \in {"ffmpeg", "ready", "recheck", "publish", "cleanup"}
          /\ Goto("catch")
          /\ stored' \in {stored, stored \ deletes["job"].page}
          /\ deletes' = [deletes EXCEPT !["job"] = NoListing]
    /\ UNCHANGED <<row, upload, reports>>

(* Mutant of LastAttempt: an attempt too many. *)
CountsFromZero == job.made >= MaxAttempts

LastAttempt == job.made + 1 >= MaxAttempts

Catch ==
    /\ pc = "catch"
    /\ rendition' = [rendition EXCEPT !.status = IF LastAttempt THEN "failed" ELSE "pending"]
    /\ Goto("throw")
    /\ UNCHANGED <<blocked, stored, upload, reports, deletes, faults>>

Settle ==
    /\ pc \in {"return", "throw"}
    /\ pc' = "idle"
    /\ job' = [job EXCEPT !.state = CASE pc = "return" -> "completed"
                                      [] pc = "throw" /\ LastAttempt -> "failed"
                                      [] OTHER -> "waiting",
                          !.made = @ + 1]
    /\ UNCHANGED <<row, stored, upload, reports, deletes, faults>>

(* The worker dies: what it has sent may still arrive, and the job is found  *)
(* stalled, for the first time or for good.                                  *)
WorkerCrash ==
    /\ Faulty
    /\ job.state = "active"
    /\ job' = [job EXCEPT !.state = IF job.stalled THEN "failed" ELSE "waiting",
                          !.stalled = TRUE]
    /\ pc' = "idle"
    /\ adrift' = adrift \cup batch /\ batch' = {}
    /\ stored' \in {stored, stored \ deletes["job"].page}
    /\ deletes' = [deletes EXCEPT !["job"] = NoListing]
    /\ UNCHANGED <<row, uploaded, reports>>

-----------------------------------------------------------------------------
Next ==
    \/ Take \/ Start \/ Encoding \/ Encoded \/ PutBatch \/ Uploaded \/ PutRejects
    \/ Ready \/ Recheck \/ Done \/ Catch \/ Settle \/ Rejects \/ WorkerCrash
    \/ \E pct \in 1..(Whole - 1) : OnProgress(pct) \/ ProgressLands(pct)
    \/ \E f \in Files : PutLands(f) \/ AdriftEnds(f)
    \/ Block \/ RemovalFails
    \/ \E d \in Deleters : List(d) \/ Delete(d)

Spec == Init /\ [][Next]_vars

-----------------------------------------------------------------------------
(* Video details, processing-progress.util.ts: the mean over the ladder, of   *)
(* which the other rungs have brought in others, as much as the whole each.  *)

isFinished == rendition.status \in {"ready", "failed"}

(* Mutant of share: the column as it is. *)
rawShare == rendition.progress

share == IF isFinished THEN Whole ELSE rendition.progress

(* Math.round of total / count. *)
Round(total, count) == (2 * total + count) \div (2 * count)

percent(others) == Round(share + others, Siblings + 1)

done(others) == isFinished /\ others = Whole * Siblings

missing(others) == Whole * (Siblings + 1) - (share + others)

-----------------------------------------------------------------------------
Steps == {"idle", "start", "encoding", "ffmpeg", "upload", "ready", "recheck",
          "publish", "cleanup", "catch", "return", "throw"}

Job == [state   : {"waiting", "active", "completed", "failed"},
        made    : 0..MaxAttempts,
        stalled : BOOLEAN]

Listing == [step      : {"idle", "list", "delete"},
            token     : 0..NFiles,
            page      : SUBSET Files,
            truncated : BOOLEAN]

(* Every variable stays within its type; the handler runs while its job is   *)
(* active, and a job that may run has an attempt left.                       *)
TypeOK ==
    /\ blocked \in BOOLEAN
    /\ rendition \in [status   : {"pending", "encoding", "ready", "failed"},
                      progress : 0..Whole]
    /\ stored \in SUBSET Files
    /\ job \in Job
    /\ pc \in Steps
    /\ uploaded \in SUBSET Files /\ batch \in SUBSET Files /\ adrift \in SUBSET Files
    /\ lastSaved \in 0..Whole
    /\ late \in SUBSET (1..(Whole - 1))
    /\ deletes \in [Deleters -> Listing]
    /\ faults \in 0..MaxFaults
    /\ job.state = "active" <=> pc # "idle"
    /\ job.state \in {"waiting", "active"} => job.made < MaxAttempts

(* A rendition that says READY can be played to its end: unless the video    *)
(* was blocked, every file of it is stored, whatever batches there were,     *)
(* whichever put was rejected, adrift or repeated, and whatever restarted.   *)
ReadyIsComplete == rendition.status = "ready" /\ ~blocked => stored = Files

AtRest ==
    /\ job.state \in {"completed", "failed"}
    /\ deletes["decision"].step = "idle"

(* When all is over without a failure, no file of a blocked video is left,   *)
(* wherever in the upload the removal came and on whatever page of the       *)
(* listing the puts of that moment fell.                                     *)
BlockedLeavesNoFiles == AtRest /\ blocked /\ faults = 0 => stored = {}

(* Unless something failed, the owner of a video that is done is told 100    *)
(* per cent, although updates of the progress may land after the end of the  *)
(* rendition and in any order; and 100 before the end only because of the    *)
(* rounding: some rung is not finished, and half a per cent for each rung of *)
(* the ladder, at most, is missing.  A ladder of one rung has no such case.  *)
WholeWhenFinished ==
    faults = 0 =>
        \A others \in 0..(Whole * Siblings) :
            /\ done(others) => percent(others) = Whole
            /\ percent(others) = Whole =>
                   done(others) \/ 2 * missing(others) \in 2..(Siblings + 1)

(* Why READY means complete: the handler gets there only by uploading all,   *)
(* and what it has uploaded stays as long as nobody deletes.                 *)
UploadedIsStored ==
    ~blocked =>
        /\ uploaded \subseteq stored
        /\ pc = "ready" => uploaded = Files
        /\ rendition.status = "ready" => stored = Files
        /\ \A d \in Deleters : deletes[d] = NoListing

(* What a removal that is under way has still before it. *)
WillDelete(d, f) ==
    \/ deletes[d].step = "list" /\ f > deletes[d].token
    \/ /\ deletes[d].step = "delete"
       /\ f \in deletes[d].page \/ (deletes[d].truncated /\ f > deletes[d].token)

(* Why a removal is complete: each file is before the handler's second look, *)
(* or before its own removal, or before that of the decision.                *)
RemovalReachesAll ==
    blocked /\ faults = 0 =>
        \/ pc \in {"encoding", "ffmpeg", "upload", "ready", "recheck"}
        \/ pc = "cleanup" /\ \A f \in stored : WillDelete("job", f)
        \/ \A f \in stored : WillDelete("decision", f)

(* Who waits for what: puts and listings end with the step that awaits them. *)
StepsAreAwaited ==
    /\ pc # "upload" => batch = {}
    /\ pc # "cleanup" => deletes["job"] = NoListing
    /\ \A d \in Deleters : deletes[d].step = "idle" => deletes[d] = NoListing
    /\ faults = 0 => adrift = {}

UploadInv == UploadedIsStored /\ RemovalReachesAll /\ StepsAreAwaited
=============================================================================
