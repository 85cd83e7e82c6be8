# TLA+ models of the YouFlix backend

The repository is the backend of a video site: a NestJS API process, a worker
process, Postgres (TypeORM), Redis (BullMQ queues, search history) and an S3
bucket. This directory holds TLA+ specifications of the parts of it that are
hardest to test: what happens to a video between its upload and the moment it is
listed, while the owner edits it, an AI and an admin judge it, four kinds of
jobs work on it, and any await may fail; the files of one rendition, put in
batches while they are deleted page by page; the lists that readers page through
while they change; the rotation of refresh tokens and everything that ends
sessions; accounts with their activation e-mails; and the search history. TLC
checks small instances; TLAPS proves the central invariants for every instance.
`PROJECT.json` lists the runs, the properties, the mutants, the source lines of
every definition, the hazards and the theorems.

## 1. Inventory

| Component (src/src/...) | State it keeps | Operations | What makes it correct | Status |
|---|---|---|---|---|
| `video/video.service.ts`, owners | `videos` row | createUpload, completeUpload, updateDetails | an accepted upload is processed; saves do not undo what others wrote; keys name stored objects | `VideoApi` |
| `video/video.service.ts`, readers | none; several queries per answer | listVideos, getFeed | the newest videos are on the first page; pages have no gap and no double, and are as full as the total says | `Feed` |
| `video/processors/video-analyze` | row status, renditions, frames, flow | probe, frames, renditions, add flow and moderation job | every rung gets a rendition and a job; a retry does no harm | `AnalyzeProcessor` |
| `video/processors/video-transcode` | rendition status, segments | encode, upload, publish; second look at moderation | a blocked video keeps no segments; READY means stored | `TranscodeProcessor` |
| `video/hls-publisher` | master playlist, row status | publish | the playlist lists what is stored, and in the end all of it | `HlsPublisher` |
| `video/processors/video-finalize`, `video/storyboard` | storyboard, row status | last publish, storyboard | as above; a partly failed ladder is still published | `FinalizeProcessor` |
| `video/processors/video-moderate` | moderation status | analysis of frames, of text; merge | a clean title approves nothing by itself | `ModerateProcessor` |
| `video/moderation-actions` | history, moderation status, public media | apply, removePublicMedia | no status without history; media goes when blocked | `ModerationActions` |
| `video/moderation/moderation-admin` | the same | approve, reject, reprocess | an approved video becomes playable again | `ModerationAdmin` |
| `video/moderation/util`, `moderation-analyzer` | none (pure) | decideModeration, mostSevere, mergeModeration, combineResults, chunk plan | the worst chunk decides, the whole video is looked at | `ModerationPolicy`, `ModerationAnalysis` |
| `video/moderation/openrouter.client` | none | one call to a model | a refusal is no approval; a failed call drops the attempt | in `ModerationAnalysis` |
| BullMQ | jobs, attempts, flow dependencies | add, take, complete, retry, fail, stalled | (external, as used) | `BullQueues` |
| `video/storage` | objects in S3 | put, head, uploadDirectory in batches, deletePrefix in pages | READY means that every file is there; what is blocked leaves no file, however puts and pages interleave | `RenditionUpload`; whole prefixes in `VideoData` |
| `video/transcode.service`, `video/utils/processing-progress` | progress of a rendition | encode, report progress, show it to the owner | late reports do not undo the end; done means 100 per cent | `RenditionUpload` |
| `auth/auth.service`, sessions | `tokens`, cookies | login, rotate, logout, logout everywhere | a token is exchanged once; a closed session stays closed | `AuthSessions` |
| `auth/auth.service`, accounts | `users` | register, resend, activate | users are distinct; a refused registration leaves nothing; active means mailed, or activated by an admin | `Accounts` |
| `user/user.service` | `users`, `tokens` | profile, password, delete, admin update | phones stay distinct; a new password ends the old sessions | `Accounts`, `AuthSessions` |
| `auth/token-cleanup` | `tokens` | daily delete of expired tokens | does not reopen a session | `AuthSessions` |
| `mailer` | mail queue | activation e-mails (the one for passwords has no caller) | an e-mail that is promised is sent or known to have failed | `Accounts` |
| `search-history` | Redis sorted set | record, import, findRecent | the most recent terms are kept, and suggested | `SearchHistory` |
| genres, config, redis module, observe, migrations, wrappers of ffmpeg | none of interest | | | not modelled (section 8) |

**Interaction.** The API process writes the row directly and talks to the worker
only through queues: completeUpload adds an *analyze* job; that job adds a
*flow* (one *transcode* job per rendition, whose parent is the *finalize* job)
and a *moderate* job; updateDetails adds a *moderate* job for the text; an admin
who approves a blocked video adds another *analyze* job. All of them share the
row, the renditions and the bucket, and nothing locks: there are no transactions
around a handler, and `repository.save(entity)` writes every column of an entity
that was loaded some awaits, or minutes of ffmpeg, earlier.

Sessions and accounts meet the pipeline only in the user id of a video. Their
handlers run in the API process; two of its instances, or two requests of one,
interleave at every await on Postgres and Redis. The tokens table is ordered by
one conditional update, the users table by its unique indexes, the mail queue by
a deduplication key that lives a minute. The search history meets the rest of the
program in the personal feed, which asks it for terms; Redis runs each save as one
transaction, but a save reads its clock before it gets there.

**Hard behaviours.** Stale entities saved over newer rows; decisions read,
merged and written in separate awaits; media put after it was removed; playlists
put out of order; a failure between saving a row and adding its job; retries of
attempts that had already succeeded in part; workers that stop between two
awaits; kept failed jobs that block their job id. In accounts and sessions:
check-then-act over a table without transactions; a token presented twice; a
revocation between the claim of a token and the insert of the next one; an e-mail
whose add is dropped as a duplicate, or whose answer is lost. Around S3: a batch of
puts of which one rejects and the others go on, a listing that is pages long while
files are put, progress updates that nobody awaits. In the lists: several queries
for one answer, and offsets into what changes. They are listed line by line
as hazards in `PROJECT.json`.

## 2. How the model is built

There are seven specifications: `VideoPipeline`, `RenditionUpload`, `Feed`,
`ModerationAnalysis`, `AuthSessions`, `Accounts` and `SearchHistory`.

### 2.1 The video pipeline

One video is modelled. Videos share nothing but the worker's slots, and those
are left to fairness. The **processes** are the jobs that can exist for the video
and the requests that may be sent; `pc[p]` is the await process `p` does next and
the other locals (`snap`, `ready`, `decision`, `ladder`) are what a handler keeps
in memory across awaits. **One action is one await that touches shared state**,
which is exactly the granularity at which Node interleaves two handlers and at
which two processes interleave in Postgres, Redis and S3. What a handler computes
between two awaits is part of the action.

| Module | Code it translates |
|---|---|
| `ModerationPolicy` | the pure rules of `moderation.policy.util.ts` |
| `VideoData` | row, renditions, history, objects, jobs; the constants and their assumptions |
| `VideoApi` | completeUpload, updateDetails, the client's PUT of the source |
| `AnalyzeProcessor`, `TranscodeProcessor`, `FinalizeProcessor`, `ModerateProcessor` | the four `process` methods with their try/catch |
| `HlsPublisher`, `ModerationActions` | the services the processors share |
| `ModerationAdmin` | approve, reject, reprocess |
| `BullQueues` | BullMQ and the restarts of both processes |
| `VideoPipeline` | the composition: Init, Next, fairness and all properties |
| `VideoPipelineMC` | values for TLC |
| `ModerationAnalysis`, `ModerationAnalysisMC` | the chunk loop of moderateVideo and the decision of a chunk |
| `RenditionUpload` | the files of one rendition: the transcode job put by put, deletePrefix page by page |
| `Feed` | listVideos and getFeed, query by query |
| `SearchHistory`, `SearchHistoryMC` | record, import and findRecent |
| `SessionFamily` | nothing: what rotation promises about one session (abstract) |
| `AuthSessions`, `AuthSessionsMC` | the requests that save, exchange and revoke tokens; expiry and clean-up |
| `Accounts`, `AccountsMC` | the requests on the users table; the activation e-mail and its worker |
| `VideoPipelineProofs`, `VideoMediaProofs`, `RenditionUploadProofs`, `FeedProofs`, `ModerationAnalysisProofs`, `AuthSessionsProofs`, `AccountsProofs`, `SearchHistoryProofs` | theorems and proofs |

The correspondence of state and code:

* `row` keeps the columns a rule or a key depends on: status, isPublic,
  moderationStatus, hlsMasterKey, storyboard, thumbnailCandidateKeys, thumbnailKey
  and the three variant keys (one value, they are always set together). Keys are
  abstracted to the object they name: none, a frame, or the image of edit *e*.
* `rend[r]` is the status of rendition *r*; `"none"` before the row exists.
* `history` is the set of (source, status) in `video_moderations`.
* `s3` keeps, per prefix, which objects exist. `master` is the set of rungs the
  stored playlist lists.
* `jobs[j]` is the state of a job, its attemptsMade, and how often it stalled;
  `waitFor` the children its parent still waits for. The `jobId` is the identity
  of a job, so adding a job that is still kept is a no-op.
* A handler ends in `pc = "return"`, `"throw"` or `"fatal"`
  (UnrecoverableError), and `BullQueues` does the rest.

**Failures.** Every await of every handler may reject (`...Fails` actions); then
the catch block that encloses it in the code runs. `WorkerCrash` and `ApiCrash`
stop a process: memory is lost, active jobs are found stalled and wait again, and
a job that stalls a second time fails without its handler. `MaxFaults` bounds
rejections and restarts together and `MaxCrashes` the restarts; both are bounds of
the model only, and the theorems hold for every value of them.

**Abstractions and simplifications.**
* The verdict of an analysis is any value of `VideoVerdicts` / `TextVerdicts`;
  how answers become verdicts is the module `ModerationAnalysis`.
* A deletePrefix is one step, and so is an upload. What happens between two pages,
  or two files, is in `RenditionUpload`.
* Waiting and delayed jobs are one state and start in any order: backoff and the
  jobs of other videos reorder them. Priorities are therefore ignored.
* A worker that is alive but so busy that its job is given to another one at the
  same time is not modelled.
* Title, description and genres, `durationSeconds` and the source size have no
  column in the model. (A stale save also puts back an old `durationSeconds`.)
* Signed URLs do not expire. The video row always exists: nothing deletes one
  except the deletion of its author.
* Durations in `ModerationAnalysis` are integers; the code's are floats, and
  rounding a float up to the next integer changes neither the number nor the
  length of its chunks. Confidences are tenths on both sides of the thresholds.

In `ModerationAnalysis` an attempt may fail at any chunk, and the next one begins
again with the first; a refusal and an answer the schema does not accept are two
answers that lead to review. What becomes of the last attempt is in
`ModerateProcessor`.

### 2.2 The files of a rendition

`RenditionUpload` takes one rung of `VideoPipeline` apart. `stored` is the set of its
files in the bucket; `uploaded`, `batch` and `adrift` are the files of the batches that
are over, the puts the handler waits for, and the puts nobody waits for any more: the
rest of a batch of which one was rejected, or what a worker had sent when it died.
`deletes` has the two deletePrefix that may run at once, the one of the decision and
the one of the job's own second look, each with its continuation token and its page.
`late` has the progress updates that were sent and not awaited.

* Files are numbered in the order of their keys, the order of a listing. readdir may
  give them in any order, so a batch is any set of the right size.
* Publishing is one step: what it does is in `HlsPublisher`. A video is blocked once
  and stays so, and no analyze job resets the rendition: both are in `VideoPipeline`.
* A put or a page of deletions that rejects may have had its effect.
* ffmpeg never reports more than 99 per cent; every attempt has a directory of its own.
* What the owner is told is the mean over the ladder, rounded (`share`, `percent`). The
  other rungs run the same code, so what they have brought in is any sum up to the
  whole, reached when all of them are finished.

### 2.3 Lists and feed

`Feed` has one reader, who asks for page after page of one kind of list, and a
catalogue of `published` videos that changes between any two queries. Videos are
numbered by createdAt, on which every query sorts (ties are left out). TypeORM reads a
page of a find with relations in two queries, the ids and then the rows of these ids
that still match (`Rows`), and findAndCount counts after them. Which titles match the
terms of the reader is a choice. `began`, `hidden` and `came` only record what the
properties compare with. The rows' layout and the thumbnails are left out, and so is
findByPublicId: one query, between whose parts nothing can come.

### 2.4 Sessions

`AuthSessions` is about one user. `stored` is the set of rows of the tokens table;
`isUsed`, `isRevoked`, `tokenFamily` and `expired` are columns. A login or rotation
saves at most one token, so the request names the token, and the login names the
family it starts. What each of the other requests asks for (`kind`) is chosen in
`Init`, which gives every multiset of handlers in one run. Columns outlive a deleted
row in the model, as a record of what the row said; no action reads them except
through `stored` or through a record that a request holds.

* A client may present any token it was ever given: an answer that was lost, a
  second tab and a stolen cookie are the same to the server.
* Whether a password matches is a choice.
* A rejected await had no effect; one whose effect happened and whose answer was
  lost is the step followed by a rejection. A restart of the API is a rejection of
  every request under way.
* Access tokens are no rows. They may outlive their session by design, so requests
  of the user ask only whether the account is there and active (`JwtStrategy`).
* Tokens expire at any time after they were issued, and the clean-up runs at any
  time. Hashes, signatures, cookie attributes and throttling are left out.

### 2.5 Accounts

`account[r]` is the row saved by registration *r*, with the three unique columns and
isActive; a row stays there after deletion, as a record, and `users` says which rows
exist. `mail[p]` is the job that request *p* added, `keys` the deduplication keys
that have not expired, `mailed` the users an activation token was delivered to.

* Each check precedes the write it is for by an await; `Taken` and `PhoneOfAnother`
  in the writes are the unique indexes.
* A key may expire at any time: a job that waits for a minute or more is real.
* Nobody but the worker looks at a mail job, so taking it and the outcome are one
  step. Mailgun may have accepted an e-mail whose answer was lost, so a failed or
  stalled attempt may deliver too.
* An activation token does not expire (a token that does only takes behaviours
  away), and the row of the user is what it is compared with.
* Passwords, names and their validation are left out, and so are fields of the
  profile other than the phone. `adminUpdateUser` writes isActive of any user, whether
  or not a token was ever mailed; the sessions that it and a deletion end are in
  `AuthSessions`.
* A write of the users table that rejects had no effect. A save that commits and loses
  its answer (`auth.service.ts:58`) is left out: it is answered 500 with a row, and only
  the resend of the e-mail helps that user. `RefusedLeavesNoUser` is about the awaits
  after the save.
* A failed mail job is kept for a week (`mailer.service.ts`), a time the model does not
  reach: "kept" in `MailIsUnderWay` means that long.

### 2.6 Search history

`SearchHistory` is the sorted set of one user: `stored` maps each member to its score.
A save reads the clock, waits (`pc`, `batch`) and is then one MULTI: ZADD GT,
ZREMRANGEBYRANK, EXPIRE. Redis drops the whole set when `expiresAt` comes. Terms are
numbered in the order in which Redis breaks ties; a term is what normalizeSearchTerm
gives, and two searches that it makes equal are the same term. `latest` records with
what time each term ever came, which is what the properties compare with. The clock is
one for the program and for Redis, and stops at a bound.

## 3. Properties

| Property | Statement |
|---|---|
| `TypeOK` | every variable stays in its type |
| `StatusIsRecorded` | a decided moderation status always has an entry of that status in the history |
| `ApprovedWasSeen` | an approved video had its frames approved or was approved by an admin |
| `LedgerInv` | the same of everything that may still be written: loaded entities and decisions in flight |
| `MediaIsStored` | until something is blocked, every key of the row names a stored object, READY renditions have segments, the playlist lists only those |
| `MediaInv` | the same of loaded entities, of publishes in flight and of the next step of each handler |
| `BlockedLeavesNoSegments` | at rest and without a failure, a blocked video has no segments, whatever was approved, rejected and made again before (edits aside, section 5) |
| `PlaylistIsComplete` | at rest and without a failure, the playlist of a READY video that was never blocked lists all READY renditions |
| `RestInv` | why these two hold: handlers run only for active jobs; each segment of a blocked video has somebody who will remove it; a finalize job that waits has a rung to wait for; a video that was never blocked goes through the pipeline once |
| `AcceptedUploadsSettle` | at rest and without a failure, a video whose upload was accepted is READY with its whole ladder in the playlist, unless it was blocked or an edit was saved, whose entity may be older than the last write of the pipeline |
| `NoUploadIsLost` | whatever fails, the jobs of an accepted upload come to an end, and from then on the video is blocked, has a playlist, or has a failed job that tells of it; a finalize job that is still waiting then waits only for rungs whose kept jobs have failed for good (liveness) |
| `OpenOutcomeSawEverything` | a video is approved or sent to review only after all of it was analyzed, in at most `MaxChunks` chunks |
| `OutcomeIsWorstChunk` | the outcome is the worst chunk's |
| `QuarantineIsFinal` | no context excuses a quarantine, and it decides for the whole video |
| `ReadyIsComplete` | a READY rendition of a video that is not blocked has every file, whichever put was rejected, adrift or repeated, and whatever restarted |
| `BlockedLeavesNoFiles` | without a failure no file of a blocked video is left, wherever in the upload the removal came and on whatever page |
| `WholeWhenFinished` | without a failure the owner of a video that is done is told 100 per cent, although reports land late; before that, 100 is shown only where rounding hides what is missing, half a per cent per rung at most |
| `UploadInv` | why: what was uploaded stays, every file of a blocked video is still before a removal or the second look, and who awaits what |
| `FirstPageIsNewest` | the first page of the feed leaves out no video that was public all the time and is newer than one of its latest ones |
| `PagesAreFull` | a page has fewer videos than the limit only at the end that its total tells of, unless videos were taken off |
| `PagesAreContinuous` | without recommendations, no video twice when none came, and no gap when none was taken off |
| `FeedInv` | why: what a request has read is a part of the list it will answer with, and goes on where the pages ended |
| `RecentTermsAreKept` | a term searched within the lifetime, with fewer than MAX_STORED_TERMS later ones, is stored with its latest time |
| `SuggestionsAreMostRecent` | of the recent terms with a prefix the latest MAX_SUGGESTIONS are suggested |
| `HistoryInv` | why: no score is ahead of the clock or of what its term came with, nor outlives the set |
| `SessionInv` | a session has one usable token or one rotation that claimed it, never two; claims are exclusive; flags and families are those of saved tokens |
| `TokenUsedOnce` | no token is exchanged for two, however often it is presented and whatever is deleted meanwhile |
| `SessionsAreFamilies` | every step is a step of `SessionFamily` or stutters: a closed session never opens again and gets no token (refinement) |
| `UsersAreDistinct` | no two users share an e-mail, a username or a phone |
| `RefusedLeavesNoUser` | a registration answered with an error left no row, so that it can be sent again |
| `ActiveHasToken` | an account is active only if a token was mailed for that very row, not for one that was deleted and registered again, or if an admin has activated it |
| `MailIsUnderWay` | a promised e-mail has arrived, has a job that will send it, or a failed job is kept (for a week) |

"At rest" means that no job waits or runs and no request is under way. Until then
a video may well be in between: that is what the jobs are there to end.

In the mapping of `SessionsAreFamilies` a family is *renewing* while a rotation
holds its claim. That is as much as the code gives: a revocation does not reach a
claim that was taken before it, and the session goes on (section 5). Since every
attempt either ends a mail job or uses up one of its attempts or its one stall,
`MailIsUnderWay` means that a promised e-mail comes or fails for good as soon as the
worker runs.

**Fairness** (`VideoPipeline!Fairness`) is two conditions. As long as a request that was
started has not been answered, some request goes on (`Answering`): nothing in Node stops
it. As long as a job waits that a worker has a slot for, or a handler has a step to take
or an end to be settled, the worker or BullMQ does one of these things: its event loop
turns, and a worker with a free slot does not leave a queue alone. Both are weak. Which
of the jobs goes on is left open: each of them runs a bounded number of steps, so none is
passed over for ever. Nobody is obliged to send a request, and neither failures nor
restarts are fair.

## 4. Runs

All of them allow the system to stop (`CHECK_DEADLOCK FALSE`): once the jobs of a
video are done, or all requests answered, nothing needs to happen.

| Run | Instance | Shows |
|---|---|---|
| `Pipeline` | 2 renditions, one upload, one rejection by an admin at any time, one approval once a ladder is over (`ApprovalsComeLate`), any verdict, no failure; 867 thousand states | type correctness; overlapping publishes end with a complete playlist; a rejection at any moment of the first or of the second ladder leaves no segments; `RestInv` |
| `Retries` | 2 renditions, one attempt per job, one transcode at a time (the default of `TRANSCODE_CONCURRENCY`), frames always clean, two failures after the upload was accepted, one of which may be a restart (`FailuresHitTheFlow`); fair; 271 thousand states | `NoUploadIsLost`; `MediaInv` with jobs that fail for good or run again after a restart |
| `Reviews` | one edit with any thumbnail, which meets either the upload and its jobs, or an approval with reprocessing and one rejected await or restart of either process (`EditScenarios`), two attempts; 935 thousand states | `AcceptedUploadsSettle`, `LedgerInv`, and `MediaIsStored`, `ApprovedWasSeen`, `StatusIsRecorded` with stale saves |
| `RenditionUpload` | 3 files, batches of 2, pages of 1, progress in thirds, one other rung, 2 attempts, two failures or restarts; 1.7 million states | the four properties of the files |
| `Feed` | 5 videos, pages of 2, 2 pages, 2 videos published or taken off meanwhile; 502 thousand states | the three properties of the lists, `FeedInv` |
| `ModerationAnalysis` | durations 0 to 9, chunks of 2, at most 3 chunks, all thresholds, any number of failed attempts; 19 thousand states | the three properties of the analysis |
| `Sessions` | one login, three rotations, two requests of any kinds, one rejected await; 1.8 million states up to symmetry | `SessionInv`, `TokenUsedOnce`, `SessionsAreFamilies` |
| `Accounts` | two registrations, two requests of any kinds, four forms that collide in each column or in none, two attempts, two failures, or one beside an admin's update (`FewFailuresWithAdmins`); 2.9 million states up to symmetry | the four properties of accounts |
| `SearchHistory` | two saves at a time, 3 terms of which 2 are kept and 1 is suggested, a lifetime of 2 ticks and a clock of 3; 1.0 million states up to symmetry | the three properties of the history |

Why the bounds are enough to be interesting. Two renditions are the least for
overlapping publishes and for a ladder that fails in part, and one is enough where
neither is in question. In `Retries` a job has one attempt, so that one rejection
makes any job fail for good, and a restart runs it again: the two failures reach an
analyze job that ends after it added the flow, a rung that fails for good before the
flow is added again, both rungs failing, and a finalize job that fails behind a failed
rung. In `Reviews` a job has two attempts, a retry and a last one, which is all the code
distinguishes. A restart or rejection before the upload is accepted only refuses it, and
the analysis of the frames shares nothing with the flow, so `Retries` leaves the first
out and lets the second run last. One edit and one admin give every pair of
writers, since the jobs are writers too. An approval that comes once a ladder is over
still meets the analysis of the frames, a rejection and a second ladder; earlier ones
are left to the theorems, and so are behaviours in which an upload, an edit and an
approval all meet. The constraints in the table are definitions of `VideoPipelineMC`
and `AccountsMC`; another, `AdminsActAfterUpload`, is that of `PublishedIsPlayable`.
Durations go from zero over a multiple of the chunk length to where the limit on chunks
lengthens them. Three rotations are
two that race for one token and a third that continues the session or presents a
token again; two other requests are a revocation against another one, or against a
deletion or an activation. Two registrations race for an e-mail, and two more
requests are a deletion against an activation, a resend against the registration's
own e-mail, two changes of a phone, or an admin against any of them. Three files give a full batch and a smaller
one, and three pages of a deletion with puts before and behind the token; two failures
give a rejected put whose batch drifts into a second attempt that fails as well. Two
pages of two videos leave a third page unread, and two changes can push one video over
the border between them or shrink the page of an answer under way. Three terms for two
places let one push out another, and the clock passes the end of the lifetime. The theorems of
section 6 remove these bounds.
Symmetry is sound: rotations, registrations, saves and other requests are used only by
name, `Init` ranges over all kinds, and no liveness is checked under it.

`PlaylistIsComplete`, `BlockedLeavesNoSegments`, `AcceptedUploadsSettle` and
`BlockedLeavesNoFiles` are about what did not fail: with one failure they do not hold. A
`publish` that fails after the rung became READY, or an analyze attempt repeated after
the flow was added, resets a rendition that is stored; a restart between the upload and
the second look at the status leaves the segments of a video blocked meanwhile; and a
failed `removePublicMedia` is not repeated, because the job that runs again finds a
blocked video and returns. A repeated analyze attempt may also leave the row of a
finished ladder TRANSCODING, with a finalize job that waits for ever for a rung whose
kept job has failed; and the read of the row before the try block of the analyze handler
leaves no trace in the row when it rejects on the last attempt. So `NoUploadIsLost`
speaks of the playlist and of the failed jobs, not of the status of the row.
`AcceptedUploadsSettle` leaves out saved edits, for the reason in section 5, and TLC
finds it violated in `Reviews` without that conjunct. Where a text of the repository
says otherwise the disagreement is a finding (section 5); the rest are recorded as
hazards.

**Mutants.** Each property of a passing run has a mutant in the module it is about
(comments "Mutant of ..."): a dropped second look, a skipped final publish, an
off-by-one in the ladder or in the chunks, a rendition that is READY before its
upload, an error that is swallowed, a decision that is not recorded, a claim that
forgets to look at the token or at the affected rows, a missing unique index, an
activation by e-mail instead of by id, a deduplication id without the user, a batch that
is not awaited, a listing that ends with its first page, progress shown as it is stored,
ZADD without GT, and so on. TLC finds the property violated with the mutant in place of
the definition.

## 5. Findings

Three runs show that the program does not do what the repository says of it.

* `UploadedIsQueued`: the comment on `UPLOADED` says "bytes confirmed in S3,
  queued" (`video-status.type.ts:3`). completeUpload saves the status first and adds
  the job afterwards; if the add fails, the video is UPLOADED, nothing is queued,
  and the client's second try is refused with 409. The run has two completeUpload
  requests, since two that pass the check together lead there as well: the later save
  takes the row back to UPLOADED, and its add is dropped while the first job is kept.
* `PublishedIsPlayable`: the list is "public, completed videos"
  (`video.controller.ts:77`). An approval written between the row update and the
  media removal of a rejection leaves a listed video whose playlist is gone.
* `PasswordChangeEndsSessions`: a password change "Revokes every session on success,
  so the client must log in again" (`user.controller.ts:48`). A rotation that took
  its claim before the revocation saves the next token after it, unrevoked, and the
  session goes on.

More observations have no run.
* An edit that loaded the row while it was TRANSCODING and saves it after the video has
  become READY takes it back: the status is TRANSCODING again and `hlsMasterKey` null,
  with the playlist stored and nothing in flight (`video.service.ts:413`, `:326`). Nothing
  has failed. That is why `AcceptedUploadsSettle` stops where an edit is saved.
* An analyze attempt that is repeated after the flow was added adds it again. If the job
  of a rung has failed for good meanwhile, it is kept under its job id and is not run
  again, and the new finalize job waits for it for ever; the row stays TRANSCODING.
  `NoUploadIsLost` says that a finalize job is left waiting behind such jobs only.
* An AI verdict that was decided before an admin's rejection and is written after it
  lifts the block, while the transcode jobs have returned early: the video is no longer
  blocked, and stays TRANSCODING with nothing in flight.
* With a ladder of two or more rungs the owner may read 100 per cent before `done`:
  99.5 is rounded up (`processing-progress.util.ts:18`).
* An account that an admin has deactivated is activated again by an activation token of
  its owner, which `resendActivation` sends to any account that is not active.
* PATCH is "Save video details and publish" (`video.controller.ts:64`), but a
  completeUpload that loaded the row before that edit was saved puts `isPublic` back
  to false.
* The finalize job fails a video with "No rendition succeeded for" it
  (`video-finalize.processor.ts:41`) also when one did: an analyze attempt that is
  repeated after the flow was added reads the rendition before its transcode job makes
  it READY and sets it to PENDING afterwards (`ensureRendition`).
* The comment on `TRANSCODING` is "ladder in flight" (`video-status.type.ts:5`). When
  the video is blocked before its transcode jobs start, they return early, and so does
  the finalize job; the row stays TRANSCODING with nothing in flight.
* With recommendations on the first page of the feed, the second page keeps the offset
  of the plain list, so that the newest videos the recommended ones pushed out of the
  first page are on neither; `PagesAreContinuous` is about readers without them.
* An edit, or a completeUpload, that loaded the row while the video was blocked and
  saves it after an approval blocks it again; the segments and the playlist that the
  reprocessing made stay, since nothing removes them. `BlockedLeavesNoSegments` is
  therefore checked with approvals but without edits among them.
* A failure may leave files of a blocked video: a put adrift that lands after the
  removal, a removal that rejects and is not repeated, a worker that dies before its
  second look.

## 6. Proofs

All theorems are about `Spec` (no fairness) and hold for every number of
renditions, requests, forms and attempts, every set of verdicts and every bound, under
the named assumptions of `VideoData` (at least one rendition and one attempt, disjoint
sets of requests, none of which is a job or called "none", "frame", "upload" or "video"
where the model gives these names to something else, and verdicts that are moderation
statuses other than pending), of `AuthSessions` and of `Accounts` (disjoint
sets of requests, a null value that is no request or row, at least one attempt), and
of the other modules (sizes, limits and lengths are positive numbers).

1. `TypeCorrect` (`VideoPipelineProofs`): `Spec => []TypeOK`. `TypeOK` is
   inductive; one lemma per handler, one step per await.
2. `LedgerCorrect` (`VideoPipelineProofs`): `Spec => []LedgerInv`. What the row says
   about moderation can be put back by any request that still holds an older entity,
   and a decision is written one await after it was recorded. So the invariant speaks
   of all three: a status is *backed* when the history has an entry of it and, if it
   is "approved", an approval by frames or by an admin; the row, every loaded entity
   and every decision about to be written are backed, and an approval that is still
   to be recorded with source "ai_text" merges into a video already seen. History
   only grows, so what is backed stays backed. `StatusAlwaysRecorded` and
   `ApprovalsAreSeen` follow.
3. `MediaCorrect` (`VideoMediaProofs`): `Spec => []MediaInv`. Objects are only
   removed by an apply that blocks, and by the transcode job that found the video
   blocked; both come after a blocking entry in the history (this needs
   `LedgerInv`). Until then objects only accumulate, so what a handler found stored
   when it reached a step (`StepIsCovered`) is still there when it takes it.
   `MediaAlwaysStored` follows.
4. `SessionsCorrect` (`AuthSessionsProofs`): `Spec => [](TypeOK /\ SessionInv)`
   (`SessionTypes` is its first half).
   Most requests only *narrow*: rows go away, flags are added, nobody gets a claim,
   which leaves every invariant alone; that is one lemma. The claim turns the family's
   bearer from a token into the rotation, because the update is conditional, and the
   save turns it into the new token. `ExchangedOnce` follows, because exclusive claims
   are remembered by the rotations that passed, not by rows, which may be deleted.
5. `SessionsImplementFamilies`: `Spec => SessionsAreFamilies`, from the same
   invariant: a narrowing closes a set of families or stutters, a claim is `Claim`, a
   save is `Open` or `Renew` with a token no family had.
6. `AccountsCorrect`, `RefusalsLeaveNoUser`, `ActiveUsersHadToken` and
   `PromisedMailIsUnderWay` (`AccountsProofs`) share one inductive invariant: before
   its save, a registration has no row; a request that works for a user holds one that
   was saved, and one about to activate holds a user who was mailed (`RequestInv`); a
   job exists only for an answered request and waits only while it has attempts left
   (`JobInv`); every key stands on a user who is *covered*, that is mailed or with a
   job that waits or failed (`CoverInv`), which is why an add dropped as a duplicate
   loses nothing. A step either only moves its request (`MovesKeep`), writes one row
   (`WritesKeep`), adds a job or is an attempt.
7. `AccountTypes` is the type correctness of the same module.
8. `UploadCorrect` (`RenditionUploadProofs`): `Spec => []UploadInv`. Until the video is
   blocked nothing is deleted, so what a handler has uploaded stays; it reaches "ready"
   only through all the files, since a rejected put leads to the catch and the next
   attempt begins with none (`ReadyMeansComplete`). Once it is blocked, without
   failures, either the handler has its second look still before it, or each stored
   file is before the token, or on the page, of a deletion that goes on
   (`RemovalReachesAll`); a put behind the token of the decision is before the second
   look (`RemovalsAreComplete`). `UploadTypes` is proved first, with the bound on the
   attempts, which needs that the handler runs only while its job is active.
9. `AnalysisCorrect` (`ModerationAnalysisProofs`): the loop goes on only from chunks
   that do not block, up to the number planned. `EverythingWasSeen` adds arithmetic:
   the planned chunks reach the end of any duration (`ChunksCover`), which rests on
   `CeilDiv` being the least cover. `WorstChunkDecides` and `QuarantineDecides` need
   what the reduce computes for every number of chunks. That is induction over data,
   which is done here without the library's induction theorems: `SetInduction` derives
   induction *for a set* from the well-founded order of Nat (`WFMin`), with no operator
   as a parameter; `WorstUnfolds` uses it to show that the recursive function exists,
   and `WorstBounds` that its value is an upper bound and one of the decisions.
10. `HistoryCorrect` (`SearchHistoryProofs`): `Spec => []HistoryInv`. What was trimmed
   had MAX_STORED_TERMS members above it, whose latest times are no earlier than their
   scores, so it was not among the latest; what has expired was not searched within the
   lifetime, because no score outlives the set. `HistoryTypes`, with the limit on the
   number of members, and `SuggestionsCorrect` go with it.

11. `BlockedVideosAreRemoved` (`VideoMediaProofs`):
   `Spec /\ [][OnlyAppliesBlock]_vars => []BlockedLeavesNoSegments`. Without a failure,
   every segment of a blocked video is one whose transcode job has still its second look
   or its clean-up before it, or a decider is about to remove them all (`BlockedInv`). An
   apply that blocks the row goes on to the removal, and a handler that is somewhere has
   a job that is active (`ActiveCorrect`, restarts included), so at rest nobody is left
   and neither is a segment. The hypothesis says that the row becomes blocked by an apply
   only, and not by a request that saves an entity it loaded while the video was blocked
   before: then nobody removes anything (section 5). Approvals that send the video
   through the pipeline again, and failures before the state in question, are in the
   theorem; every step of the run `Pipeline` fulfils the hypothesis.
   `RejectedVideosAreRemoved` needs no such hypothesis where nobody edits the video, no
   admin approves it and one request completes the upload:
   `OnlyRejected => (Spec => []BlockedLeavesNoSegments)`. There it is an invariant
   (`SavesInv`) that the entity the request is about to save is never blocked while the
   row is not, and that nothing is queued before the request has saved; an admin goes on
   to reject and never to reprocess. So no step but an apply blocks the row.
12. `PlaylistsAreComplete` (`VideoMediaProofs`):
   `SingleUpload => (Spec => []PlaylistIsComplete)`, for any number of edits and admins
   and any ladder. The invariant `FlowInv` says that a video which was never blocked goes
   through the pipeline once: before its upload is completed (`BeforeUpload`), before the
   flow is added (`BeforeFlow`: renditions are reset, but none is READY yet) and after it
   (`AfterFlow`). In the last phase the job of a rung leaves the flow only when the rung
   is READY (`RungInFlow`), and the finalize job begins only when all have left
   (`FinalizeInFlow`), so that it finds every rung READY, its put lists them all, and
   no other put comes after it, however the puts of the transcode jobs overtook each
   other. Edits must be shown not to put back a READY status before there is a playlist
   (`Unpublished`). `SingleUpload` says that there is one completeUpload request. With
   two the property does not hold: TLC finds the second one, which read the row before
   the first saved it, add the analyze job again after the first had run and left the
   queue, and the second ladder set a rendition to PENDING that became READY between the
   two queries of `ensureRendition`.
13. `FeedCorrect` (`FeedProofs`): `Spec => []FeedInv`, after `FeedTypes`. A page is what
   remains of the sorted catalogue after an offset, and sorting is counted: the rank of a
   video is the number of newer ones (`Rank`), and different videos have different ranks
   (`RanksAreDistinct`). A video that is published raises the ranks of older ones, and
   one that is taken off lowers them; so as long as none comes, what was seen keeps to the
   ranks before the offset, and as long as none goes, whatever had these ranks when the
   reader began was seen (`PagesGoOn`). Of a list that is held between two queries the
   same is true with its own videos added (`ListOK`). `FirstPageAlwaysNewest`,
   `PagesAlwaysFull` and `PagesAlwaysContinuous` follow.
14. `WholeIsTheEnd` (`RenditionUploadProofs`): without a failure the handler never comes
   to its catch, so only the start of an encode takes a rendition from READY, and it
   writes a progress of zero (`WholeIsReady`); so the share of a rung is the whole exactly
   when it is finished. `RoundedToWhole` is the arithmetic of the mean: it is rounded to
   the whole exactly when at most half a per cent per rung is missing.
15. `UploadsSettle` (`VideoMediaProofs`): `SingleUpload => (Spec =>
   []AcceptedUploadsSettle)`, for any ladder and any number of edits and admins, from the
   invariant of `PlaylistsAreComplete`. At rest the flow is over, since a finalize job
   that waits has a rung to wait for, whose job is then not at rest; so the finalize job
   has made the video READY, and only the save of an edit takes it back
   (`ReadyOrEdited`).
16. `FlowIsReleased` (`VideoMediaProofs`): `Spec => [](AtRest => WaitsForTheFailed)`, with
   failures, restarts, any requests and any ladder: a waiting finalize job always has
   somebody to wait for, a rung whose job runs, will run, or was kept because it failed
   (`SomebodyIsWaitedFor`, inductive; each release looks at what is left). It is the
   safety half of `NoUploadIsLost`.

Only model-checked: `NoUploadIsLost`, since liveness under fairness is beyond the prover.
Every invariant that a passing run checks is a theorem; `BlockedLeavesNoSegments`,
`PlaylistIsComplete` and `AcceptedUploadsSettle` under the hypotheses named above.

## 7. Plan

Done: the video pipeline with its ledger and its media; the files of a rendition; the
lists and the feed; the analysis; sessions and their refinement of `SessionFamily`;
accounts with the activation e-mails; the search history.

What is left, in this order:
1. `RenditionUpload` shown to refine the upload and the removal of `VideoPipeline`, in
   which a blocked video can be approved and made again.
2. Delivery of e-mails as liveness, with fairness for the mail worker.
3. A second video, to check that the jobs of one never touch the other, if the state
   space allows it.

## 8. Not modelled

* Wrappers of ffmpeg and ffprobe (`moderation-sampler`, `media-probe`, `thumbnail`):
  they keep no state and give data that no property reads, or reject, which is modelled
  where they are called. How many tiles ffmpeg makes of a storyboard, and whether they
  are as many as `tileCount` says at the border of a sheet, is up to its rounding.
* Genres: a read-only list. The seed inserts at start-up what is missing, and nothing
  else writes there.
* Bootstrap, configuration, the Redis module, observability: wiring without state.
* Migrations: SQL that runs once before the program; the entities give the columns.
* DTOs and validation: what they let through is the range of the inputs.
* `sendPasswordResetEmail`, `createMultipartUpload`, `presignUploadParts`,
  `calcPartSize`: nothing calls them.
