---------------------------- MODULE VideoMediaProofs ----------------------------
(***************************************************************************)
(* The media of a video that was never blocked: what the row and the       *)
(* loaded entities name is stored, and so is what the handlers in flight   *)
(* rely on.  MediaInv is inductive together with LedgerInv, which says     *)
(* that a blocked row was recorded as such before anything was removed.    *)
(* Then what is left of a video when everything has come to rest: no       *)
(* segments if it is blocked, and a complete playlist if it never was; a   *)
(* finalize job that waits only for what has failed; and a READY row.      *)
(***************************************************************************)
EXTENDS VideoPipelineProofs

(* Nothing that somebody may rely on has been taken away. *)
NothingRemoved ==
    /\ s3.segments \subseteq s3'.segments
    /\ s3.master # {} => s3'.master # {}
    /\ s3.storyboard => s3'.storyboard
    /\ s3.frames => s3'.frames
    /\ s3.custom \subseteq s3'.custom
    /\ s3.variants \subseteq s3'.variants

(* A video that is blocked now has a blocking decision in its history. *)
LEMMA BlockedIsRecorded ==
  ASSUME LedgerInv, isBlockedStatus(row.moderationStatus)
  PROVE  ~NeverBlocked
  BY DEF LedgerInv, Backed, Recorded, NeverBlocked, isBlockedStatus

(* Decisions are never taken back. *)
LEMMA HistoryGrows ==
  ASSUME history \subseteq history', NeverBlocked'
  PROVE  NeverBlocked
  BY DEF NeverBlocked

(* Keys stay good as long as nothing is removed. *)
LEMMA KeysKept ==
  ASSUME NothingRemoved, NEW video, KeysAreStored(video)
  PROVE  KeysAreStored(video)'
  BY DEF NothingRemoved, KeysAreStored, ThumbnailExists

(* A new row names no object. *)
LEMMA NewRowKeys == KeysAreStored(NewRow) /\ KeysAreStored(NewRow)'
  BY DEF KeysAreStored, NewRow

(* Nothing is stored and nothing is named at first. *)
LEMMA InitMedia == Init => MediaInv
  <1> SUFFICES ASSUME Init PROVE MediaInv
    OBVIOUS
  <1>1. KeysAreStored(row) /\ \A p \in Savers : KeysAreStored(snap[p])
    BY NewRowKeys DEF Init
  <1>2. /\ \A r \in Rungs : rend[r] # "ready"
        /\ \A j \in PublishJobs : ready[j] = {}
        /\ s3.master = {}
    BY DEF Init, NoObjects
  <1>3. \A p \in Processes : StepIsCovered(p, pc[p])
    BY DEF Init, StepIsCovered
  <1> QED
    BY <1>1, <1>2, <1>3 DEF MediaInv

(* One process moves.  What has to be shown of a step is that it removes     *)
(* nothing, leaves the others' memory alone, saves only keys that are good,  *)
(* marks only renditions READY that are stored, and may rely on what its     *)
(* next step relies on.                                                      *)
LEMMA MediaStep ==
  ASSUME TypeOK, MediaInv, history \subseteq history',
         NEW p, NEW label, Goto(p, label),
         NeverBlocked' =>
           /\ NothingRemoved
           /\ KeysAreStored(row)'
           /\ \A q \in Savers : KeysAreStored(snap[q])'
           /\ \A r \in Rungs : rend'[r] = "ready" => r \in s3'.segments
           /\ \A j \in PublishJobs : ready'[j] \subseteq s3'.segments
           /\ s3'.master \subseteq s3'.segments
           /\ \A q \in PublishJobs \ {p} : ready'[q] = ready[q]
           /\ \A q \in Deciders \ {p} : decision'[q] = decision[q]
           /\ StepIsCovered(p, label)'
  PROVE  MediaInv'
  <1> SUFFICES ASSUME NeverBlocked'
               PROVE  \A q \in Processes : StepIsCovered(q, pc[q])'
    BY DEF MediaInv
  <1>1. NeverBlocked
    BY HistoryGrows
  <1>2. TAKE q \in Processes
  <1>3. CASE q = p
    BY <1>3 DEF TypeOK, Goto
  <1>4. CASE q # p
    <2>1. pc'[q] = pc[q]
      BY <1>4 DEF TypeOK, Goto
    <2>2. StepIsCovered(q, pc[q])
      BY <1>1 DEF MediaInv
    <2>3. /\ q \in PublishJobs => ready'[q] = ready[q]
          /\ q \in Deciders => decision'[q] = decision[q]
      BY <1>4
    <2> QED
      BY <2>1, <2>2, <2>3 DEF StepIsCovered, NothingRemoved
  <1> QED
    BY <1>3, <1>4

(* The steps that rely on nothing. *)
Carefree == Steps \ {"candidates", "ready", "publish_put", "publish_update",
                     "storyboard", "apply_row", "cleanup", "remove_hls",
                     "remove_thumbnails"}

(* A carefree step relies on no object. *)
LEMMA CarefreeIsCovered ==
  ASSUME NEW p, NEW label \in Carefree
  PROVE  StepIsCovered(p, label)'
  BY DEF Carefree, StepIsCovered

(* A step to a carefree one that only saves rows or loads entities. *)
LEMMA QuietMedia ==
  ASSUME TypeOK, MediaInv, UNCHANGED <<rend, history, s3, ready>>,
         NEW p, NEW label \in Carefree, Goto(p, label),
         \A q \in Deciders \ {p} : decision'[q] = decision[q],
         NeverBlocked =>
           KeysAreStored(row') /\ \A q \in Savers : KeysAreStored(snap'[q])
  PROVE  MediaInv'
  <1> SUFFICES ASSUME NeverBlocked'
               PROVE  /\ NothingRemoved
                      /\ KeysAreStored(row)'
                      /\ \A q \in Savers : KeysAreStored(snap[q])'
                      /\ \A r \in Rungs : rend'[r] = "ready" => r \in s3'.segments
                      /\ \A j \in PublishJobs : ready'[j] \subseteq s3'.segments
                      /\ s3'.master \subseteq s3'.segments
                      /\ StepIsCovered(p, label)'
    BY MediaStep
  <1>1. NeverBlocked
    BY HistoryGrows
  <1>2. NothingRemoved
    BY DEF NothingRemoved
  <1>3. KeysAreStored(row)' /\ \A q \in Savers : KeysAreStored(snap[q])'
    BY <1>1 DEF KeysAreStored, ThumbnailExists
  <1> QED
    BY <1>1, <1>2, <1>3, CarefreeIsCovered DEF MediaInv

(* Loading an entity with good keys, or none. *)
LEMMA SnapsStored ==
  ASSUME TypeOK, MediaInv, NeverBlocked, NEW p \in Savers, NEW video,
         KeysAreStored(video),
         snap' = snap \/ snap' = [snap EXCEPT ![p] = video]
  PROVE  \A q \in Savers : KeysAreStored(snap'[q])
  BY DEF TypeOK, MediaInv

(* completeUpload saves an entity that names only stored objects. *)
LEMMA CompleteMedia ==
  ASSUME TypeOK, MediaInv, NEW c \in Completes, completeUpload(c)
  PROVE  MediaInv'
  <1>1. c \in Savers  BY JobKinds
  <1>2. UNCHANGED <<rend, history, s3, ready, decision>>
    BY DEF completeUpload, CompleteRead, CompleteHead, CompleteSave, CompleteAdd, db, locals
  <1>3. PICK label \in {"head", "save", "add", "done", "refused"} : Goto(c, label)
    BY DEF completeUpload, CompleteRead, CompleteHead, CompleteSave, CompleteAdd, Ends
  <1>4. label \in Carefree
    BY <1>3 DEF Carefree, Steps
  <1>5. ASSUME NeverBlocked PROVE \A q \in Savers : KeysAreStored(snap'[q])
    <2>1. PICK video \in {row, NewRow} : snap' = snap \/ snap' = [snap EXCEPT ![c] = video]
      BY DEF completeUpload, CompleteRead, CompleteHead, CompleteSave, CompleteAdd, Ends,
         locals
    <2>2. KeysAreStored(video)
      BY <1>5, <2>1, NewRowKeys DEF MediaInv
    <2> QED
      BY <1>1, <1>5, <2>1, <2>2, SnapsStored
  <1>6. ASSUME NeverBlocked PROVE KeysAreStored(row')
    <2>1. CASE CompleteSave(c)
      <3>1. row' = [snap[c] EXCEPT !.status = "uploaded"]
        BY <2>1 DEF CompleteSave
      <3>2. KeysAreStored(snap[c]) /\ snap[c] \in VideoRow
        BY <1>1, <1>6 DEF MediaInv, TypeOK
      <3> QED
        BY <3>1, <3>2 DEF KeysAreStored, VideoRow
    <2>2. CASE row' = row
      BY <1>6, <2>2 DEF MediaInv
    <2> QED
      BY <2>1, <2>2 DEF completeUpload, CompleteRead, CompleteHead, CompleteAdd, db
  <1> QED
    BY <1>2, <1>3, <1>4, <1>5, <1>6, QuietMedia

(* An edit names only a thumbnail it found stored, and variants it stored. *)
LEMMA EditMedia ==
  ASSUME TypeOK, MediaInv, NEW e \in Edits, updateDetails(e)
  PROVE  MediaInv'
  <1>1. e \in Savers /\ snap[e] \in VideoRow
    BY JobKinds DEF TypeOK
  <1>2. CASE EditRead(e)
    <2>1. PICK label \in {"custom", "variants", "refused"} : Goto(e, label)
      BY <1>2 DEF EditRead, Ends
    <2>2. UNCHANGED <<row, rend, history, s3, ready, decision>>
      BY <1>2 DEF EditRead, db
    <2>3. ASSUME NeverBlocked PROVE \A q \in Savers : KeysAreStored(snap'[q])
      <3>1. PICK video :
              /\ snap' = [snap EXCEPT ![e] = video]
              /\ \/ video \in {row, NewRow}
                 \/ video = [row EXCEPT !.thumbnailKey = "frame"] /\ row.candidates
        BY <1>2 DEF EditRead, Ends
      <3>2. KeysAreStored(row) /\ row \in VideoRow
        BY <2>3 DEF MediaInv, TypeOK
      <3>3. CASE video = [row EXCEPT !.thumbnailKey = "frame"] /\ row.candidates
        <4>1. KeysAreStored(video)
          BY <3>2, <3>3 DEF KeysAreStored, ThumbnailExists, VideoRow
        <4> QED
          BY <1>1, <2>3, <3>1, <4>1, SnapsStored
      <3>4. CASE video \in {row, NewRow}
        <4>1. KeysAreStored(video)
          BY <3>2, <3>4, NewRowKeys
        <4> QED
          BY <1>1, <2>3, <3>1, <4>1, SnapsStored
      <3> QED
        BY <3>1, <3>3, <3>4
    <2>4. label \in Carefree
      BY <2>1 DEF Carefree, Steps
    <2> QED
      BY <2>1, <2>2, <2>3, <2>4, QuietMedia DEF MediaInv
  <1>3. CASE EditCustom(e)
    <2>1. PICK label \in {"variants", "refused"} : Goto(e, label)
      BY <1>3 DEF EditCustom, Ends
    <2>2. label \in Carefree
      BY <2>1 DEF Carefree, Steps
    <2>3. UNCHANGED <<row, rend, history, ready, decision>>
      BY <1>3 DEF EditCustom, db
    <2>4. \/ /\ s3' = [s3 EXCEPT !.custom = @ \cup {e}]
             /\ snap' = [snap EXCEPT ![e].thumbnailKey = e]
          \/ s3' = s3 /\ snap' = [snap EXCEPT ![e] = NewRow]
      BY <1>3 DEF EditCustom, Ends
    <2>5. NothingRemoved /\ s3'.master = s3.master /\ s3'.segments = s3.segments
      BY <2>4 DEF NothingRemoved, TypeOK, Objects
    <2>6. ASSUME NeverBlocked, NEW q \in Savers PROVE KeysAreStored(snap[q])'
      <3>1. KeysAreStored(snap[q]) /\ snap[q] \in VideoRow
        BY <2>6 DEF MediaInv, TypeOK
      <3>2. CASE snap'[q] = snap[q]
        BY <2>5, <3>1, <3>2 DEF KeysAreStored, NothingRemoved, ThumbnailExists
      <3>3. CASE snap'[q] = NewRow
        BY <3>3 DEF KeysAreStored, NewRow
      <3>4. CASE /\ q = e /\ s3' = [s3 EXCEPT !.custom = @ \cup {e}]
                 /\ snap'[q] = [snap[q] EXCEPT !.thumbnailKey = e]
        <4>1. e \in s3'.custom
          BY <3>4 DEF TypeOK, Objects
        <4>2. /\ snap'[q].hlsMasterKey = snap[q].hlsMasterKey
              /\ snap'[q].storyboard = snap[q].storyboard
              /\ snap'[q].variantsKey = snap[q].variantsKey
              /\ snap'[q].candidates = snap[q].candidates
              /\ snap'[q].thumbnailKey = e
          BY <3>1, <3>4 DEF VideoRow
        <4> QED
          BY <2>5, <3>1, <4>1, <4>2 DEF KeysAreStored, NothingRemoved, ThumbnailExists
      <3> QED
        BY <1>1, <2>4, <3>2, <3>3, <3>4 DEF TypeOK
    <2>7. ASSUME NeverBlocked PROVE KeysAreStored(row)'
      BY <2>3, <2>5, <2>7 DEF MediaInv, KeysAreStored, NothingRemoved, ThumbnailExists
    <2> QED
      BY <2>1, <2>2, <2>3, <2>5, <2>6, <2>7, MediaStep, CarefreeIsCovered, HistoryGrows
         DEF MediaInv
  <1>4. CASE EditVariants(e)
    <2>1. PICK label \in {"save", "save_variants", "refused"} : Goto(e, label)
      BY <1>4 DEF EditVariants, Ends
    <2>2. label \in Carefree
      BY <2>1 DEF Carefree, Steps
    <2>3. UNCHANGED <<row, rend, history, ready, decision>>
      BY <1>4 DEF EditVariants, db
    <2>4. \/ /\ s3' = [s3 EXCEPT !.variants = @ \cup {e}]
             /\ snap' = [snap EXCEPT ![e].variantsKey = e]
          \/ s3' = s3 /\ (snap' = snap \/ snap' = [snap EXCEPT ![e] = NewRow])
      BY <1>4 DEF EditVariants, Ends, PutVariants
    <2>5. NothingRemoved /\ s3'.master = s3.master /\ s3'.segments = s3.segments
      BY <2>4 DEF NothingRemoved, TypeOK, Objects
    <2>6. ASSUME NeverBlocked, NEW q \in Savers PROVE KeysAreStored(snap[q])'
      <3>1. KeysAreStored(snap[q]) /\ snap[q] \in VideoRow
        BY <2>6 DEF MediaInv, TypeOK
      <3>2. CASE snap'[q] = snap[q]
        BY <2>5, <3>1, <3>2 DEF KeysAreStored, NothingRemoved, ThumbnailExists
      <3>3. CASE snap'[q] = NewRow
        BY <3>3 DEF KeysAreStored, NewRow
      <3>4. CASE /\ q = e /\ s3' = [s3 EXCEPT !.variants = @ \cup {e}]
                 /\ snap'[q] = [snap[q] EXCEPT !.variantsKey = e]
        <4>1. e \in s3'.variants
          BY <3>4 DEF TypeOK, Objects
        <4>2. /\ snap'[q].hlsMasterKey = snap[q].hlsMasterKey
              /\ snap'[q].storyboard = snap[q].storyboard
              /\ snap'[q].thumbnailKey = snap[q].thumbnailKey
              /\ snap'[q].candidates = snap[q].candidates
              /\ snap'[q].variantsKey = e
          BY <3>1, <3>4 DEF VideoRow
        <4> QED
          BY <2>5, <3>1, <4>1, <4>2 DEF KeysAreStored, NothingRemoved, ThumbnailExists
      <3> QED
        BY <1>1, <2>4, <3>2, <3>3, <3>4 DEF TypeOK
    <2>7. ASSUME NeverBlocked PROVE KeysAreStored(row)'
      BY <2>3, <2>5, <2>7 DEF MediaInv, KeysAreStored, NothingRemoved, ThumbnailExists
    <2> QED
      BY <2>1, <2>2, <2>3, <2>5, <2>6, <2>7, MediaStep, CarefreeIsCovered, HistoryGrows
         DEF MediaInv
  <1>5. CASE EditSaveVariants(e) \/ EditSave(e)
    <2>1. PICK label \in {"save", "add"} : Goto(e, label)
      BY <1>5 DEF EditSaveVariants, EditSave
    <2>2. label \in Carefree
      BY <2>1 DEF Carefree, Steps
    <2>3. UNCHANGED <<rend, history, s3, snap, ready, decision>>
      BY <1>5 DEF EditSaveVariants, EditSave, locals
    <2>4. row' = snap[e] \/ row' = [snap[e] EXCEPT !.isPublic = TRUE]
      BY <1>5 DEF EditSaveVariants, EditSave
    <2>5. ASSUME NeverBlocked PROVE KeysAreStored(row')
      <3>1. KeysAreStored(snap[e])
        BY <1>1, <2>5 DEF MediaInv
      <3> QED
        BY <1>1, <2>4, <3>1 DEF KeysAreStored, VideoRow
    <2> QED
      BY <2>1, <2>2, <2>3, <2>5, QuietMedia DEF MediaInv
  <1>6. CASE EditAdd(e)
    <2>1. Goto(e, "done") /\ snap' = [snap EXCEPT ![e] = NewRow]
      BY <1>6 DEF EditAdd, Ends
    <2>2. UNCHANGED <<row, rend, history, s3, ready, decision>>
      BY <1>6 DEF EditAdd, db
    <2>3. "done" \in Carefree
      BY DEF Carefree, Steps
    <2> QED
      BY <1>1, <2>1, <2>2, <2>3, SnapsStored, NewRowKeys, QuietMedia DEF MediaInv
  <1> QED
    BY <1>2, <1>3, <1>4, <1>5, <1>6 DEF updateDetails

-----------------------------------------------------------------------------
(* Decisions. *)

(* Objects only come, and the row and the entities stay. *)
LEMMA PutMedia ==
  ASSUME TypeOK, MediaInv, UNCHANGED <<row, rend, history, snap, ready, decision>>,
         NEW p, NEW label, Goto(p, label),
         NeverBlocked => /\ NothingRemoved
                         /\ s3'.master \subseteq s3'.segments
                         /\ StepIsCovered(p, label)'
  PROVE  MediaInv'
  <1> SUFFICES ASSUME NeverBlocked'
               PROVE  /\ NothingRemoved
                      /\ KeysAreStored(row)'
                      /\ \A q \in Savers : KeysAreStored(snap[q])'
                      /\ \A r \in Rungs : rend'[r] = "ready" => r \in s3'.segments
                      /\ \A j \in PublishJobs : ready'[j] \subseteq s3'.segments
                      /\ s3'.master \subseteq s3'.segments
                      /\ StepIsCovered(p, label)'
    BY MediaStep
  <1>1. NeverBlocked
    BY HistoryGrows
  <1>2. KeysAreStored(row)' /\ \A q \in Savers : KeysAreStored(snap[q])'
    BY <1>1 DEF MediaInv, KeysAreStored, NothingRemoved, ThumbnailExists
  <1>3. /\ \A r \in Rungs : rend'[r] = "ready" => r \in s3'.segments
        /\ \A j \in PublishJobs : ready'[j] \subseteq s3'.segments
    BY <1>1 DEF MediaInv, NothingRemoved
  <1> QED
    BY <1>1, <1>2, <1>3

(* Media is removed only after the blocking decision was recorded. *)
LEMMA ApplyMedia ==
  ASSUME TypeOK, MediaInv, NEW p \in Deciders, NEW next \in Carefree, apply(p, next)
  PROVE  MediaInv'
  <1>1. p \in Processes
    BY DEF Deciders, Processes, ModerateJobs, Jobs, Requests
  <1>2. CASE ApplyHistory(p)
    <2>1. Goto(p, "apply_row") /\ UNCHANGED <<row, rend, s3, snap, ready, decision>>
      BY <1>2 DEF ApplyHistory, locals
    <2>2. /\ history \subseteq history'
          /\ <<decision[p].source, decision[p].status>> \in history'
      BY <1>2 DEF ApplyHistory, Entries
    <2> SUFFICES ASSUME NeverBlocked'
                 PROVE  /\ NothingRemoved
                        /\ KeysAreStored(row)'
                        /\ \A q \in Savers : KeysAreStored(snap[q])'
                        /\ \A r \in Rungs : rend'[r] = "ready" => r \in s3'.segments
                        /\ \A j \in PublishJobs : ready'[j] \subseteq s3'.segments
                        /\ s3'.master \subseteq s3'.segments
                        /\ StepIsCovered(p, "apply_row")'
      BY <2>1, <2>2, MediaStep
    <2>3. NeverBlocked
      BY <2>2, HistoryGrows
    <2>4. NothingRemoved
      BY <2>1 DEF NothingRemoved
    <2>5. ~isBlockedStatus(decision[p].status)
      BY <2>2 DEF NeverBlocked
    <2>6. StepIsCovered(p, "apply_row")'
      BY <2>1, <2>5 DEF StepIsCovered, isBlockedStatus
    <2>7. KeysAreStored(row)' /\ \A q \in Savers : KeysAreStored(snap[q])'
      BY <2>1, <2>3 DEF MediaInv, KeysAreStored, ThumbnailExists
    <2> QED
      BY <2>1, <2>3, <2>4, <2>6, <2>7 DEF MediaInv
  <1>3. CASE ApplyRow(p, next)
    <2>1. UNCHANGED <<rend, history, s3, snap, ready, decision>>
      BY <1>3 DEF ApplyRow, locals
    <2>2. CASE NeverBlocked
      <3>1. ~isBlockedStatus(decision[p].status)
        BY <1>1, <1>3, <2>2 DEF MediaInv, StepIsCovered, ApplyRow
      <3>2. Goto(p, next)
        BY <1>3, <3>1 DEF ApplyRow
      <3>3. row' = [row EXCEPT !.moderationStatus = decision[p].status]
        BY <1>3 DEF ApplyRow
      <3>4. KeysAreStored(row')
        BY <2>2, <3>3 DEF MediaInv, KeysAreStored, TypeOK, VideoRow
      <3> QED
        BY <2>1, <3>2, <3>4, QuietMedia DEF MediaInv
    <2>3. CASE ~NeverBlocked
      BY <2>1, <2>3 DEF MediaInv, NeverBlocked
    <2> QED
      BY <2>2, <2>3
  <1>4. CASE RemoveHls(p) \/ RemoveThumbnails(p, next)
    <2>1. ~NeverBlocked
      BY <1>1, <1>4 DEF MediaInv, StepIsCovered, RemoveHls, RemoveThumbnails
    <2>2. history' = history
      BY <1>4 DEF RemoveHls, RemoveThumbnails, db
    <2> QED
      BY <2>1, <2>2 DEF MediaInv, NeverBlocked
  <1> QED
    BY <1>2, <1>3, <1>4 DEF apply

(* approve and reject touch objects only through an apply that blocks. *)
LEMMA AdminMedia ==
  ASSUME TypeOK, MediaInv, NEW p \in Admins, admin(p)
  PROVE  MediaInv'
  <1>1. p \in Deciders /\ row \in VideoRow
    BY JobKinds DEF TypeOK
  <1>2. {"apply", "reprocess", "reprocess_row", "reprocess_add", "done"} \subseteq Carefree
    BY DEF Carefree, Steps
  <1>3. CASE AdminFind(p)
    <2>1. Goto(p, "apply") /\ UNCHANGED <<row, rend, history, s3, snap, ready>>
      BY <1>3 DEF AdminFind, db
    <2>2. \A q \in Deciders \ {p} : decision'[q] = decision[q]
      BY <1>3 DEF AdminFind, TypeOK
    <2> QED
      BY <1>2, <2>1, <2>2, QuietMedia DEF MediaInv
  <1>4. CASE apply(p, AfterApply(p))
    <2>1. AfterApply(p) \in Carefree
      BY <1>2 DEF AfterApply
    <2> QED
      BY <1>1, <1>4, <2>1, ApplyMedia
  <1>5. CASE ReprocessRenditions(p)
    <2>1. Goto(p, "reprocess_row") /\ UNCHANGED <<row, history, s3, snap, ready, decision>>
      BY <1>5 DEF ReprocessRenditions, locals
    <2>2. \A r \in Rungs : rend'[r] # "ready"
      BY <1>5 DEF ReprocessRenditions
    <2>3. NothingRemoved
      BY <2>1 DEF NothingRemoved
    <2>4. NeverBlocked => KeysAreStored(row)' /\ \A q \in Savers : KeysAreStored(snap[q])'
      BY <2>1 DEF MediaInv, KeysAreStored, ThumbnailExists
    <2>5. StepIsCovered(p, "reprocess_row")'
      BY <1>2, CarefreeIsCovered
    <2> QED
      BY <2>1, <2>2, <2>3, <2>4, <2>5, HistoryGrows, MediaStep DEF MediaInv
  <1>6. CASE ReprocessRow(p)
    <2>1. Goto(p, "reprocess_add") /\ UNCHANGED <<rend, history, s3, snap, ready, decision>>
      BY <1>6 DEF ReprocessRow, locals
    <2>2. /\ ~row'.hlsMasterKey /\ ~row'.storyboard
          /\ row'.thumbnailKey = "none" /\ row'.variantsKey = "none"
          /\ row'.candidates = row.candidates
      BY <1>1, <1>6 DEF ReprocessRow, VideoRow
    <2>3. NeverBlocked => KeysAreStored(row')
      BY <2>2 DEF MediaInv, KeysAreStored
    <2> QED
      BY <1>2, <2>1, <2>3, QuietMedia DEF MediaInv
  <1>7. CASE ReprocessAdd(p)
    BY <1>2, <1>7, QuietMedia DEF ReprocessAdd, db, locals, MediaInv
  <1> QED
    BY <1>3, <1>4, <1>5, <1>6, <1>7 DEF admin

(* The moderation jobs touch objects only through an apply that blocks. *)
LEMMA ModerateMedia ==
  ASSUME TypeOK, MediaInv, NEW j \in ModerateJobs, moderate(j)
  PROVE  MediaInv'
  <1>1. j \in Deciders
    BY JobKinds
  <1>2. {"return", "finish", "apply"} \subseteq Carefree
    BY DEF Carefree, Steps
  <1>3. CASE ModerateFindVideo(j)
    <2>1. PICK label \in {"return", "finish"} : Goto(j, label)
      BY <1>3 DEF ModerateFindVideo
    <2>2. UNCHANGED <<row, rend, history, s3, snap, ready, decision>>
      BY <1>3 DEF ModerateFindVideo, db, locals
    <2> QED
      BY <1>2, <2>1, <2>2, QuietMedia DEF MediaInv
  <1>4. CASE ModerateFinish(j)
    <2>1. PICK verdict : FinishWith(j, verdict)
      BY <1>4 DEF ModerateFinish
    <2>2. Goto(j, "apply") /\ UNCHANGED <<row, rend, history, s3, snap, ready>>
      BY <2>1 DEF FinishWith, db
    <2>3. \A q \in Deciders \ {j} : decision'[q] = decision[q]
      BY <2>1 DEF FinishWith, TypeOK
    <2>4. NeverBlocked => KeysAreStored(row') /\ \A q \in Savers : KeysAreStored(snap'[q])
      BY <2>2 DEF MediaInv
    <2>5. "apply" \in Carefree
      BY <1>2
    <2> QED
      BY <2>2, <2>3, <2>4, <2>5, QuietMedia
  <1>5. CASE apply(j, "return")
    BY <1>1, <1>2, <1>5, ApplyMedia
  <1> QED
    BY <1>3, <1>4, <1>5 DEF moderate

-----------------------------------------------------------------------------
(* The worker. *)

(* The analyze job names the frames only after it has put them. *)
LEMMA AnalyzeMedia ==
  ASSUME TypeOK, MediaInv, NEW j \in AnalyzeJobs, analyze(j)
  PROVE  MediaInv'
  <1>1. j \in Processes /\ row \in VideoRow
    BY DEF Processes, Jobs, TypeOK
  <1>2. {"return", "throw", "frames", "find_rendition", "save_rendition", "transcoding",
         "flow", "moderation"} \subseteq Carefree
    BY DEF Carefree, Steps
  <1>3. ASSUME NEW changed, NEW next \in Carefree, UpdateRow(j, changed, next),
               changed.hlsMasterKey = row.hlsMasterKey,
               changed.storyboard = row.storyboard,
               changed.thumbnailKey = row.thumbnailKey,
               changed.variantsKey = row.variantsKey,
               changed.candidates = row.candidates
        PROVE  MediaInv'
    <2>1. Goto(j, next) /\ row' = changed
      BY <1>3 DEF UpdateRow
    <2>2. UNCHANGED <<rend, history, s3, snap, ready, decision>>
      BY <1>3 DEF UpdateRow, locals
    <2>3. NeverBlocked => KeysAreStored(row')
      BY <1>3, <2>1 DEF MediaInv, KeysAreStored
    <2> QED
      BY <2>1, <2>2, <2>3, QuietMedia DEF MediaInv
  <1>4. CASE AnalyzeStart(j)
    BY <1>1, <1>2, <1>3, <1>4 DEF AnalyzeStart, VideoRow
  <1>5. CASE AnalyzeFrames(j)
    <2>1. Goto(j, "candidates") /\ UNCHANGED <<row, rend, history, snap, ready, decision>>
      BY <1>5 DEF AnalyzeFrames, db, locals
    <2>2. s3' = [s3 EXCEPT !.frames = TRUE]
      BY <1>5 DEF AnalyzeFrames
    <2>3. NothingRemoved /\ s3'.frames /\ s3'.master = s3.master /\ s3'.segments = s3.segments
      BY <2>2 DEF NothingRemoved, TypeOK, Objects
    <2>4. StepIsCovered(j, "candidates")'
      BY <2>3 DEF StepIsCovered
    <2> QED
      BY <2>1, <2>3, <2>4, PutMedia DEF MediaInv
  <1>6. CASE AnalyzeCandidates(j)
    <2>1. NeverBlocked => s3.frames
      BY <1>1, <1>6 DEF MediaInv, StepIsCovered, AnalyzeCandidates
    <2>2. /\ Goto(j, "find_rendition")
          /\ row' = [row EXCEPT !.candidates = TRUE,
                                !.thumbnailKey = IF @ = "none" THEN "frame" ELSE @]
      BY <1>6 DEF AnalyzeCandidates, UpdateRow
    <2>3. UNCHANGED <<rend, history, s3, snap, ready, decision>>
      BY <1>6 DEF AnalyzeCandidates, UpdateRow, locals
    <2>4. /\ row'.hlsMasterKey = row.hlsMasterKey
          /\ row'.storyboard = row.storyboard
          /\ row'.variantsKey = row.variantsKey
          /\ row'.thumbnailKey \in {"frame", row.thumbnailKey}
      BY <1>1, <2>2 DEF VideoRow
    <2>5. row'.thumbnailKey = "none" => row.thumbnailKey = "none"
      BY <1>1, <2>2 DEF VideoRow
    <2>6. NeverBlocked => KeysAreStored(row')
      <3>1. SUFFICES ASSUME NeverBlocked PROVE KeysAreStored(row')
        OBVIOUS
      <3>2. KeysAreStored(row) /\ s3.frames
        BY <2>1, <3>1 DEF MediaInv
      <3>3. row'.thumbnailKey # "none" => ThumbnailExists(row'.thumbnailKey)
        <4>1. CASE row'.thumbnailKey = "frame"
          BY <3>2, <4>1 DEF ThumbnailExists
        <4>2. CASE row'.thumbnailKey = row.thumbnailKey
          BY <3>2, <4>2 DEF KeysAreStored, ThumbnailExists
        <4> QED
          BY <2>4, <4>1, <4>2
      <3> QED
        BY <2>4, <3>2, <3>3 DEF KeysAreStored
    <2> QED
      BY <1>2, <2>2, <2>3, <2>6, QuietMedia DEF MediaInv
  <1>7. CASE AnalyzeFindRendition(j)
    BY <1>2, <1>7, QuietMedia DEF AnalyzeFindRendition, db, MediaInv
  <1>8. CASE AnalyzeSaveRendition(j)
    <2>1. PICK label \in {"find_rendition", "transcoding"} : Goto(j, label)
      BY <1>8 DEF AnalyzeSaveRendition
    <2>2. UNCHANGED <<row, history, s3, snap, ready, decision>>
      BY <1>8 DEF AnalyzeSaveRendition
    <2>3. \A r \in Rungs : rend'[r] = "ready" => rend[r] = "ready"
      BY <1>8 DEF AnalyzeSaveRendition, Ensured, TypeOK
    <2>4. NothingRemoved
      BY <2>2 DEF NothingRemoved
    <2>5. NeverBlocked => KeysAreStored(row)' /\ \A q \in Savers : KeysAreStored(snap[q])'
      BY <2>2 DEF MediaInv, KeysAreStored, ThumbnailExists
    <2>6. StepIsCovered(j, label)'
      BY <1>2, <2>1, CarefreeIsCovered
    <2> QED
      BY <2>1, <2>2, <2>3, <2>4, <2>5, <2>6, HistoryGrows, MediaStep DEF MediaInv
  <1>9. CASE AnalyzeTranscoding(j)
    BY <1>1, <1>2, <1>3, <1>9 DEF AnalyzeTranscoding, VideoRow
  <1>10. CASE AnalyzeFlow(j) \/ AnalyzeModeration(j)
    <2>1. PICK label \in {"return", "moderation"} : Goto(j, label)
      BY <1>10 DEF AnalyzeFlow, AnalyzeModeration
    <2>2. UNCHANGED <<row, rend, history, s3, snap, ready, decision>>
      BY <1>10 DEF AnalyzeFlow, AnalyzeModeration, db, locals
    <2> QED
      BY <1>2, <2>1, <2>2, QuietMedia DEF MediaInv
  <1>11. CASE AnalyzeCatch(j)
    <2>1. CASE LastAttempt(j)
      BY <1>1, <1>2, <1>3, <1>11, <2>1 DEF AnalyzeCatch, VideoRow
    <2>2. CASE ~LastAttempt(j)
      BY <1>2, <1>3, <1>11, <2>2 DEF AnalyzeCatch
    <2> QED
      BY <2>1, <2>2
  <1>12. CASE AnalyzeNoSource(j)
    <2>1. "catch" \in Carefree
      BY DEF Carefree, Steps
    <2>2. Goto(j, "catch") /\ UNCHANGED <<row, rend, history, s3, snap, ready, decision>>
      BY <1>12 DEF AnalyzeNoSource, db, locals
    <2> QED
      BY <2>1, <2>2, QuietMedia DEF MediaInv
  <1> QED
    BY <1>4, <1>5, <1>6, <1>7, <1>8, <1>9, <1>10, <1>11, <1>12 DEF analyze

(* A publish lists only what it found READY, and that is stored. *)
LEMMA PublishMedia ==
  ASSUME TypeOK, MediaInv, NEW j \in PublishJobs, NEW whenNone \in Carefree,
         NEW next \in Carefree, publish(j, whenNone, next)
  PROVE  MediaInv'
  <1>1. j \in Processes /\ row \in VideoRow
    BY DEF Processes, Jobs, TypeOK
  <1>2. CASE PublishFind(j, whenNone)
    <2> DEFINE found == {r \in Rungs : Publishable(rend[r])}
    <2>1. ready' = [ready EXCEPT ![j] = found]
      BY <1>2 DEF PublishFind
    <2>2. UNCHANGED <<row, rend, history, s3, snap, decision>>
      BY <1>2 DEF PublishFind, db
    <2>3. PICK label \in {whenNone, "publish_put"} :
            Goto(j, label) /\ (label = "publish_put" => found # {} \/ label = whenNone)
      BY <1>2 DEF PublishFind
    <2>4. StepIsCovered(j, label)'
      <3>1. CASE label = whenNone
        BY <3>1, CarefreeIsCovered
      <3>2. CASE label = "publish_put" /\ found # {}
        BY <2>1, <3>2 DEF StepIsCovered, TypeOK
      <3> QED
        BY <2>3, <3>1, <3>2
    <2>5. NothingRemoved
      BY <2>2 DEF NothingRemoved
    <2>6. NeverBlocked => KeysAreStored(row)' /\ \A q \in Savers : KeysAreStored(snap[q])'
      BY <2>2 DEF MediaInv, KeysAreStored, ThumbnailExists
    <2>7. NeverBlocked => found \subseteq s3.segments
      BY DEF MediaInv, Publishable
    <2>8. NeverBlocked => \A q \in PublishJobs : ready'[q] \subseteq s3'.segments
      BY <2>1, <2>2, <2>7 DEF MediaInv, TypeOK
    <2>9. \A q \in PublishJobs \ {j} : ready'[q] = ready[q]
      BY <2>1 DEF TypeOK
    <2> QED
      BY <2>2, <2>3, <2>4, <2>5, <2>6, <2>8, <2>9, HistoryGrows, MediaStep DEF MediaInv
  <1>3. CASE PublishPut(j)
    <2>1. Goto(j, "publish_update") /\ UNCHANGED <<row, rend, history, snap, ready, decision>>
      BY <1>3 DEF PublishPut, db, locals
    <2>2. NeverBlocked => ready[j] # {} /\ ready[j] \subseteq s3.segments
      BY <1>1, <1>3 DEF MediaInv, StepIsCovered, PublishPut
    <2>3. s3' = [s3 EXCEPT !.master = ready[j]]
      BY <1>3 DEF PublishPut
    <2>4. s3'.master = ready[j] /\ s3'.segments = s3.segments
      BY <2>3 DEF TypeOK, Objects
    <2>5. NeverBlocked => NothingRemoved
      BY <2>2, <2>3, <2>4 DEF NothingRemoved, TypeOK, Objects
    <2>6. NeverBlocked => StepIsCovered(j, "publish_update")'
      BY <2>2, <2>4 DEF StepIsCovered
    <2> QED
      BY <2>1, <2>2, <2>4, <2>5, <2>6, PutMedia
  <1>4. CASE PublishUpdate(j, next)
    <2>1. Goto(j, next) /\ row' = Playable(row)
      BY <1>4 DEF PublishUpdate
    <2>2. UNCHANGED <<rend, history, s3, snap, ready, decision>>
      BY <1>4 DEF PublishUpdate, locals
    <2>3. NeverBlocked => s3.master # {}
      BY <1>1, <1>4 DEF MediaInv, StepIsCovered, PublishUpdate
    <2>4. NeverBlocked => KeysAreStored(row')
      BY <1>1, <2>1, <2>3 DEF MediaInv, KeysAreStored, Playable, VideoRow
    <2> QED
      BY <2>1, <2>2, <2>4, QuietMedia DEF MediaInv
  <1> QED
    BY <1>2, <1>3, <1>4 DEF publish

(* A transcode job marks its rendition READY after it stored the segments,  *)
(* and removes them only when the video was blocked.                        *)
LEMMA TranscodeMedia ==
  ASSUME TypeOK, LedgerInv, MediaInv, NEW r \in Rungs, transcode(r)
  PROVE  MediaInv'
  <1> DEFINE j == Transcode(r)
  <1>1. j \in PublishJobs /\ j \in Processes
    BY JobKinds DEF Processes, Jobs
  <1>2. RungOf(j) = {r}
    BY DEF RungOf, Transcode
  <1>3. {"return", "rendition", "fatal", "encoding", "publish", "upload", "recheck", "throw"}
          \subseteq Carefree
    BY DEF Carefree, Steps
  <1>4. CASE publish(j, "return", "return")
    BY <1>1, <1>3, <1>4, PublishMedia
  <1>5. CASE TranscodeFindVideo(r) \/ TranscodeFindRendition(r)
    <2>1. PICK label \in {"return", "rendition", "fatal", "encoding"} : Goto(j, label)
      BY <1>5 DEF TranscodeFindVideo, TranscodeFindRendition
    <2>2. UNCHANGED <<row, rend, history, s3, snap, ready, decision>>
      BY <1>5 DEF TranscodeFindVideo, TranscodeFindRendition, db, locals
    <2> QED
      BY <1>3, <2>1, <2>2, QuietMedia DEF MediaInv
  <1>6. CASE TranscodeUpload(r)
    <2>1. Goto(j, "ready") /\ UNCHANGED <<row, rend, history, snap, ready, decision>>
      BY <1>6 DEF TranscodeUpload, db, locals
    <2>2. s3' = [s3 EXCEPT !.segments = @ \cup {r}]
      BY <1>6 DEF TranscodeUpload
    <2>3. /\ NothingRemoved /\ s3'.master = s3.master
          /\ r \in s3'.segments /\ s3.segments \subseteq s3'.segments
      BY <2>2 DEF NothingRemoved, TypeOK, Objects
    <2>4. StepIsCovered(j, "ready")'
      BY <1>2, <2>3 DEF StepIsCovered
    <2> QED
      BY <2>1, <2>3, <2>4, PutMedia DEF MediaInv
  <1>7. CASE TranscodeEncoding(r) \/ TranscodeReady(r) \/ TranscodeCatch(r)
    <2>1. PICK label \in {"upload", "recheck", "throw"} : Goto(j, label)
      BY <1>7 DEF TranscodeEncoding, TranscodeReady, TranscodeCatch
    <2>2. UNCHANGED <<row, history, s3, snap, ready, decision>>
      BY <1>7 DEF TranscodeEncoding, TranscodeReady, TranscodeCatch, locals
    <2>3. NeverBlocked /\ rend'[r] = "ready" => r \in s3.segments
      BY <1>1, <1>2, <1>7 DEF TranscodeEncoding, TranscodeReady, TranscodeCatch, MediaInv,
         StepIsCovered, TypeOK
    <2>4. \A s \in Rungs \ {r} : rend'[s] = rend[s]
      BY <1>7 DEF TranscodeEncoding, TranscodeReady, TranscodeCatch, TypeOK
    <2>5. NothingRemoved
      BY <2>2 DEF NothingRemoved
    <2>6. NeverBlocked => KeysAreStored(row)' /\ \A q \in Savers : KeysAreStored(snap[q])'
      BY <2>2 DEF MediaInv, KeysAreStored, ThumbnailExists
    <2>7. StepIsCovered(j, label)'
      BY <1>3, <2>1, CarefreeIsCovered
    <2> QED
      BY <2>1, <2>2, <2>3, <2>4, <2>5, <2>6, <2>7, HistoryGrows, MediaStep DEF MediaInv
  <1>8. CASE TranscodeRecheck(r)
    <2>1. UNCHANGED <<row, rend, history, s3, snap, ready, decision>>
      BY <1>8 DEF TranscodeRecheck, db, locals
    <2>2. CASE isBlockedStatus(row.moderationStatus)
      BY <2>1, <2>2, BlockedIsRecorded DEF MediaInv, NeverBlocked
    <2>3. CASE ~isBlockedStatus(row.moderationStatus)
      <3>1. Goto(j, "publish")
        BY <1>8, <2>3 DEF TranscodeRecheck, AfterEncode
      <3> QED
        BY <1>3, <2>1, <3>1, QuietMedia DEF MediaInv
    <2> QED
      BY <2>2, <2>3
  <1>9. CASE TranscodeCleanup(r)
    <2>1. ~NeverBlocked
      BY <1>1, <1>9 DEF MediaInv, StepIsCovered, TranscodeCleanup
    <2>2. history' = history
      BY <1>9 DEF TranscodeCleanup, db
    <2> QED
      BY <2>1, <2>2 DEF MediaInv, NeverBlocked
  <1> QED
    BY <1>4, <1>5, <1>6, <1>7, <1>8, <1>9 DEF transcode

(* The finalize job names the storyboard only after its sheets are put. *)
LEMMA FinalizeMedia ==
  ASSUME TypeOK, MediaInv, finalize
  PROVE  MediaInv'
  <1>1. Finalize \in PublishJobs /\ Finalize \in Processes /\ row \in VideoRow
    BY JobKinds DEF Processes, Jobs, TypeOK
  <1>2. {"return", "publish", "fatal", "no_rendition", "sheets"} \subseteq Carefree
    BY DEF Carefree, Steps
  <1>3. CASE publish(Finalize, "no_rendition", "sheets")
    BY <1>1, <1>2, <1>3, PublishMedia
  <1>4. CASE FinalizeFindVideo
    <2>1. PICK label \in {"return", "publish"} : Goto(Finalize, label)
      BY <1>4 DEF FinalizeFindVideo, FinalizeBegins
    <2>2. UNCHANGED <<row, rend, history, s3, snap, ready, decision>>
      BY <1>4 DEF FinalizeFindVideo, db, locals
    <2> QED
      BY <1>2, <2>1, <2>2, QuietMedia DEF MediaInv
  <1>5. CASE FinalizeNoRendition
    <2>1. Goto(Finalize, "fatal") /\ UNCHANGED <<rend, history, s3, snap, ready, decision>>
      BY <1>5 DEF FinalizeNoRendition, locals
    <2>2. NeverBlocked => KeysAreStored(row')
      BY <1>1, <1>5 DEF FinalizeNoRendition, MediaInv, KeysAreStored, VideoRow
    <2> QED
      BY <1>2, <2>1, <2>2, QuietMedia DEF MediaInv
  <1>6. CASE FinalizeSheets
    <2>1. UNCHANGED <<row, rend, history, snap, ready, decision>>
      BY <1>6 DEF FinalizeSheets, db, locals
    <2>2. CASE s3' = s3 /\ Goto(Finalize, "return")
      BY <1>2, <2>1, <2>2, QuietMedia DEF MediaInv
    <2>3. CASE s3' = [s3 EXCEPT !.storyboard = TRUE] /\ Goto(Finalize, "storyboard")
      <3>1. /\ NothingRemoved /\ s3'.storyboard
            /\ s3'.master = s3.master /\ s3'.segments = s3.segments
        BY <2>3 DEF NothingRemoved, TypeOK, Objects
      <3>2. StepIsCovered(Finalize, "storyboard")'
        BY <3>1 DEF StepIsCovered
      <3> QED
        BY <2>1, <2>3, <3>1, <3>2, PutMedia DEF MediaInv
    <2> QED
      BY <1>6, <2>2, <2>3 DEF FinalizeSheets
  <1>7. CASE FinalizeStoryboard
    <2>1. Goto(Finalize, "return") /\ UNCHANGED <<rend, history, s3, snap, ready, decision>>
      BY <1>7 DEF FinalizeStoryboard, locals
    <2>2. NeverBlocked => s3.storyboard
      BY <1>1, <1>7 DEF MediaInv, StepIsCovered, FinalizeStoryboard
    <2>3. NeverBlocked => KeysAreStored(row')
      BY <1>1, <1>7, <2>2 DEF FinalizeStoryboard, MediaInv, KeysAreStored, VideoRow
    <2> QED
      BY <1>2, <2>1, <2>3, QuietMedia DEF MediaInv
  <1> QED
    BY <1>3, <1>4, <1>5, <1>6, <1>7 DEF finalize

-----------------------------------------------------------------------------
(* Queues, failures and restarts. *)

(* Handlers that end rely on nothing any more. *)
LEMMA ForgetMedia ==
  ASSUME TypeOK, MediaInv, NEW over, Forget(over), UNCHANGED <<db, s3>>
  PROVE  MediaInv'
  <1>1. UNCHANGED <<row, rend, history, s3, snap>>
    BY DEF Forget, db
  <1> SUFFICES ASSUME NeverBlocked PROVE MediaInv'
    BY <1>1 DEF MediaInv, NeverBlocked
  <1>2. KeysAreStored(row)' /\ \A q \in Savers : KeysAreStored(snap[q])'
    BY <1>1 DEF MediaInv, KeysAreStored, ThumbnailExists
  <1>3. \A j \in PublishJobs : ready'[j] \subseteq s3'.segments
    BY <1>1 DEF MediaInv, Forget
  <1>4. ASSUME NEW q \in Processes PROVE StepIsCovered(q, pc[q])'
    <2>1. CASE q \in over
      BY <1>4, <2>1 DEF Forget, StepIsCovered
    <2>2. CASE q \notin over
      <3>1. /\ pc'[q] = pc[q]
            /\ q \in PublishJobs => ready'[q] = ready[q]
            /\ q \in Deciders => decision'[q] = decision[q]
        BY <1>4, <2>2 DEF Forget
      <3>2. StepIsCovered(q, pc[q])
        BY <1>4 DEF MediaInv
      <3> QED
        BY <1>1, <3>1, <3>2 DEF StepIsCovered
    <2> QED
      BY <2>1, <2>2
  <1> QED
    BY <1>1, <1>2, <1>3, <1>4 DEF MediaInv

(* BullMQ touches no row and no object; a taken job starts from the beginning. *)
LEMMA BullMQMedia ==
  ASSUME TypeOK, MediaInv, NEW j \in Jobs, Take(j) \/ Complete(j) \/ Retry(j) \/ Fail(j)
  PROVE  MediaInv'
  <1>1. CASE Take(j)
    <2>1. Goto(j, "start") /\ "start" \in Carefree
      BY <1>1 DEF Take, Carefree, Steps
    <2>2. UNCHANGED <<row, rend, history, s3, snap, ready, decision>>
      BY <1>1 DEF Take, db, locals
    <2> QED
      BY <2>1, <2>2, QuietMedia DEF MediaInv
  <1>2. CASE Complete(j) \/ Retry(j) \/ Fail(j)
    <2>1. Forget({j}) /\ UNCHANGED <<db, s3>>
      BY <1>2 DEF Complete, Retry, Fail
    <2> QED
      BY <2>1, ForgetMedia
  <1> QED
    BY <1>1, <1>2

(* An error leaves every object that was put, and relies on none. *)
LEMMA FailureMedia ==
  ASSUME TypeOK, MediaInv, Failure
  PROVE  MediaInv'
  <1>1. {"refused", "throw", "catch", "return", "finish"} \subseteq Carefree
    BY DEF Carefree, Steps
  <1>2. ASSUME NEW p \in Savers, VideoApiFails(p) PROVE MediaInv'
    <2>1. Goto(p, "refused") /\ snap' = [snap EXCEPT ![p] = NewRow]
      BY <1>2 DEF VideoApiFails, Ends
    <2>2. UNCHANGED <<row, rend, history, s3, ready, decision>>
      BY <1>2 DEF VideoApiFails, db
    <2>3. NeverBlocked => \A q \in Savers : KeysAreStored(snap'[q])
      BY <2>1, SnapsStored, NewRowKeys
    <2> QED
      BY <1>1, <2>1, <2>2, <2>3, QuietMedia DEF MediaInv
  <1>3. ASSUME NEW p \in Admins, AdminFails(p) PROVE MediaInv'
    BY <1>1, <1>3, QuietMedia DEF AdminFails, db, locals, MediaInv
  <1>4. ASSUME NEW j \in AnalyzeJobs, AnalyzeFails(j) PROVE MediaInv'
    <2>1. PICK label \in {"throw", "catch"} : Goto(j, label)
      BY <1>4 DEF AnalyzeFails
    <2>2. UNCHANGED <<row, rend, history, s3, snap, ready, decision>>
      BY <1>4 DEF AnalyzeFails, db, locals
    <2> QED
      BY <1>1, <2>1, <2>2, QuietMedia DEF MediaInv
  <1>5. ASSUME NEW r \in Rungs, TranscodeFails(r) PROVE MediaInv'
    <2>1. PICK label \in {"throw", "catch"} : Goto(Transcode(r), label)
      BY <1>5 DEF TranscodeFails
    <2>2. UNCHANGED <<row, rend, history, snap, ready, decision>>
      BY <1>5 DEF TranscodeFails, db, locals
    <2>3. s3' = s3 \/ s3' = [s3 EXCEPT !.segments = @ \cup {r}]
      BY <1>5 DEF TranscodeFails
    <2>4. /\ NothingRemoved /\ s3'.master = s3.master
          /\ s3.segments \subseteq s3'.segments
      BY <2>3 DEF NothingRemoved, TypeOK, Objects
    <2>5. StepIsCovered(Transcode(r), label)'
      BY <1>1, <2>1, CarefreeIsCovered
    <2> QED
      BY <2>1, <2>2, <2>4, <2>5, PutMedia DEF MediaInv
  <1>6. CASE FinalizeFails
    <2>1. PICK label \in {"throw", "return"} : Goto(Finalize, label)
      BY <1>6 DEF FinalizeFails
    <2>2. UNCHANGED <<row, rend, history, s3, snap, ready, decision>>
      BY <1>6 DEF FinalizeFails, db, locals
    <2> QED
      BY <1>1, <2>1, <2>2, QuietMedia DEF MediaInv
  <1>7. ASSUME NEW j \in ModerateJobs, ModerateFails(j) PROVE MediaInv'
    <2>1. PICK label \in {"throw", "finish"} : Goto(j, label)
      BY <1>7 DEF ModerateFails
    <2>2. UNCHANGED <<row, rend, history, s3, snap, ready>>
      BY <1>7 DEF ModerateFails, db
    <2>3. \A q \in Deciders \ {j} : decision'[q] = decision[q]
      BY <1>7 DEF ModerateFails, TypeOK
    <2> QED
      BY <1>1, <2>1, <2>2, <2>3, QuietMedia DEF MediaInv
  <1>8. CASE WorkerCrash
    <2>1. \E lost : Forget(lost)
      BY <1>8 DEF WorkerCrash
    <2> QED
      BY <1>8, <2>1, ForgetMedia DEF WorkerCrash
  <1>9. CASE ApiCrash
    <2>1. UNCHANGED <<row, rend, history, s3, ready, decision>>
      BY <1>9 DEF ApiCrash, db
    <2> SUFFICES ASSUME NeverBlocked PROVE MediaInv'
      BY <2>1 DEF MediaInv, NeverBlocked
    <2>2. KeysAreStored(row)' /\ \A q \in Savers : KeysAreStored(snap[q])'
      <3>1. \A q \in Savers : snap'[q] = NewRow
        BY <1>9 DEF ApiCrash
      <3> QED
        BY <2>1, <3>1 DEF MediaInv, KeysAreStored, ThumbnailExists, NewRow
    <2>3. ASSUME NEW q \in Processes PROVE StepIsCovered(q, pc[q])'
      <3>1. pc'[q] \in {"refused", pc[q]}
        BY <1>9, <2>3 DEF ApiCrash
      <3>2. StepIsCovered(q, pc[q])
        BY <2>3 DEF MediaInv
      <3> QED
        BY <2>1, <3>1, <3>2 DEF StepIsCovered
    <2> QED
      BY <2>1, <2>2, <2>3 DEF MediaInv
  <1> QED
    BY <1>2, <1>3, <1>4, <1>5, <1>6, <1>7, <1>8, <1>9 DEF Failure

(* Every step keeps MediaInv: one case per operation. *)
LEMMA NextMedia == TypeOK /\ LedgerInv /\ MediaInv /\ [Next]_vars => MediaInv'
  <1> SUFFICES ASSUME TypeOK, LedgerInv, MediaInv, [Next]_vars PROVE MediaInv'
    OBVIOUS
  <1>1. CASE PutSource
    <2>1. UNCHANGED <<row, rend, history, snap, ready, decision, pc>>
      BY <1>1 DEF PutSource, db, locals
    <2>2. /\ s3'.master = s3.master /\ s3'.segments = s3.segments
          /\ s3'.storyboard = s3.storyboard /\ s3'.frames = s3.frames
          /\ s3'.custom = s3.custom /\ s3'.variants = s3.variants
      BY <1>1 DEF PutSource, TypeOK, Objects
    <2> QED
      BY <2>1, <2>2 DEF MediaInv, NeverBlocked, KeysAreStored, ThumbnailExists, StepIsCovered
  <1>2. CASE Api
    BY <1>2, CompleteMedia, EditMedia, AdminMedia DEF Api
  <1>3. CASE Worker
    BY <1>3, AnalyzeMedia, TranscodeMedia, FinalizeMedia, ModerateMedia DEF Worker
  <1>4. CASE BullMQ
    BY <1>4, BullMQMedia DEF BullMQ
  <1>5. CASE Failure
    BY <1>5, FailureMedia
  <1>6. CASE UNCHANGED vars
    BY <1>6 DEF vars, db, locals, MediaInv, NeverBlocked, KeysAreStored, ThumbnailExists,
       StepIsCovered
  <1> QED
    BY <1>1, <1>2, <1>3, <1>4, <1>5, <1>6 DEF Next

-----------------------------------------------------------------------------
(* MediaInv is an invariant of the system: until a decision blocks the      *)
(* video, whatever the row, a loaded entity or a handler relies on is there. *)
THEOREM MediaCorrect == Spec => []MediaInv
  BY InitTypeOK, NextTypeOK, InitLedger, NextLedger, InitMedia, NextMedia, PTL DEF Spec

(* A video that was never blocked has every object its row names, segments  *)
(* for every READY rendition, and a master playlist that lists only         *)
(* renditions that are there, for any ladder and any number of edits,       *)
(* retries and restarts.                                                    *)
THEOREM MediaAlwaysStored == Spec => []MediaIsStored
  <1>1. MediaInv => MediaIsStored
    BY DEF MediaInv, MediaIsStored
  <1> QED
    BY <1>1, MediaCorrect, PTL

-----------------------------------------------------------------------------
(* The video at rest. *)

(* The kinds of jobs have different ids, and a request is none of them. *)
LEMMA JobsAreDistinct ==
    /\ \A a \in Approvals : AnalyzeAgain(a) # AnalyzeUpload
    /\ AnalyzeJobs \cap PublishJobs = {} /\ Finalize \notin TranscodeJobs
    /\ ModerateJobs \cap (AnalyzeJobs \cup PublishJobs) = {}
    /\ \A r, q \in Rungs : Transcode(r) = Transcode(q) => r = q
    /\ \A j \in Jobs : j \notin Requests
    /\ Jobs \subseteq Processes /\ Requests \subseteq Processes
    /\ PublishJobs \subseteq Jobs /\ AnalyzeJobs \subseteq Jobs /\ ModerateJobs \subseteq Jobs
    /\ AnalyzeUpload \in AnalyzeJobs
    /\ Completes \subseteq Requests /\ Edits \subseteq Requests /\ Admins \subseteq Requests
  <1>1. \A a \in Approvals : AnalyzeAgain(a) # AnalyzeUpload
    BY NamesAssumption DEF AnalyzeAgain, AnalyzeUpload
  <1>2. /\ AnalyzeJobs \cap PublishJobs = {} /\ Finalize \notin TranscodeJobs
        /\ ModerateJobs \cap (AnalyzeJobs \cup PublishJobs) = {}
    BY DEF AnalyzeJobs, PublishJobs, TranscodeJobs, ModerateJobs, AnalyzeUpload, AnalyzeAgain,
       Transcode, Finalize, ModerateVideo, ModerateText
  <1>3. \A r, q \in Rungs : Transcode(r) = Transcode(q) => r = q
    BY DEF Transcode
  <1> QED
    BY <1>1, <1>2, <1>3, NamesAssumption DEF Jobs, Processes, AnalyzeJobs, Requests

-----------------------------------------------------------------------------
(* Handlers run for active jobs. *)

(* No job stops being active, and p goes on or begins. *)
Moves(p, label) ==
    /\ p \in Processes /\ Goto(p, label)
    /\ p \in Jobs => pc[p] # "idle"
    /\ \A j \in Jobs : jobs[j].state = "active" => jobs'[j].state = "active"

(* A handler that goes on, or a request, leaves the invariant as it is. *)
LEMMA MoveKeepsActive ==
  ASSUME TypeOK, HandlersAreActive, NEW p, NEW label, Moves(p, label)
  PROVE  HandlersAreActive'
  BY DEF TypeOK, HandlersAreActive, Moves, Goto

(* Adding a job changes no job that the queue already holds. *)
LEMMA AddKeepsActive ==
  ASSUME TypeOK, NEW i
  PROVE  \A j \in Jobs : /\ jobs[j].state = "active" => Add(i)[j].state = "active"
                         /\ j # i => Add(i)[j] = jobs[j]
                         /\ jobs[j].state # "none" => Add(i)[j] = jobs[j]
                         /\ (j = i /\ jobs[j].state = "none") => Add(i)[j].state = "waiting"
  BY DEF TypeOK, Add, Job

(* A step of the API takes one request on, and nothing fails. *)
LEMMA ApiMoves ==
  ASSUME TypeOK, Api
  PROVE  \E p \in Requests : \E label : Moves(p, label) /\ faults' = faults
  <1>1. ASSUME NEW c \in Completes, completeUpload(c)
        PROVE  \E label : Moves(c, label) /\ faults' = faults
    <2>1. c \in Processes /\ c \notin Jobs
      BY <1>1, JobsAreDistinct
    <2>2. CASE CompleteRead(c) \/ CompleteHead(c) \/ CompleteSave(c)
      BY <2>1, <2>2 DEF CompleteRead, CompleteHead, CompleteSave, Ends, Moves, queues, budget
    <2>3. CASE CompleteAdd(c)
      BY <2>1, <2>3, AddKeepsActive DEF CompleteAdd, Ends, Moves, budget
    <2> QED
      BY <1>1, <2>2, <2>3 DEF completeUpload
  <1>2. ASSUME NEW e \in Edits, updateDetails(e)
        PROVE  \E label : Moves(e, label) /\ faults' = faults
    <2>1. e \in Processes /\ e \notin Jobs
      BY <1>2, JobsAreDistinct
    <2>2. CASE EditRead(e) \/ EditCustom(e)
      BY <2>1, <2>2 DEF EditRead, EditCustom, Ends, Moves, queues, budget
    <2>3. CASE EditVariants(e)
      BY <2>1, <2>3 DEF EditVariants, Ends, Moves, queues, budget
    <2>4. CASE EditSaveVariants(e) \/ EditSave(e)
      BY <2>1, <2>4 DEF EditSaveVariants, EditSave, Moves, queues, budget
    <2>5. CASE EditAdd(e)
      BY <2>1, <2>5, AddKeepsActive DEF EditAdd, Ends, Moves, budget
    <2> QED
      BY <1>2, <2>2, <2>3, <2>4, <2>5 DEF updateDetails
  <1>3. ASSUME NEW p \in Admins, admin(p)
        PROVE  \E label : Moves(p, label) /\ faults' = faults
    <2>1. p \in Processes /\ p \notin Jobs
      BY <1>3, JobsAreDistinct
    <2>2. CASE AdminFind(p) \/ ApplyHistory(p) \/ ApplyRow(p, AfterApply(p)) \/ RemoveHls(p)
               \/ RemoveThumbnails(p, AfterApply(p)) \/ ReprocessRenditions(p) \/ ReprocessRow(p)
      BY <2>1, <2>2 DEF AdminFind, ApplyHistory, ApplyRow, RemoveHls, RemoveThumbnails,
         ReprocessRenditions, ReprocessRow, Moves, queues, budget
    <2>3. CASE ReprocessAdd(p)
      BY <2>1, <2>3, AddKeepsActive DEF ReprocessAdd, Moves, budget
    <2> QED
      BY <1>3, <2>2, <2>3 DEF admin, apply
  <1> QED
    BY <1>1, <1>2, <1>3, JobsAreDistinct DEF Api

(* A publish takes its job on. *)
LEMMA PublishMoves ==
  ASSUME TypeOK, NEW j \in PublishJobs, NEW whenNone, NEW next, publish(j, whenNone, next)
  PROVE  \E label : Moves(j, label) /\ faults' = faults
  <1>1. j \in Jobs /\ j \in Processes
    BY JobsAreDistinct
  <1> QED
    BY <1>1 DEF publish, PublishFind, PublishPut, PublishUpdate, Moves, queues, budget

(* A step of the worker takes one job on, and nothing fails. *)
LEMMA WorkerMoves ==
  ASSUME TypeOK, Worker
  PROVE  \E j \in Jobs : \E label : Moves(j, label) /\ faults' = faults
  <1>1. ASSUME NEW j \in AnalyzeJobs, analyze(j)
        PROVE  \E label : Moves(j, label) /\ faults' = faults
    <2>1. j \in Jobs /\ j \in Processes
      BY <1>1, JobsAreDistinct
    <2>2. CASE AnalyzeStart(j) \/ AnalyzeCandidates(j) \/ AnalyzeTranscoding(j) \/ AnalyzeCatch(j)
      BY <2>1, <2>2 DEF AnalyzeStart, AnalyzeCandidates, AnalyzeTranscoding, AnalyzeCatch,
         UpdateRow, Moves, queues, budget
    <2>3. CASE AnalyzeNoSource(j) \/ AnalyzeFrames(j) \/ AnalyzeFindRendition(j)
               \/ AnalyzeSaveRendition(j)
      BY <2>1, <2>3 DEF AnalyzeNoSource, AnalyzeFrames, AnalyzeFindRendition,
         AnalyzeSaveRendition, Moves, queues, budget
    <2>4. CASE AnalyzeFlow(j)
      BY <2>1, <2>4 DEF AnalyzeFlow, Moves, budget
    <2>5. CASE AnalyzeModeration(j)
      BY <2>1, <2>5, AddKeepsActive DEF AnalyzeModeration, Moves, budget
    <2> QED
      BY <1>1, <2>2, <2>3, <2>4, <2>5 DEF analyze
  <1>2. ASSUME NEW r \in Rungs, transcode(r)
        PROVE  \E label : Moves(Transcode(r), label) /\ faults' = faults
    <2>1. Transcode(r) \in PublishJobs /\ Transcode(r) \in Jobs /\ Transcode(r) \in Processes
      BY <1>2, JobKinds, JobsAreDistinct
    <2>2. CASE publish(Transcode(r), "return", "return")
      BY <2>1, <2>2, PublishMoves
    <2>3. CASE TranscodeFindVideo(r) \/ TranscodeFindRendition(r) \/ TranscodeEncoding(r)
               \/ TranscodeUpload(r)
      BY <2>1, <2>3 DEF TranscodeFindVideo, TranscodeFindRendition, TranscodeEncoding,
         TranscodeUpload, Moves, queues, budget
    <2>4. CASE TranscodeReady(r) \/ TranscodeRecheck(r) \/ TranscodeCleanup(r) \/ TranscodeCatch(r)
      BY <2>1, <2>4 DEF TranscodeReady, TranscodeRecheck, TranscodeCleanup, TranscodeCatch,
         Moves, queues, budget
    <2> QED
      BY <1>2, <2>2, <2>3, <2>4 DEF transcode
  <1>3. ASSUME finalize
        PROVE  \E label : Moves(Finalize, label) /\ faults' = faults
    <2>1. Finalize \in PublishJobs /\ Finalize \in Jobs /\ Finalize \in Processes
      BY JobKinds, JobsAreDistinct
    <2>2. CASE publish(Finalize, "no_rendition", "sheets")
      BY <2>1, <2>2, PublishMoves
    <2>3. CASE FinalizeFindVideo \/ FinalizeNoRendition \/ FinalizeSheets \/ FinalizeStoryboard
      BY <2>1, <2>3 DEF FinalizeFindVideo, FinalizeNoRendition, FinalizeSheets,
         FinalizeStoryboard, Moves, queues, budget
    <2> QED
      BY <1>3, <2>2, <2>3 DEF finalize
  <1>4. ASSUME NEW j \in ModerateJobs, moderate(j)
        PROVE  \E label : Moves(j, label) /\ faults' = faults
    <2>1. j \in Jobs /\ j \in Processes
      BY <1>4, JobsAreDistinct
    <2>2. CASE ModerateFindVideo(j) \/ ModerateFinish(j)
      BY <2>1, <2>2 DEF ModerateFindVideo, ModerateFinish, FinishWith, Moves, queues, budget
    <2>3. CASE apply(j, "return")
      BY <2>1, <2>3 DEF apply, ApplyHistory, ApplyRow, RemoveHls, RemoveThumbnails, Moves,
         queues, budget
    <2> QED
      BY <1>4, <2>2, <2>3 DEF moderate
  <1>5. \A r \in Rungs : Transcode(r) \in Jobs
    BY JobKinds, JobsAreDistinct
  <1> QED
    BY <1>1, <1>2, <1>3, <1>4, <1>5, JobKinds, JobsAreDistinct DEF Worker

(* Which jobs leave the active state, and that their handlers are over.      *)
LEMMA SettledJobs ==
  ASSUME TypeOK, NEW j \in Jobs, Complete(j) \/ Retry(j) \/ Fail(j)
  PROVE  /\ Forget({j}) /\ UNCHANGED <<db, s3, budget>>
         /\ pc[j] \in {"return", "throw", "fatal"}
         /\ \A i \in Jobs \ {j, Finalize} : jobs'[i] = jobs[i]
         /\ Finalize # j =>
              \/ jobs'[Finalize] = jobs[Finalize]
              \/ /\ jobs[Finalize].state = "waiting-children"
                 /\ jobs'[Finalize].state = "waiting"
                 /\ waitFor \subseteq RungOf(j)
  <1>1. ASSUME NEW last, Leaves(j, last)
        PROVE  /\ \A i \in Jobs \ {j, Finalize} : jobs'[i] = jobs[i]
               /\ Finalize # j =>
                    \/ jobs'[Finalize] = jobs[Finalize]
                    \/ /\ jobs[Finalize].state = "waiting-children"
                       /\ jobs'[Finalize].state = "waiting"
                       /\ waitFor \subseteq RungOf(j)
    <2> DEFINE js == [jobs EXCEPT ![j] = last]
    <2>1. \A i \in Jobs \ {j} : js[i] = jobs[i]
      BY DEF TypeOK
    <2>2. js \in [Jobs -> {js[i] : i \in Jobs}] /\ DOMAIN js = Jobs
      BY DEF TypeOK
    <2>3. Finalize \in Jobs
      BY JobKinds, JobsAreDistinct
    <2>4. jobs' = Released(js, RungOf(j))
      BY <1>1 DEF Leaves
    <2> HIDE DEF js
    <2>5. CASE js[Finalize].state = "waiting-children" /\ waitFor \subseteq RungOf(j)
      <3>1. jobs' = [js EXCEPT ![Finalize].state = "waiting"]
        BY <2>4, <2>5 DEF Released
      <3>2. \A i \in Jobs \ {Finalize} : jobs'[i] = js[i]
        BY <2>2, <3>1
      <3>3. jobs'[Finalize] = [js[Finalize] EXCEPT !.state = "waiting"]
        BY <2>2, <2>3, <3>1
      <3>4. Finalize # j => jobs[Finalize] \in Job /\ js[Finalize] = jobs[Finalize]
        BY <2>1, <2>3 DEF TypeOK
      <3>5. Finalize # j => jobs'[Finalize].state = "waiting"
        BY <3>3, <3>4 DEF Job
      <3> QED
        BY <2>1, <2>3, <2>5, <3>2, <3>4, <3>5
    <2>6. CASE ~(js[Finalize].state = "waiting-children" /\ waitFor \subseteq RungOf(j))
      <3>1. jobs' = js
        BY <2>4, <2>6 DEF Released
      <3> QED
        BY <2>1, <2>3, <3>1
    <2> QED
      BY <2>5, <2>6
  <1>2. CASE Retry(j)
    <2>1. \A i \in Jobs \ {j} : jobs'[i] = jobs[i]
      BY <1>2 DEF Retry, TypeOK
    <2>2. Finalize \in Jobs /\ (UNCHANGED <<db, s3, waitFor, budget>> => UNCHANGED <<db, s3, budget>>)
      BY JobKinds, JobsAreDistinct DEF budget
    <2> QED
      BY <1>2, <2>1, <2>2 DEF Retry, Rejected
  <1>3. CASE Complete(j)
    BY <1>1, <1>3 DEF Complete
  <1>4. CASE Fail(j)
    BY <1>1, <1>4 DEF Fail, Rejected
  <1> QED
    BY <1>2, <1>3, <1>4

(* Every step keeps handlers to active jobs, restarts included. *)
LEMMA NextActive == TypeOK /\ HandlersAreActive /\ [Next]_vars => HandlersAreActive'
  <1> SUFFICES ASSUME TypeOK, HandlersAreActive, [Next]_vars PROVE HandlersAreActive'
    OBVIOUS
  <1>1. CASE PutSource
    BY <1>1 DEF PutSource, queues, HandlersAreActive
  <1>2. CASE Api
    BY <1>2, ApiMoves, MoveKeepsActive
  <1>3. CASE Worker
    BY <1>3, WorkerMoves, MoveKeepsActive
  <1>4. CASE BullMQ
    <2> PICK j \in Jobs : Take(j) \/ Complete(j) \/ Retry(j) \/ Fail(j)
      BY <1>4 DEF BullMQ
    <2>1. CASE Take(j)
      <3>1. \A i \in Jobs : i # j => jobs'[i] = jobs[i] /\ pc'[i] = pc[i]
        BY <2>1 DEF Take, Goto, TypeOK
      <3>2. jobs'[j].state = "active"
        BY <2>1 DEF Take, TypeOK, Job
      <3> QED
        BY <3>1, <3>2 DEF HandlersAreActive
    <2>2. CASE Complete(j) \/ Retry(j) \/ Fail(j)
      <3>1. \A i \in Jobs : pc'[i] = IF i = j THEN "idle" ELSE pc[i]
        BY <2>2, SettledJobs, JobsAreDistinct DEF Forget
      <3>2. \A i \in Jobs \ {j} : jobs[i].state = "active" => jobs'[i].state = "active"
        BY <2>2, SettledJobs
      <3> QED
        BY <3>1, <3>2 DEF HandlersAreActive
    <2> QED
      BY <2>1, <2>2
  <1>5. CASE Failure
    <2>1. ASSUME NEW p \in Savers, VideoApiFails(p) PROVE HandlersAreActive'
      <3>1. p \in Processes /\ p \notin Jobs
        BY <2>1, JobsAreDistinct DEF Savers
      <3>2. Moves(p, "refused")
        BY <2>1, <3>1 DEF VideoApiFails, Ends, Moves, queues
      <3> QED
        BY <3>2, MoveKeepsActive
    <2>2. ASSUME NEW p \in Admins, AdminFails(p) PROVE HandlersAreActive'
      <3>1. p \in Processes /\ p \notin Jobs
        BY <2>2, JobsAreDistinct
      <3>2. Moves(p, "refused")
        BY <2>2, <3>1 DEF AdminFails, Moves, queues
      <3> QED
        BY <3>2, MoveKeepsActive
    <2>3. ASSUME NEW j \in AnalyzeJobs, AnalyzeFails(j) PROVE HandlersAreActive'
      <3>1. j \in Processes /\ j \in Jobs
        BY <2>3, JobsAreDistinct
      <3>2. \E label : Moves(j, label)
        BY <2>3, <3>1 DEF AnalyzeFails, Moves, queues
      <3> QED
        BY <3>2, MoveKeepsActive
    <2>4. ASSUME NEW r \in Rungs, TranscodeFails(r) PROVE HandlersAreActive'
      <3>1. Transcode(r) \in Processes /\ Transcode(r) \in Jobs
        BY <2>4, JobsAreDistinct, JobKinds
      <3>2. \E label : Moves(Transcode(r), label)
        BY <2>4, <3>1 DEF TranscodeFails, Publishing, Moves, queues
      <3> QED
        BY <3>2, MoveKeepsActive
    <2>5. CASE FinalizeFails
      <3>1. Finalize \in Processes /\ Finalize \in Jobs
        BY JobsAreDistinct, JobKinds
      <3>2. \E label : Moves(Finalize, label)
        BY <2>5, <3>1 DEF FinalizeFails, Publishing, Moves, queues
      <3> QED
        BY <3>2, MoveKeepsActive
    <2>6. ASSUME NEW j \in ModerateJobs, ModerateFails(j) PROVE HandlersAreActive'
      <3>1. j \in Processes /\ j \in Jobs
        BY <2>6, JobsAreDistinct
      <3>2. \E label : Moves(j, label)
        BY <2>6, <3>1 DEF ModerateFails, Moves, queues
      <3> QED
        BY <3>2, MoveKeepsActive
    <2>7. CASE WorkerCrash
      <3>1. \A j \in Jobs : pc'[j] = IF jobs[j].state = "active" THEN "idle" ELSE pc[j]
        BY <2>7, JobsAreDistinct DEF WorkerCrash, Forget
      <3> QED
        BY <3>1 DEF HandlersAreActive
    <2>8. CASE ApiCrash
      BY <2>8, JobsAreDistinct DEF ApiCrash, queues, HandlersAreActive
    <2> QED
      BY <1>5, <2>1, <2>2, <2>3, <2>4, <2>5, <2>6, <2>7, <2>8 DEF Failure
  <1>6. CASE UNCHANGED vars
    BY <1>6 DEF vars, queues, HandlersAreActive
  <1> QED
    BY <1>1, <1>2, <1>3, <1>4, <1>5, <1>6 DEF Next

-----------------------------------------------------------------------------
(* The finalize job waits for somebody. *)

NoWorse(before, after) ==
    /\ before.state # "none" => after.state # "none"
    /\ after.state = "waiting-children" => before.state = "waiting-children"

(* A step that removes no transcode job and lets the finalize job wait for   *)
(* nobody new.                                                               *)
LEMMA KeepsWaits ==
  ASSUME TypeOK, SomebodyIsWaitedFor, waitFor' = waitFor,
         jobs'[Finalize].state = "waiting-children" => jobs[Finalize].state = "waiting-children",
         \A r \in Rungs : NoWorse(jobs[Transcode(r)], jobs'[Transcode(r)])
  PROVE  SomebodyIsWaitedFor'
  BY DEF SomebodyIsWaitedFor, NoWorse, TypeOK

(* Rungs whose job is over hold the finalize job back no longer, and free it *)
(* when they are the last.                                                   *)
LEMMA ReleaseWaits ==
  ASSUME TypeOK, SomebodyIsWaitedFor, NEW js \in [Jobs -> Job], NEW over,
         jobs' = Released(js, over), waitFor' = waitFor \ over,
         js[Finalize].state = "waiting-children" => jobs[Finalize].state = "waiting-children",
         \A r \in Rungs \ over : NoWorse(jobs[Transcode(r)], js[Transcode(r)]),
         \A r \in Rungs : js[Transcode(r)].state # "waiting-children"
  PROVE  SomebodyIsWaitedFor'
  <1>1. Finalize \in Jobs /\ \A r \in Rungs : Transcode(r) \in Jobs /\ Transcode(r) # Finalize
    BY JobKinds, JobsAreDistinct DEF TranscodeJobs
  <1>2. CASE js[Finalize].state = "waiting-children" /\ waitFor \subseteq over
    <2>1. jobs' = [js EXCEPT ![Finalize].state = "waiting"]
      BY <1>2 DEF Released
    <2>2. jobs'[Finalize].state = "waiting"
      BY <1>1, <2>1 DEF Job
    <2>3. \A r \in Rungs : jobs'[Transcode(r)] = js[Transcode(r)]
      BY <1>1, <2>1
    <2> QED
      BY <2>2, <2>3 DEF SomebodyIsWaitedFor
  <1>3. CASE js[Finalize].state = "waiting-children" /\ ~(waitFor \subseteq over)
    <2>1. jobs' = js /\ waitFor' # {} /\ waitFor' \subseteq Rungs \ over
      BY <1>3 DEF Released, TypeOK
    <2>2. \A r \in waitFor' : js[Transcode(r)].state # "none"
      BY <1>3, <2>1 DEF SomebodyIsWaitedFor, NoWorse
    <2> QED
      BY <2>1, <2>2 DEF SomebodyIsWaitedFor
  <1>4. CASE js[Finalize].state # "waiting-children"
    BY <1>4 DEF Released, SomebodyIsWaitedFor
  <1> QED
    BY <1>2, <1>3, <1>4

(* The requests add no job of the flow. *)
LEMMA ApiKeepsFlowJobs ==
  ASSUME TypeOK, Api
  PROVE  waitFor' = waitFor /\ \A i \in PublishJobs : jobs'[i] = jobs[i]
  <1>1. ASSUME NEW j, j \notin PublishJobs, jobs' = Add(j)
        PROVE  \A i \in PublishJobs : jobs'[i] = jobs[i]
    BY <1>1, AddKeepsActive, JobsAreDistinct
  <1>2. ASSUME NEW c \in Completes, completeUpload(c)
        PROVE  waitFor' = waitFor /\ (jobs' = jobs \/ jobs' = Add(AnalyzeUpload))
    BY <1>2 DEF completeUpload, CompleteRead, CompleteHead, CompleteSave, CompleteAdd, queues
  <1>3. ASSUME NEW e \in Edits, updateDetails(e)
        PROVE  waitFor' = waitFor /\ (jobs' = jobs \/ jobs' = Add(ModerateText(e)))
    BY <1>3 DEF updateDetails, EditRead, EditCustom, EditVariants, EditSaveVariants, EditSave,
       EditAdd, queues
  <1>4. ASSUME NEW p \in Admins, admin(p)
        PROVE  waitFor' = waitFor
               /\ (jobs' = jobs \/ jobs' = Add(AnalyzeAgain(p)))
    <2>1. CASE ReprocessAdd(p)
      BY <2>1 DEF ReprocessAdd
    <2>2. CASE ~ReprocessAdd(p)
      BY <1>4, <2>2 DEF admin, apply, AdminFind, ApplyHistory, ApplyRow, RemoveHls,
         RemoveThumbnails, ReprocessRenditions, ReprocessRow, queues
    <2> QED
      BY <2>1, <2>2
  <1>5. /\ AnalyzeUpload \notin PublishJobs
        /\ \A e \in Edits : ModerateText(e) \notin PublishJobs
        /\ \A p \in Admins : AnalyzeAgain(p) \notin PublishJobs
    BY DEF PublishJobs, TranscodeJobs, Transcode, Finalize, AnalyzeUpload, ModerateText,
       AnalyzeAgain
  <1> QED
    BY <1>1, <1>2, <1>3, <1>4, <1>5 DEF Api

(* The handlers add jobs, and only the analyze job those of the flow. *)
LEMMA WorkerWaits ==
  ASSUME TypeOK, SomebodyIsWaitedFor, Worker
  PROVE  SomebodyIsWaitedFor'
  <1>1. Finalize \in PublishJobs /\ \A r \in Rungs : Transcode(r) \in PublishJobs
    BY JobKinds
  <1>2. ASSUME UNCHANGED <<jobs, waitFor>> PROVE SomebodyIsWaitedFor'
    BY <1>2 DEF SomebodyIsWaitedFor
  <1>3. ASSUME NEW j \in AnalyzeJobs, analyze(j) PROVE SomebodyIsWaitedFor'
    <2>1. CASE AnalyzeFlow(j)
      <3>1. \A r \in Rungs : jobs'[Transcode(r)].state \notin {"none", "waiting-children"}
        <4> SUFFICES ASSUME NEW r \in Rungs
                     PROVE  jobs'[Transcode(r)].state \notin {"none", "waiting-children"}
          OBVIOUS
        <4>1. Transcode(r) \in Jobs /\ Transcode(r) \in TranscodeJobs
          BY JobKinds, JobsAreDistinct DEF TranscodeJobs
        <4>2. jobs'[Transcode(r)] = IF jobs[Transcode(r)].state = "none"
                                    THEN [NoJob EXCEPT !.state = "waiting"]
                                    ELSE jobs[Transcode(r)]
          BY <2>1, <4>1 DEF AnalyzeFlow
        <4> QED
          BY <4>2 DEF NoJob, SomebodyIsWaitedFor
      <3>2. waitFor' = Rungs /\ Rungs # {}
        BY <2>1, RungsAssumption DEF AnalyzeFlow, Rungs
      <3> QED
        BY <3>1, <3>2 DEF SomebodyIsWaitedFor
    <2>2. CASE AnalyzeModeration(j)
      <3>1. ModerateVideo \notin PublishJobs
        BY JobsAreDistinct DEF ModerateJobs
      <3>2. waitFor' = waitFor /\ \A i \in PublishJobs : jobs'[i] = jobs[i]
        BY <2>2, <3>1, AddKeepsActive, JobsAreDistinct DEF AnalyzeModeration
      <3> QED
        BY <1>1, <3>2, KeepsWaits DEF NoWorse
    <2>3. CASE ~AnalyzeFlow(j) /\ ~AnalyzeModeration(j)
      <3>1. UNCHANGED queues
        BY <1>3, <2>3 DEF analyze, AnalyzeStart, AnalyzeNoSource, AnalyzeFrames,
           AnalyzeCandidates, AnalyzeFindRendition, AnalyzeSaveRendition, AnalyzeTranscoding,
           AnalyzeCatch, UpdateRow
      <3> QED
        BY <1>2, <3>1 DEF queues
    <2> QED
      BY <2>1, <2>2, <2>3
  <1>4. ASSUME NEW r \in Rungs, transcode(r) PROVE UNCHANGED queues
    BY <1>4 DEF transcode, TranscodeFindVideo, TranscodeFindRendition, TranscodeEncoding,
       TranscodeUpload, TranscodeReady, TranscodeRecheck, TranscodeCleanup, TranscodeCatch,
       publish, PublishFind, PublishPut, PublishUpdate
  <1>5. ASSUME finalize PROVE UNCHANGED queues
    BY <1>5 DEF finalize, FinalizeFindVideo, FinalizeNoRendition, FinalizeSheets,
       FinalizeStoryboard, publish, PublishFind, PublishPut, PublishUpdate
  <1>6. ASSUME NEW j \in ModerateJobs, moderate(j) PROVE UNCHANGED queues
    BY <1>6 DEF moderate, ModerateFindVideo, ModerateFinish, FinishWith, apply, ApplyHistory,
       ApplyRow, RemoveHls, RemoveThumbnails
  <1> QED
    BY <1>2, <1>3, <1>4, <1>5, <1>6 DEF Worker, queues

(* A job that starts, or is over. *)
LEMMA BullMQWaits ==
  ASSUME TypeOK, SomebodyIsWaitedFor, NEW j \in Jobs,
         Take(j) \/ Complete(j) \/ Retry(j) \/ Fail(j)
  PROVE  SomebodyIsWaitedFor'
  <1>1. Finalize \in Jobs /\ \A r \in Rungs : Transcode(r) \in Jobs
    BY JobKinds, JobsAreDistinct
  <1>2. NoJob \in Job /\ NoJob.state = "none" /\ jobs[j] \in Job
    BY DEF NoJob, Job, JobState, TypeOK
  <1>4. ASSUME NEW last \in Job, last.state # "waiting-children", Leaves(j, last)
        PROVE  SomebodyIsWaitedFor'
    <2> DEFINE js == [jobs EXCEPT ![j] = last]
    <2>1. js \in [Jobs -> Job] /\ js[j] = last /\ \A i \in Jobs : i # j => js[i] = jobs[i]
      BY DEF TypeOK
    <2>2. jobs' = Released(js, RungOf(j)) /\ waitFor' = waitFor \ RungOf(j)
      BY <1>4 DEF Leaves
    <2> HIDE DEF js
    <2>3. \A r \in Rungs \ RungOf(j) : js[Transcode(r)] = jobs[Transcode(r)]
      BY <1>1, <2>1 DEF RungOf
    <2>4. \A i \in Jobs : js[i].state = "waiting-children" => jobs[i].state = "waiting-children"
      BY <1>4, <2>1
    <2>5. \A r \in Rungs : js[Transcode(r)].state # "waiting-children"
      BY <1>1, <2>4 DEF SomebodyIsWaitedFor
    <2>6. \A r \in Rungs \ RungOf(j) : NoWorse(jobs[Transcode(r)], js[Transcode(r)])
      BY <2>3 DEF NoWorse
    <2> QED
      BY <1>1, <2>1, <2>2, <2>4, <2>5, <2>6, ReleaseWaits
  <1>5. CASE Take(j)
    <2>1. waitFor' = waitFor /\ jobs'[j].state = "active"
          /\ \A i \in Jobs : i # j => jobs'[i] = jobs[i]
      BY <1>2, <1>5 DEF Take, TypeOK, Job
    <2> QED
      BY <1>1, <2>1, KeepsWaits DEF NoWorse
  <1>6. CASE Retry(j)
    <2>1. waitFor' = waitFor /\ jobs'[j].state = "waiting"
          /\ \A i \in Jobs : i # j => jobs'[i] = jobs[i]
      BY <1>2, <1>6 DEF Retry, TypeOK, Job
    <2> QED
      BY <1>1, <2>1, KeepsWaits DEF NoWorse
  <1>7. CASE Complete(j)
    <2>1. Leaves(j, NoJob)
      BY <1>7 DEF Complete
    <2>2. NoJob.state # "waiting-children"
      BY <1>2
    <2> QED
      BY <1>2, <1>4, <2>1, <2>2
  <1>8. CASE Fail(j)
    <2> DEFINE last == [jobs[j] EXCEPT !.state = "failed", !.made = @ + 1]
    <2>1. last \in Job /\ last.state = "failed"
      <3>1. jobs[j].made + 1 \in Nat
        BY <1>2 DEF Job
      <3> QED
        BY <1>2, <3>1 DEF Job, JobState
    <2>2. Leaves(j, last)
      BY <1>8 DEF Fail
    <2> HIDE DEF last
    <2> QED
      BY <1>4, <2>1, <2>2
  <1> QED
    BY <1>5, <1>6, <1>7, <1>8

(* The jobs a dying worker leaves behind wait again or are kept as failed. *)
LEMMA CrashWaits ==
  ASSUME TypeOK, SomebodyIsWaitedFor, WorkerCrash
  PROVE  SomebodyIsWaitedFor'
  <1> DEFINE lost == {j \in Jobs : jobs[j].state = "active"}
             after == [j \in Jobs |-> IF j \in lost THEN Stalled(jobs[j]) ELSE jobs[j]]
             over == {r \in Rungs : /\ Transcode(r) \in lost
                                    /\ after[Transcode(r)].state = "failed"}
  <1>1. Finalize \in Jobs /\ \A r \in Rungs : Transcode(r) \in Jobs
    BY JobKinds, JobsAreDistinct
  <1>2. \A job \in Job : Stalled(job) \in Job /\ Stalled(job).state \in {"failed", "waiting"}
    <2>1. ASSUME NEW job \in Job
          PROVE  /\ [job EXCEPT !.state = "failed"].state = "failed"
                 /\ [job EXCEPT !.state = "waiting", !.stalls = 1].state = "waiting"
      BY DEF Job
    <2> QED
      BY <2>1, StalledType DEF Stalled
  <1>3. after \in [Jobs -> Job]
    <2>1. jobs \in [Jobs -> Job]
      BY DEF TypeOK
    <2>2. \A j \in Jobs : (IF j \in lost THEN Stalled(jobs[j]) ELSE jobs[j]) \in Job
      BY <1>2, <2>1
    <2> QED
      BY <2>2
  <1>4. \A j \in Jobs : \/ after[j] = jobs[j]
                        \/ after[j].state \in {"failed", "waiting"}
    BY <1>2 DEF TypeOK
  <1>5. jobs' = Released(after, over) /\ waitFor' = waitFor \ over
    BY DEF WorkerCrash
  <1> HIDE DEF after, over, lost
  <1>6. \A j \in Jobs : NoWorse(jobs[j], after[j])
    BY <1>4 DEF NoWorse
  <1>7. \A r \in Rungs : after[Transcode(r)].state # "waiting-children"
    BY <1>1, <1>4 DEF SomebodyIsWaitedFor
  <1> QED
    BY <1>1, <1>3, <1>4, <1>5, <1>6, <1>7, ReleaseWaits

(* Every step leaves the finalize job somebody to wait for, or frees it. *)
LEMMA NextWaits == TypeOK /\ SomebodyIsWaitedFor /\ [Next]_vars => SomebodyIsWaitedFor'
  <1> SUFFICES ASSUME TypeOK, SomebodyIsWaitedFor, [Next]_vars PROVE SomebodyIsWaitedFor'
    OBVIOUS
  <1>1. Finalize \in PublishJobs /\ \A r \in Rungs : Transcode(r) \in PublishJobs
    BY JobKinds
  <1>2. ASSUME UNCHANGED queues PROVE SomebodyIsWaitedFor'
    BY <1>2 DEF queues, SomebodyIsWaitedFor
  <1>3. CASE Api
    BY <1>1, <1>3, ApiKeepsFlowJobs, KeepsWaits DEF NoWorse
  <1>4. CASE Failure
    <2>1. Failure => UNCHANGED queues \/ WorkerCrash
      BY DEF Failure, VideoApiFails, AdminFails, AnalyzeFails, TranscodeFails, FinalizeFails,
         ModerateFails, ApiCrash, queues
    <2> QED
      BY <1>2, <1>4, <2>1, CrashWaits
  <1>5. CASE UNCHANGED vars \/ PutSource
    BY <1>2, <1>5 DEF vars, PutSource
  <1> QED
    BY <1>3, <1>4, <1>5, WorkerWaits, BullMQWaits DEF Next, BullMQ

LEMMA InitWaits == Init => SomebodyIsWaitedFor
  <1>1. Finalize \in Jobs /\ \A r \in Rungs : Transcode(r) \in Jobs
    BY JobKinds, JobsAreDistinct
  <1> QED
    BY <1>1 DEF Init, SomebodyIsWaitedFor, NoJob

(* When nothing moves any more, a finalize job that still waits, waits only  *)
(* for jobs that failed for good: no job that completed, no retry and no     *)
(* restart leaves it behind, whatever awaits reject.                         *)
THEOREM FlowIsReleased == Spec => [](AtRest => WaitsForTheFailed)
  <1>2. TypeOK /\ SomebodyIsWaitedFor => (AtRest => WaitsForTheFailed)
    <2> SUFFICES ASSUME TypeOK, SomebodyIsWaitedFor, AtRest,
                        jobs[Finalize].state = "waiting-children"
                 PROVE  /\ waitFor # {}
                        /\ \A r \in waitFor : jobs[Transcode(r)].state = "failed"
      BY DEF WaitsForTheFailed
    <2>1. \A r \in waitFor : Transcode(r) \in TranscodeJobs /\ Transcode(r) \in Jobs
      BY JobKinds, JobsAreDistinct DEF TypeOK, TranscodeJobs
    <2> QED
      BY <2>1 DEF SomebodyIsWaitedFor, AtRest, TypeOK, Job, JobState
  <1> QED
    BY <1>2, InitTypeOK, NextTypeOK, InitWaits, NextWaits, PTL DEF Spec

-----------------------------------------------------------------------------
(* The segments of a blocked video. *)

(* A step that neither uploads nor removes, nor applies a decision, leaves   *)
(* what must still be removed to those who will.                             *)
LEMMA OthersKeepBlocked ==
  ASSUME TypeOK, BlockedInv, OnlyAppliesBlock, NEW p, NEW label, Goto(p, label),
         pc[p] \notin {"ready", "recheck", "cleanup", "apply_row", "remove_hls"},
         s3'.segments = s3.segments, faults' = faults
  PROVE  BlockedInv'
  <1>1. \A q \in Processes : q # p => pc'[q] = pc[q]
    BY DEF TypeOK, Goto
  <1>2. \A q \in Deciders : q \in Processes
    BY JobsAreDistinct DEF Deciders
  <1>3. \A q \in Processes :
          pc[q] \in {"ready", "recheck", "cleanup", "apply_row", "remove_hls"} => pc'[q] = pc[q]
    BY <1>1
  <1>4. isBlockedStatus(row'.moderationStatus) => isBlockedStatus(row.moderationStatus)
    BY <1>2, <1>3 DEF OnlyAppliesBlock
  <1>5. \A r \in Rungs : Transcode(r) \in Processes
    BY JobKinds, JobsAreDistinct
  <1>6. \A r \in s3.segments : r \in Rungs
    BY DEF TypeOK, Objects
  <1> SUFFICES ASSUME faults = 0, isBlockedStatus(row.moderationStatus), NEW r \in s3.segments
               PROVE  \/ pc'[Transcode(r)] \in {"ready", "recheck", "cleanup"}
                      \/ \E q \in Deciders : pc'[q] = "remove_hls"
    BY <1>4 DEF BlockedInv
  <1>7. CASE pc[Transcode(r)] \in {"ready", "recheck", "cleanup"}
    BY <1>3, <1>5, <1>6, <1>7
  <1>8. CASE \E q \in Deciders : pc[q] = "remove_hls"
    BY <1>2, <1>3, <1>8
  <1> QED
    BY <1>7, <1>8 DEF BlockedInv

(* An apply that blocks the video is about to remove its segments. *)
LEMMA ApplyKeepsBlocked ==
  ASSUME TypeOK, BlockedInv, OnlyAppliesBlock, NEW p \in Deciders, NEW next, apply(p, next)
  PROVE  BlockedInv'
  <1>1. p \in Processes /\ \A q \in Deciders : q \in Processes
    BY JobsAreDistinct DEF Deciders
  <1>2. CASE ApplyHistory(p)
    BY <1>2, OthersKeepBlocked DEF ApplyHistory, budget
  <1>3. CASE ApplyRow(p, next)
    <2>1. faults' = faults /\ s3' = s3
      BY <1>3 DEF ApplyRow, budget
    <2>2. CASE isBlockedStatus(decision[p].status)
      <3>1. pc'[p] = "remove_hls"
        BY <1>1, <1>3, <2>2 DEF ApplyRow, Goto, TypeOK
      <3> QED
        BY <3>1 DEF BlockedInv
    <2>3. CASE ~isBlockedStatus(decision[p].status)
      <3>1. row'.moderationStatus = decision[p].status
        BY <1>3 DEF ApplyRow, TypeOK, VideoRow
      <3> QED
        BY <2>3, <3>1 DEF BlockedInv
    <2> QED
      BY <2>2, <2>3
  <1>4. CASE RemoveHls(p)
    <2>1. s3'.segments = {}
      BY <1>4 DEF RemoveHls, deleteHls, TypeOK, Objects
    <2> QED
      BY <2>1 DEF BlockedInv
  <1>5. CASE RemoveThumbnails(p, next)
    <2>1. s3'.segments = s3.segments
      BY <1>5 DEF RemoveThumbnails, deleteThumbnails, TypeOK, Objects
    <2> QED
      BY <1>5, <2>1, OthersKeepBlocked DEF RemoveThumbnails, budget
  <1> QED
    BY <1>2, <1>3, <1>4, <1>5 DEF apply

(* A publish leaves segments and status alone. *)
LEMMA PublishKeepsBlocked ==
  ASSUME TypeOK, BlockedInv, OnlyAppliesBlock, NEW j, NEW whenNone, NEW next,
         publish(j, whenNone, next)
  PROVE  BlockedInv'
  <1>1. s3'.segments = s3.segments /\ faults' = faults
    BY DEF publish, PublishFind, PublishPut, PublishUpdate, TypeOK, Objects, budget
  <1>2. (\E label : Goto(j, label)) /\ pc[j] \in Publishing
    BY DEF publish, PublishFind, PublishPut, PublishUpdate, Publishing
  <1> QED
    BY <1>1, <1>2, OthersKeepBlocked DEF Publishing

(* What a transcode job uploads it looks at again, and removes. *)
LEMMA TranscodeKeepsBlocked ==
  ASSUME TypeOK, BlockedInv, OnlyAppliesBlock, NEW r \in Rungs, transcode(r)
  PROVE  BlockedInv'
  <1> DEFINE j == Transcode(r)
  <1>1. j \in Processes /\ \A q \in Deciders : q \in Processes /\ q # j
    BY JobKinds, JobsAreDistinct DEF Deciders
  <1>2. CASE publish(j, "return", "return")
    BY <1>2, PublishKeepsBlocked
  <1>3. CASE TranscodeFindVideo(r) \/ TranscodeFindRendition(r) \/ TranscodeEncoding(r)
             \/ TranscodeCatch(r)
    BY <1>3, OthersKeepBlocked
       DEF TranscodeFindVideo, TranscodeFindRendition, TranscodeEncoding, TranscodeCatch, budget
  <1>4. ASSUME faults' = faults, row' = row, s3'.segments \subseteq s3.segments \cup {r},
               NEW label \in {"ready", "recheck", "cleanup", "return", "publish"}, Goto(j, label),
               \/ label \in {"ready", "recheck", "cleanup"}
               \/ ~isBlockedStatus(row.moderationStatus)
               \/ r \notin s3'.segments,
               pc[j] # "remove_hls"
        PROVE  BlockedInv'
    <2>1. \A q \in Processes : pc'[q] = IF q = j THEN label ELSE pc[q]
      BY <1>4 DEF Goto, TypeOK
    <2>2. \A q \in Rungs \ {r} : Transcode(q) \in Processes /\ Transcode(q) # j
      BY JobKinds, JobsAreDistinct
    <2>3. s3'.segments \subseteq Rungs
      BY <1>4 DEF TypeOK, Objects
    <2> SUFFICES ASSUME faults = 0, isBlockedStatus(row.moderationStatus), NEW q \in s3'.segments
                 PROVE  \/ pc'[Transcode(q)] \in {"ready", "recheck", "cleanup"}
                        \/ \E p \in Deciders : pc'[p] = "remove_hls"
      BY <1>4 DEF BlockedInv
    <2>4. CASE q = r
      BY <1>1, <1>4, <2>1, <2>4
    <2>5. CASE q # r
      <3>1. q \in Rungs \ {r} /\ q \in s3.segments
        BY <1>4, <2>3, <2>5
      <3>2. CASE pc[Transcode(q)] \in {"ready", "recheck", "cleanup"}
        BY <2>1, <2>2, <3>1, <3>2
      <3>3. CASE \E p \in Deciders : pc[p] = "remove_hls"
        BY <1>1, <2>1, <3>3
      <3> QED
        BY <3>1, <3>2, <3>3 DEF BlockedInv
    <2> QED
      BY <2>4, <2>5
  <1>5. CASE TranscodeUpload(r)
    <2>1. s3'.segments = s3.segments \cup {r} /\ faults' = faults /\ row' = row
      BY <1>5 DEF TranscodeUpload, TypeOK, Objects, db, budget
    <2>2. pc[j] = "upload" /\ Goto(j, "ready")
      BY <1>5 DEF TranscodeUpload
    <2> QED
      BY <1>4, <2>1, <2>2
  <1>6. CASE TranscodeReady(r)
    <2>1. s3' = s3 /\ faults' = faults /\ row' = row
      BY <1>6 DEF TranscodeReady, budget
    <2>2. pc[j] = "ready" /\ Goto(j, "recheck")
      BY <1>6 DEF TranscodeReady
    <2> QED
      BY <1>4, <2>1, <2>2
  <1>7. CASE TranscodeRecheck(r)
    <2>1. s3' = s3 /\ faults' = faults /\ row' = row
      BY <1>7 DEF TranscodeRecheck, db, budget
    <2>2. pc[j] = "recheck"
          /\ Goto(j, IF isBlockedStatus(row.moderationStatus) THEN "cleanup" ELSE "publish")
      BY <1>7 DEF TranscodeRecheck, AfterEncode
    <2> QED
      BY <1>4, <2>1, <2>2
  <1>8. CASE TranscodeCleanup(r)
    <2>1. s3'.segments = s3.segments \ {r} /\ faults' = faults /\ row' = row
      BY <1>8 DEF TranscodeCleanup, TypeOK, Objects, db, budget
    <2>2. pc[j] = "cleanup" /\ Goto(j, "return")
      BY <1>8 DEF TranscodeCleanup
    <2> QED
      BY <1>4, <2>1, <2>2
  <1> QED
    BY <1>2, <1>3, <1>5, <1>6, <1>7, <1>8 DEF transcode

(* Every step that blocks a video by an apply only keeps BlockedInv. *)
LEMMA NextBlocked ==
  TypeOK /\ HandlersAreActive /\ BlockedInv /\ [Next]_vars /\ [OnlyAppliesBlock]_vars
     => BlockedInv'
  <1> SUFFICES ASSUME TypeOK, HandlersAreActive, BlockedInv, [Next]_vars, [OnlyAppliesBlock]_vars
               PROVE  BlockedInv'
    OBVIOUS
  <1>1. CASE UNCHANGED vars
    BY <1>1 DEF vars, db, budget, BlockedInv
  <1> SUFFICES ASSUME Next, OnlyAppliesBlock
               PROVE  BlockedInv'
    BY <1>1
  <1>2. CASE PutSource
    <2>1. s3'.segments = s3.segments /\ UNCHANGED <<row, pc, faults>>
      BY <1>2 DEF PutSource, TypeOK, Objects, db, budget
    <2> QED
      BY <2>1 DEF BlockedInv
  <1>3. CASE Api
    <2>1. ASSUME NEW c \in Completes, completeUpload(c) PROVE BlockedInv'
      <3>1. s3' = s3 /\ faults' = faults
        BY <2>1 DEF completeUpload, CompleteRead, CompleteHead, CompleteSave, CompleteAdd, budget
      <3>2. (\E label : Goto(c, label)) /\ pc[c] \in {"idle", "head", "save", "add"}
        BY <2>1 DEF completeUpload, CompleteRead, CompleteHead, CompleteSave, CompleteAdd, Ends
      <3> QED
        BY <3>1, <3>2, OthersKeepBlocked
    <2>2. ASSUME NEW e \in Edits, updateDetails(e) PROVE BlockedInv'
      <3>1. faults' = faults
        BY <2>2 DEF updateDetails, EditRead, EditCustom, EditVariants, EditSaveVariants, EditSave,
           EditAdd, budget
      <3>2. s3'.segments = s3.segments
        BY <2>2 DEF updateDetails, EditRead, EditCustom, EditVariants, PutVariants,
           EditSaveVariants, EditSave, EditAdd, TypeOK, Objects
      <3>3. (\E label : Goto(e, label))
            /\ pc[e] \in {"idle", "custom", "variants", "save_variants", "save", "add"}
        BY <2>2 DEF updateDetails, EditRead, EditCustom, EditVariants, EditSaveVariants, EditSave,
           EditAdd, Ends
      <3> QED
        BY <3>1, <3>2, <3>3, OthersKeepBlocked
    <2>3. ASSUME NEW p \in Admins, admin(p) PROVE BlockedInv'
      <3>1. CASE apply(p, AfterApply(p))
        BY <3>1, JobKinds, ApplyKeepsBlocked
      <3>2. CASE AdminFind(p) \/ ReprocessRenditions(p) \/ ReprocessRow(p) \/ ReprocessAdd(p)
        BY <3>2, OthersKeepBlocked
           DEF AdminFind, ReprocessRenditions, ReprocessRow, ReprocessAdd, budget
      <3> QED
        BY <2>3, <3>1, <3>2 DEF admin
    <2> QED
      BY <1>3, <2>1, <2>2, <2>3 DEF Api
  <1>4. CASE Worker
    <2>1. ASSUME NEW j \in AnalyzeJobs, analyze(j) PROVE BlockedInv'
      <3>1. CASE AnalyzeStart(j) \/ AnalyzeCandidates(j) \/ AnalyzeTranscoding(j) \/ AnalyzeCatch(j)
        BY <3>1, OthersKeepBlocked DEF AnalyzeStart, AnalyzeCandidates, AnalyzeTranscoding,
           AnalyzeCatch, UpdateRow, budget
      <3>2. CASE AnalyzeFrames(j)
        <4>1. s3'.segments = s3.segments
          BY <3>2 DEF AnalyzeFrames, TypeOK, Objects
        <4> QED
          BY <3>2, <4>1, OthersKeepBlocked DEF AnalyzeFrames, budget
      <3>3. CASE AnalyzeNoSource(j) \/ AnalyzeFindRendition(j) \/ AnalyzeSaveRendition(j)
                 \/ AnalyzeFlow(j) \/ AnalyzeModeration(j)
        BY <3>3, OthersKeepBlocked DEF AnalyzeNoSource, AnalyzeFindRendition,
           AnalyzeSaveRendition, AnalyzeFlow, AnalyzeModeration, budget
      <3> QED
        BY <2>1, <3>1, <3>2, <3>3 DEF analyze
    <2>2. ASSUME finalize PROVE BlockedInv'
      <3>1. CASE publish(Finalize, "no_rendition", "sheets")
        BY <3>1, PublishKeepsBlocked
      <3>2. CASE FinalizeFindVideo \/ FinalizeNoRendition \/ FinalizeStoryboard
        BY <3>2, OthersKeepBlocked
           DEF FinalizeFindVideo, FinalizeNoRendition, FinalizeStoryboard, budget
      <3>3. CASE FinalizeSheets
        <4>1. s3'.segments = s3.segments
          BY <3>3 DEF FinalizeSheets, TypeOK, Objects
        <4> QED
          BY <3>3, <4>1, OthersKeepBlocked DEF FinalizeSheets, budget
      <3> QED
        BY <2>2, <3>1, <3>2, <3>3 DEF finalize
    <2>3. ASSUME NEW j \in ModerateJobs, moderate(j) PROVE BlockedInv'
      <3>1. CASE apply(j, "return")
        BY <3>1, JobKinds, ApplyKeepsBlocked
      <3>2. CASE ModerateFindVideo(j) \/ ModerateFinish(j)
        BY <3>2, OthersKeepBlocked DEF ModerateFindVideo, ModerateFinish, FinishWith, budget
      <3> QED
        BY <2>3, <3>1, <3>2 DEF moderate
    <2> QED
      BY <1>4, <2>1, <2>2, <2>3, TranscodeKeepsBlocked DEF Worker
  <1>5. CASE BullMQ
    <2> PICK j \in Jobs : Take(j) \/ Complete(j) \/ Retry(j) \/ Fail(j)
      BY <1>5 DEF BullMQ
    <2>1. CASE Take(j)
      <3>1. pc[j] = "idle"
        BY <2>1 DEF Take, HandlersAreActive
      <3> QED
        BY <2>1, <3>1, OthersKeepBlocked DEF Take, budget
    <2>2. CASE Complete(j) \/ Retry(j) \/ Fail(j)
      <3>1. Forget({j}) /\ UNCHANGED <<row, s3, faults>> /\ pc[j] \in {"return", "throw", "fatal"}
        BY <2>2, SettledJobs DEF db, budget
      <3>2. \A q \in Processes : q # j => pc'[q] = pc[q]
        BY <3>1 DEF Forget
      <3>3. \A r \in s3.segments : Transcode(r) \in Processes
        BY JobKinds, JobsAreDistinct DEF TypeOK, Objects
      <3>4. \A q \in Deciders : q \in Processes
        BY JobsAreDistinct DEF Deciders
      <3> QED
        BY <3>1, <3>2, <3>3, <3>4 DEF BlockedInv
    <2> QED
      BY <2>1, <2>2
  <1>6. CASE Failure
    <2>1. faults' = faults + 1
      BY <1>6 DEF Failure, VideoApiFails, AdminFails, AnalyzeFails, TranscodeFails, FinalizeFails,
         ModerateFails, WorkerCrash, ApiCrash, Faulty, Restart
    <2> QED
      BY <2>1, BoundsAssumption DEF BlockedInv, TypeOK
  <1> QED
    BY <1>2, <1>3, <1>4, <1>5, <1>6 DEF Next

(* Nothing runs and nothing is stored at first. *)
LEMMA InitRest == Init => HandlersAreActive /\ BlockedInv
  BY JobsAreDistinct DEF Init, HandlersAreActive, BlockedInv, NoObjects

(* A handler runs only for a job that is active. *)
LEMMA ActiveCorrect == Spec => []HandlersAreActive
  BY InitTypeOK, NextTypeOK, InitRest, NextActive, PTL DEF Spec

(* As long as no stale save puts back a blocking status, a video that is     *)
(* blocked when everything has come to rest without a failure has no segment *)
(* left, for any ladder and any number of requests: what a transcode job     *)
(* uploads behind the removal, its second look at the status removes.        *)
THEOREM BlockedVideosAreRemoved ==
  Spec /\ [][OnlyAppliesBlock]_vars => []BlockedLeavesNoSegments
  <1>1. TypeOK /\ HandlersAreActive /\ BlockedInv => BlockedLeavesNoSegments
    <2> SUFFICES ASSUME TypeOK, HandlersAreActive, BlockedInv, faults = 0, AtRest,
                        isBlockedStatus(row.moderationStatus), NEW r \in s3.segments
                 PROVE  FALSE
      BY DEF BlockedLeavesNoSegments, TypeOK, Objects
    <2>1. \A j \in Jobs : pc[j] = "idle"
      BY DEF AtRest, HandlersAreActive
    <2>2. pc[Transcode(r)] = "idle"
      BY <2>1, JobKinds, JobsAreDistinct DEF TypeOK, Objects
    <2>3. \A p \in Deciders : pc[p] # "remove_hls"
      BY <2>1, JobsAreDistinct DEF AtRest, Started, Deciders
    <2> QED
      BY <2>2, <2>3 DEF BlockedInv
  <1> QED
    BY <1>1, InitTypeOK, NextTypeOK, InitRest, NextActive, NextBlocked, PTL DEF Spec

-----------------------------------------------------------------------------
(* The one way through the pipeline of a video that is never blocked.        *)

(* Failures and decisions are never taken back: what is calm was calm. *)
LEMMA CalmBefore == TypeOK /\ Next /\ Calm' => Calm
  <1> SUFFICES ASSUME TypeOK, Next, Calm' PROVE Calm
    OBVIOUS
  <1>1. ~Failure
    <2>1. Failure => faults' = faults + 1
      BY DEF Failure, VideoApiFails, AdminFails, AnalyzeFails, TranscodeFails, FinalizeFails,
         ModerateFails, WorkerCrash, ApiCrash, Faulty, Restart
    <2> QED
      BY <2>1, BoundsAssumption DEF Calm, TypeOK
  <1>2. CASE PutSource
    BY <1>2 DEF PutSource, Calm, NeverBlocked, db, budget
  <1>3. CASE BullMQ
    BY <1>3 DEF BullMQ, Take, Complete, Retry, Fail, Calm, NeverBlocked, db, budget
  <1>4. CASE Api \/ Worker
    <2>1. faults' = faults
      BY <1>4, ApiMoves, WorkerMoves
    <2>2. ASSUME NEW p, NEW next, apply(p, next) PROVE history \subseteq history'
      BY <2>2 DEF apply, ApplyHistory, ApplyRow, RemoveHls, RemoveThumbnails, db
    <2>3. ASSUME NEW j, NEW whenNone, NEW next, publish(j, whenNone, next)
          PROVE  history \subseteq history'
      BY <2>3 DEF publish, PublishFind, PublishPut, PublishUpdate, db
    <2>4. ASSUME NEW c \in Completes, completeUpload(c) PROVE history \subseteq history'
      BY <2>4 DEF completeUpload, CompleteRead, CompleteHead, CompleteSave, CompleteAdd, db
    <2>5. ASSUME NEW e \in Edits, updateDetails(e) PROVE history \subseteq history'
      BY <2>5 DEF updateDetails, EditRead, EditCustom, EditVariants, EditSaveVariants, EditSave,
         EditAdd, db
    <2>6. ASSUME NEW p \in Admins, admin(p) PROVE history \subseteq history'
      BY <2>2, <2>6 DEF admin, AdminFind, ReprocessRenditions, ReprocessRow, ReprocessAdd, db
    <2>7. ASSUME NEW j \in AnalyzeJobs, analyze(j) PROVE history \subseteq history'
      BY <2>7 DEF analyze, AnalyzeStart, AnalyzeNoSource, AnalyzeFrames, AnalyzeCandidates,
         AnalyzeFindRendition, AnalyzeSaveRendition, AnalyzeTranscoding, AnalyzeFlow,
         AnalyzeModeration, AnalyzeCatch, UpdateRow, db
    <2>8. ASSUME NEW r \in Rungs, transcode(r) PROVE history \subseteq history'
      BY <2>3, <2>8 DEF transcode, TranscodeFindVideo, TranscodeFindRendition, TranscodeEncoding,
         TranscodeUpload, TranscodeReady, TranscodeRecheck, TranscodeCleanup, TranscodeCatch, db
    <2>9. ASSUME finalize PROVE history \subseteq history'
      BY <2>3, <2>9 DEF finalize, FinalizeFindVideo, FinalizeNoRendition, FinalizeSheets,
         FinalizeStoryboard, db
    <2>10. ASSUME NEW j \in ModerateJobs, moderate(j) PROVE history \subseteq history'
      BY <2>2, <2>10 DEF moderate, ModerateFindVideo, ModerateFinish, FinishWith, db
    <2>11. history \subseteq history'
      BY <1>4, <2>4, <2>5, <2>6, <2>7, <2>8, <2>9, <2>10 DEF Api, Worker
    <2> QED
      BY <2>1, <2>11, HistoryGrows DEF Calm
  <1> QED
    BY <1>1, <1>2, <1>3, <1>4 DEF Next

FlowJobs == PublishJobs \cup {AnalyzeUpload}

(* A step that leaves the status of the row alone, and is not an edit's.     *)
LEMMA StaysReady ==
  ASSUME TypeOK, NEW p \in Processes, p \notin Edits, NEW label, Goto(p, label),
         row.status = "ready" => row'.status = "ready", ReadyOrEdited
  PROVE  ReadyOrEdited'
  <1>1. \A e \in Edits : pc'[e] = pc[e]
    BY JobsAreDistinct DEF Goto, TypeOK
  <1> QED
    BY <1>1 DEF ReadyOrEdited

(* A step that does not touch what the phases are about. *)
LEMMA SamePhase ==
  ASSUME OnceThrough,
         UNCHANGED <<rend, waitFor>>,
         s3'.master = s3.master, s3.source = "full" => s3'.source = "full",
         \A j \in FlowJobs : jobs'[j].state = jobs[j].state /\ pc'[j] = pc[j],
         ladder'[AnalyzeUpload] = ladder[AnalyzeUpload], ready'[Finalize] = ready[Finalize],
         \A c \in Completes : pc'[c] = "done" <=> pc[c] = "done",
         Unpublished => row'.status # "ready" /\ \A p \in Savers : snap'[p].status # "ready",
         AfterFlow /\ ReadyOrEdited => ReadyOrEdited'
  PROVE  OnceThrough'
  <1>1. /\ AnalyzeUpload \in FlowJobs /\ Finalize \in FlowJobs /\ PublishJobs \subseteq FlowJobs
        /\ \A r \in Rungs : Transcode(r) \in FlowJobs
    BY JobKinds DEF FlowJobs
  <1>2. Unpublished => Unpublished'
    BY <1>1 DEF Unpublished
  <1>3. BeforeUpload => BeforeUpload'
    BY <1>1, <1>2 DEF BeforeUpload
  <1>4. BeforeFlow => BeforeFlow'
    BY <1>1, <1>2 DEF BeforeFlow
  <1>5. AfterFlow => AfterFlow'
    <2>1. ASSUME NEW r \in Rungs, RungInFlow(r) PROVE RungInFlow(r)'
      BY <1>1, <2>1 DEF RungInFlow
    <2>2. AfterFlow => FinalizeInFlow'
      BY <1>1 DEF AfterFlow, FinalizeInFlow
    <2> QED
      BY <1>1, <2>1, <2>2 DEF AfterFlow
  <1> QED
    BY <1>3, <1>4, <1>5 DEF OnceThrough

(* An edit, an admin or a moderation job goes on. *)
LEMMA OthersKeepFlow ==
  ASSUME TypeOK, FlowInv, Calm, NEW p \in Processes, NEW label, Goto(p, label),
         p \notin FlowJobs, p \notin Completes,
         label \notin {"reprocess", "reprocess_row", "reprocess_add"},
         UNCHANGED <<rend, waitFor, ladder, ready>>,
         s3'.master = s3.master, s3.source = "full" => s3'.source = "full",
         \A j \in FlowJobs \cup AnalyzeJobs : jobs'[j] = jobs[j],
         \A a \in Admins : decision'[a].wasBlocked => decision[a].wasBlocked,
         Unpublished => row'.status # "ready" /\ \A q \in Savers : snap'[q].status # "ready",
         ReadyOrEdited => ReadyOrEdited'
  PROVE  FlowInv'
  <1>1. \A q \in Processes : pc'[q] = IF q = p THEN label ELSE pc[q]
    BY DEF Goto, TypeOK
  <1>2. /\ FlowJobs \subseteq Processes /\ Completes \subseteq Processes /\ Admins \subseteq Processes
        /\ \A a \in Approvals : AnalyzeAgain(a) \in AnalyzeJobs
    BY JobsAreDistinct DEF FlowJobs, AnalyzeJobs
  <1>3. OnceThrough'
    BY <1>1, <1>2, SamePhase DEF FlowInv
  <1>4. NoReprocess'
    BY <1>1, <1>2 DEF FlowInv, NoReprocess
  <1>5. \A c \in Completes : pc'[c] \in {"save", "add"} => s3'.source = "full"
    BY <1>1, <1>2 DEF FlowInv
  <1> QED
    BY <1>3, <1>4, <1>5 DEF FlowInv

(* An edit leaves the way through the pipeline alone. *)
LEMMA EditFlow ==
  ASSUME TypeOK, FlowInv, Calm, NEW e \in Edits, updateDetails(e)
  PROVE  FlowInv'
  <1>1. /\ e \in Processes /\ e \notin FlowJobs /\ e \notin Completes /\ e \in Savers
        /\ \A j \in FlowJobs \cup AnalyzeJobs : j \in Jobs /\ j # ModerateText(e)
    BY JobsAreDistinct, RequestsAssumption DEF FlowJobs, Savers, ModerateJobs
  <1>2. \E label : Goto(e, label) /\ label \notin {"reprocess", "reprocess_row", "reprocess_add"}
    BY DEF updateDetails, EditRead, EditCustom, EditVariants, EditSaveVariants, EditSave, EditAdd,
       Ends
  <1>3. UNCHANGED <<rend, waitFor, ladder, ready, decision>>
    BY DEF updateDetails, EditRead, EditCustom, EditVariants, EditSaveVariants, EditSave, EditAdd,
       db, queues, locals
  <1>4. s3'.master = s3.master /\ s3'.source = s3.source
    BY DEF updateDetails, EditRead, EditCustom, EditVariants, PutVariants, EditSaveVariants,
       EditSave, EditAdd, TypeOK, Objects
  <1>5. \A j \in FlowJobs \cup AnalyzeJobs : jobs'[j] = jobs[j]
    <2>1. CASE EditAdd(e)
      BY <1>1, <2>1, AddKeepsActive DEF EditAdd
    <2>2. CASE ~EditAdd(e)
      BY <2>2 DEF updateDetails, EditRead, EditCustom, EditVariants, EditSaveVariants, EditSave,
         queues
    <2> QED
      BY <2>1, <2>2
  <1>6. Unpublished => row'.status # "ready" /\ \A q \in Savers : snap'[q].status # "ready"
    <2> SUFFICES ASSUME row.status # "ready", \A q \in Savers : snap[q].status # "ready"
                 PROVE  row'.status # "ready" /\ \A q \in Savers : snap'[q].status # "ready"
      BY DEF Unpublished
    <2>1. NewRow.status # "ready" /\ [row EXCEPT !.thumbnailKey = "frame"].status = row.status
      BY DEF NewRow, TypeOK, VideoRow
    <2>2. CASE EditRead(e)
      BY <1>1, <2>1, <2>2 DEF EditRead, Ends, TypeOK, db
    <2>3. CASE EditCustom(e)
      BY <1>1, <2>1, <2>3 DEF EditCustom, Ends, TypeOK, VideoRow, db
    <2>4. CASE EditVariants(e)
      BY <1>1, <2>1, <2>4 DEF EditVariants, Ends, TypeOK, VideoRow, db
    <2>5. CASE EditSaveVariants(e) \/ EditSave(e)
      BY <1>1, <2>5 DEF EditSaveVariants, EditSave, TypeOK, VideoRow, locals
    <2>6. CASE EditAdd(e)
      BY <1>1, <2>1, <2>6 DEF EditAdd, Ends, TypeOK, db
    <2> QED
      BY <2>2, <2>3, <2>4, <2>5, <2>6 DEF updateDetails
  <1>7. ReadyOrEdited => ReadyOrEdited'
    <2>1. Edits \subseteq Processes
      BY JobsAreDistinct
    <2>2. CASE EditRead(e) \/ EditCustom(e) \/ EditVariants(e) \/ EditAdd(e)
      <3>1. row' = row
        BY <2>2 DEF EditRead, EditCustom, EditVariants, EditAdd, db
      <3>2. PICK label : Goto(e, label)
        BY <1>2
      <3>3. \A d \in Edits : pc'[d] = IF d = e THEN label ELSE pc[d]
        BY <2>1, <3>2 DEF Goto, TypeOK
      <3>4. pc[e] \in {"save", "add", "done"} => label = "done"
        BY <1>1, <2>2, <3>3 DEF EditRead, EditCustom, EditVariants, EditAdd, Ends, Goto, TypeOK
      <3> QED
        BY <3>1, <3>3, <3>4 DEF ReadyOrEdited
    <2>3. CASE EditSaveVariants(e) \/ EditSave(e)
      <3>1. pc'[e] \in {"save", "add", "done"}
        BY <1>1, <2>3 DEF EditSaveVariants, EditSave, Goto, TypeOK
      <3> QED
        BY <3>1 DEF ReadyOrEdited
    <2> QED
      BY <2>2, <2>3 DEF updateDetails
  <1> QED
    BY <1>1, <1>2, <1>3, <1>4, <1>5, <1>6, <1>7, OthersKeepFlow

(* Applying a decision to a video that is never blocked. *)
LEMMA ApplyFlow ==
  ASSUME TypeOK, MediaInv, FlowInv, Calm, NEW p \in Deciders, p \notin FlowJobs,
         NEW next, next \notin {"reprocess", "reprocess_row", "reprocess_add"}, apply(p, next)
  PROVE  FlowInv'
  <1>1. p \in Processes /\ p \notin Completes /\ p \notin Edits
    BY JobsAreDistinct, RequestsAssumption DEF Deciders
  <1>2. StepIsCovered(p, pc[p])
    BY <1>1 DEF MediaInv, Calm
  <1>3. ~RemoveHls(p) /\ ~RemoveThumbnails(p, next)
    BY <1>2 DEF StepIsCovered, RemoveHls, RemoveThumbnails
  <1>4. CASE ApplyHistory(p)
    <2>1. UNCHANGED <<row, rend, s3, jobs, waitFor, snap, ready, decision, ladder>>
          /\ Goto(p, "apply_row")
      BY <1>4 DEF ApplyHistory, queues, locals
    <2> QED
      BY <1>1, <2>1, OthersKeepFlow, StaysReady DEF Unpublished
  <1>5. CASE ApplyRow(p, next)
    <2>1. UNCHANGED <<rend, s3, jobs, waitFor, snap, ready, decision, ladder>>
          /\ \E label \in {"remove_hls", next} : Goto(p, label)
      BY <1>5 DEF ApplyRow, queues, locals
    <2>2. row'.status = row.status
      BY <1>5 DEF ApplyRow, TypeOK, VideoRow
    <2> QED
      BY <1>1, <2>1, <2>2, OthersKeepFlow, StaysReady DEF Unpublished
  <1> QED
    BY <1>3, <1>4, <1>5 DEF apply

(* An admin has nothing to reprocess while no decision blocked the video. *)
LEMMA AdminFlow ==
  ASSUME TypeOK, LedgerInv, MediaInv, FlowInv, Calm, NEW p \in Admins, admin(p)
  PROVE  FlowInv'
  <1>1. /\ p \in Processes /\ p \notin FlowJobs /\ p \notin Completes /\ p \in Deciders
        /\ p \notin Edits
    BY JobsAreDistinct, RequestsAssumption, JobKinds DEF FlowJobs
  <1>2. NoReprocess
    BY DEF FlowInv
  <1>3. CASE AdminFind(p)
    <2>1. UNCHANGED <<row, rend, s3, jobs, waitFor, snap, ready, ladder>> /\ Goto(p, "apply")
      BY <1>3 DEF AdminFind, db, queues
    <2>2. ~isBlockedStatus(row.moderationStatus)
      BY BlockedIsRecorded DEF Calm
    <2>3. \A a \in Admins : decision'[a].wasBlocked => decision[a].wasBlocked
      BY <1>1, <1>3, <2>2, JobKinds DEF AdminFind, TypeOK
    <2> QED
      BY <1>1, <2>1, <2>3, OthersKeepFlow, StaysReady DEF Unpublished
  <1>4. CASE apply(p, AfterApply(p))
    <2>1. AfterApply(p) = "done"
      BY <1>2 DEF NoReprocess, AfterApply
    <2> QED
      BY <1>1, <1>4, <2>1, ApplyFlow
  <1>5. ~ReprocessRenditions(p) /\ ~ReprocessRow(p) /\ ~ReprocessAdd(p)
    BY <1>2 DEF NoReprocess, ReprocessRenditions, ReprocessRow, ReprocessAdd
  <1> QED
    BY <1>3, <1>4, <1>5 DEF admin

(* A moderation job leaves the way through the pipeline alone. *)
LEMMA ModerateFlow ==
  ASSUME TypeOK, MediaInv, FlowInv, Calm, NEW j \in ModerateJobs, moderate(j)
  PROVE  FlowInv'
  <1>1. /\ j \in Processes /\ j \notin FlowJobs /\ j \notin Completes /\ j \in Deciders
        /\ j \notin Admins /\ j \notin Edits
    BY JobsAreDistinct, JobKinds DEF FlowJobs
  <1>2. CASE ModerateFindVideo(j)
    <2>1. UNCHANGED <<row, rend, s3, jobs, waitFor, snap, ready, decision, ladder>>
          /\ \E label \in {"return", "finish"} : Goto(j, label)
      BY <1>2 DEF ModerateFindVideo, db, queues, locals
    <2> QED
      BY <1>1, <2>1, OthersKeepFlow, StaysReady DEF Unpublished
  <1>3. CASE ModerateFinish(j)
    <2>1. UNCHANGED <<row, rend, s3, jobs, waitFor, snap, ready, ladder>> /\ Goto(j, "apply")
      BY <1>3 DEF ModerateFinish, FinishWith, db, queues
    <2>2. \A a \in Admins : decision'[a] = decision[a]
      BY <1>1, <1>3, JobKinds DEF ModerateFinish, FinishWith, TypeOK
    <2> QED
      BY <1>1, <2>1, <2>2, OthersKeepFlow, StaysReady DEF Unpublished
  <1>4. CASE apply(j, "return")
    BY <1>1, <1>4, ApplyFlow
  <1> QED
    BY <1>2, <1>3, <1>4 DEF moderate

SingleUpload == \A c, d \in Completes : c = d

(* The one complete request adds the one job that the pipeline starts with. *)
LEMMA CompleteFlow ==
  ASSUME TypeOK, HandlersAreActive, FlowInv, Calm, SingleUpload, NEW c \in Completes,
         completeUpload(c)
  PROVE  FlowInv'
  <1>1. /\ c \in Processes /\ c \in Savers /\ c \notin FlowJobs /\ c \notin Jobs /\ c \notin Admins
        /\ FlowJobs \subseteq Jobs /\ FlowJobs \subseteq Processes /\ Completes \subseteq Processes
        /\ Admins \subseteq Processes
        /\ \A a \in Approvals : AnalyzeAgain(a) \in Jobs /\ AnalyzeAgain(a) # AnalyzeUpload
    BY JobsAreDistinct, RequestsAssumption DEF FlowJobs, Savers, AnalyzeJobs
  <1>2. PICK label \in {"head", "refused", "save", "add", "done"} :
          Goto(c, label) /\ (label = "done" <=> CompleteAdd(c)) /\ pc[c] # "done"
    BY DEF completeUpload, CompleteRead, CompleteHead, CompleteSave, CompleteAdd, Ends
  <1>3. \A q \in Processes : pc'[q] = IF q = c THEN label ELSE pc[q]
    BY <1>2 DEF Goto, TypeOK
  <1>4. UNCHANGED <<rend, waitFor, ladder, ready, decision, s3>>
    BY DEF completeUpload, CompleteRead, CompleteHead, CompleteSave, CompleteAdd, db, queues, locals
  <1>5. \A j \in Jobs : j # AnalyzeUpload => jobs'[j] = jobs[j]
    BY AddKeepsActive DEF completeUpload, CompleteRead, CompleteHead, CompleteSave, CompleteAdd,
       queues
  <1>6. NoReprocess'
    BY <1>1, <1>3, <1>4, <1>5 DEF FlowInv, NoReprocess
  <1>7. \A d \in Completes : pc'[d] \in {"save", "add"} => s3'.source = "full"
    <2>1. CASE CompleteHead(c)
      BY <1>1, <1>3, <1>4, <2>1 DEF CompleteHead, Ends, Goto, FlowInv, TypeOK
    <2>2. CASE CompleteRead(c)
      BY <1>1, <1>3, <1>4, <2>2 DEF CompleteRead, Ends, Goto, FlowInv, TypeOK
    <2>3. CASE CompleteSave(c) \/ CompleteAdd(c)
      BY <1>1, <1>3, <1>4, <2>3 DEF CompleteSave, CompleteAdd, FlowInv
    <2> QED
      BY <2>1, <2>2, <2>3 DEF completeUpload
  <1>8. Unpublished => row'.status # "ready" /\ \A q \in Savers : snap'[q].status # "ready"
    <2> SUFFICES ASSUME row.status # "ready", \A q \in Savers : snap[q].status # "ready"
                 PROVE  row'.status # "ready" /\ \A q \in Savers : snap'[q].status # "ready"
      BY DEF Unpublished
    <2>1. NewRow.status # "ready"
      BY DEF NewRow
    <2>2. CASE CompleteRead(c) \/ CompleteHead(c) \/ CompleteAdd(c)
      BY <1>1, <2>1, <2>2 DEF CompleteRead, CompleteHead, CompleteAdd, Ends, TypeOK, db
    <2>3. CASE CompleteSave(c)
      BY <1>1, <2>3 DEF CompleteSave, TypeOK, VideoRow, locals
    <2> QED
      BY <2>2, <2>3 DEF completeUpload
  <1>9. OnceThrough'
    <2>1. CASE CompleteAdd(c)
      <3>1. BeforeUpload /\ s3.source = "full"
        BY <1>2, <2>1 DEF FlowInv, OnceThrough, CompleteAdd
      <3>2. Unpublished'
        <4>1. \A j \in PublishJobs : jobs'[j] = jobs[j]
          BY <1>5, JobsAreDistinct
        <4>2. pc'[AnalyzeUpload] = pc[AnalyzeUpload]
          BY <1>1, <1>3 DEF FlowJobs
        <4> QED
          BY <1>4, <1>8, <3>1, <4>1, <4>2 DEF BeforeUpload, Unpublished
      <3>3. jobs'[AnalyzeUpload].state = "waiting"
        BY <1>1, <2>1, <3>1, AddKeepsActive DEF CompleteAdd, BeforeUpload, FlowJobs
      <3>4. pc'[AnalyzeUpload] = "idle"
        BY <1>1, <1>3, <3>1 DEF BeforeUpload, HandlersAreActive, FlowJobs
      <3>5. \A d \in Completes : pc'[d] = "done"
        BY <1>1, <1>2, <1>3, <2>1 DEF SingleUpload
      <3>6. BeforeFlow'
        BY <3>2, <3>3, <3>4 DEF BeforeFlow
      <3> QED
        BY <1>4, <3>1, <3>5, <3>6 DEF OnceThrough
    <2>2. CASE ~CompleteAdd(c)
      <3>1. jobs' = jobs
        BY <2>2 DEF completeUpload, CompleteRead, CompleteHead, CompleteSave, queues
      <3>2. \A d \in Completes : pc'[d] = "done" <=> pc[d] = "done"
        BY <1>1, <1>2, <1>3, <2>2
      <3>3. \A j \in FlowJobs : pc'[j] = pc[j]
        BY <1>1, <1>3
      <3>4. ~AfterFlow
        <4>1. BeforeUpload
          BY <1>2 DEF FlowInv, OnceThrough
        <4>2. 1 \in Rungs
          BY RungsAssumption DEF Rungs
        <4> QED
          BY <4>1, <4>2, JobKinds DEF BeforeUpload, Unpublished, AfterFlow, RungInFlow
      <3> QED
        BY <1>4, <1>8, <3>1, <3>2, <3>3, <3>4, SamePhase DEF FlowInv
    <2> QED
      BY <2>1, <2>2
  <1> QED
    BY <1>6, <1>7, <1>9 DEF FlowInv

(* A job of the pipeline goes on. *)
LEMMA JobsKeepFlow ==
  ASSUME TypeOK, FlowInv, Calm, NEW j \in FlowJobs, NEW label, Goto(j, label),
         label \notin {"reprocess", "reprocess_row", "reprocess_add"},
         UNCHANGED <<decision>>, s3'.source = s3.source,
         \A a \in Approvals : jobs'[AnalyzeAgain(a)] = jobs[AnalyzeAgain(a)],
         ~BeforeUpload, BeforeFlow' \/ AfterFlow'
  PROVE  FlowInv'
  <1>1. \A q \in Processes : pc'[q] = IF q = j THEN label ELSE pc[q]
    BY DEF Goto, TypeOK
  <1>2. /\ j \notin Requests /\ Completes \subseteq Processes /\ Admins \subseteq Processes
        /\ j \notin Completes /\ j \notin Admins
    BY JobsAreDistinct DEF FlowJobs
  <1>3. NoReprocess'
    BY <1>1, <1>2 DEF FlowInv, NoReprocess
  <1>4. OnceThrough'
    BY <1>1, <1>2 DEF FlowInv, OnceThrough
  <1>5. \A c \in Completes : pc'[c] \in {"save", "add"} => s3'.source = "full"
    BY <1>1, <1>2 DEF FlowInv
  <1> QED
    BY <1>3, <1>4, <1>5 DEF FlowInv

(* The analyze job resets renditions before the flow is added only. *)
LEMMA AnalyzeFlowInv ==
  ASSUME TypeOK, HandlersAreActive, FlowInv, Calm, NEW j \in AnalyzeJobs, analyze(j)
  PROVE  FlowInv'
  <1>1. /\ AnalyzeUpload \in FlowJobs /\ AnalyzeUpload \in Jobs /\ AnalyzeUpload \in AnalyzeJobs
        /\ AnalyzeUpload \in Processes /\ AnalyzeUpload \notin PublishJobs
        /\ Finalize \in PublishJobs /\ PublishJobs \subseteq Processes /\ PublishJobs \subseteq Jobs
        /\ \A r \in Rungs : Transcode(r) \in PublishJobs
        /\ \A a \in Approvals : /\ AnalyzeAgain(a) \in Jobs
                                /\ AnalyzeAgain(a) \in AnalyzeJobs
                                /\ AnalyzeAgain(a) \notin PublishJobs \cup ModerateJobs
        /\ AnalyzeUpload # ModerateVideo /\ ModerateVideo \notin PublishJobs
    BY JobsAreDistinct, JobKinds DEF FlowJobs, AnalyzeJobs, ModerateJobs
  <1>2. pc[j] \notin {"idle", "return", "throw"}
    BY DEF analyze, AnalyzeStart, AnalyzeNoSource, AnalyzeFrames, AnalyzeCandidates,
       AnalyzeFindRendition, AnalyzeSaveRendition, AnalyzeTranscoding, AnalyzeFlow,
       AnalyzeModeration, AnalyzeCatch
  <1>3. j = AnalyzeUpload
    <2>1. jobs[j].state = "active"
      BY <1>2, JobsAreDistinct DEF HandlersAreActive
    <2> QED
      BY <2>1 DEF FlowInv, NoReprocess, AnalyzeJobs
  <1>4. ~BeforeUpload /\ s3.source = "full" /\ (BeforeFlow \/ AfterFlow)
    BY <1>1, <1>2, <1>3 DEF HandlersAreActive, BeforeUpload, FlowInv, OnceThrough
  <1>5. \A i \in PublishJobs : pc'[i] = pc[i]
    BY <1>1, <1>3 DEF analyze, AnalyzeStart, AnalyzeNoSource, AnalyzeFrames, AnalyzeCandidates,
       AnalyzeFindRendition, AnalyzeSaveRendition, AnalyzeTranscoding, AnalyzeFlow,
       AnalyzeModeration, AnalyzeCatch, UpdateRow, Goto, TypeOK
  <1>6. ladder[j] \in Ladder
    BY DEF TypeOK
  <1>7. ASSUME NEW label, Goto(j, label),
               label \in {"frames", "candidates", "find_rendition", "save_rendition",
                          "transcoding", "flow"},
               UNCHANGED <<jobs, waitFor, snap, decision>>, s3'.source = s3.source,
               row'.status # "ready", BeforeFlow,
               \A r \in Rungs : rend'[r] \in {"none", "pending"},
               ladder'[j].found # "ready",
               label \in {"frames", "candidates"} => ladder'[j] = FirstRung,
               label \in {"find_rendition", "save_rendition"} =>
                 \A r \in Rungs : r < ladder'[j].rung => rend'[r] = "pending",
               label \in {"transcoding", "flow"} => \A r \in Rungs : rend'[r] = "pending"
        PROVE  FlowInv'
    <2>1. pc'[AnalyzeUpload] = label
      BY <1>1, <1>3, <1>7 DEF Goto, TypeOK
    <2>2. Unpublished'
      BY <1>3, <1>7, <2>1 DEF BeforeFlow, Unpublished
    <2>3. BeforeFlow'
      BY <1>3, <1>7, <2>1, <2>2 DEF BeforeFlow
    <2> QED
      BY <1>1, <1>3, <1>4, <1>7, <2>3, JobsKeepFlow
  <1>8. CASE AnalyzeStart(j)
    <2>1. BeforeFlow
      BY <1>3, <1>4, <1>8 DEF AnalyzeStart, AfterFlow
    <2>2. UNCHANGED <<rend, s3, jobs, waitFor, snap, decision, ladder>> /\ Goto(j, "frames")
          /\ row'.status # "ready"
      BY <1>8 DEF AnalyzeStart, UpdateRow, queues, locals, TypeOK, VideoRow
    <2>3. ladder[j] = FirstRung /\ ladder[j].found # "ready"
          /\ \A r \in Rungs : rend[r] \in {"none", "pending"}
      BY <1>3, <1>8, <2>1 DEF AnalyzeStart, BeforeFlow, Unpublished
    <2> QED
      BY <1>7, <2>1, <2>2, <2>3
  <1>9. CASE AnalyzeNoSource(j)
    BY <1>4, <1>9 DEF AnalyzeNoSource
  <1>10. CASE AnalyzeFrames(j)
    <2>1. BeforeFlow
      BY <1>3, <1>4, <1>10 DEF AnalyzeFrames, AfterFlow
    <2>2. UNCHANGED <<row, rend, jobs, waitFor, snap, decision, ladder>> /\ Goto(j, "candidates")
          /\ s3'.source = s3.source
      BY <1>10 DEF AnalyzeFrames, db, queues, locals, TypeOK, Objects
    <2>3. ladder[j] = FirstRung /\ ladder[j].found # "ready" /\ row.status # "ready"
          /\ \A r \in Rungs : rend[r] \in {"none", "pending"}
      BY <1>3, <1>10, <2>1 DEF AnalyzeFrames, BeforeFlow, Unpublished
    <2> QED
      BY <1>7, <2>1, <2>2, <2>3
  <1>11. CASE AnalyzeCandidates(j)
    <2>1. BeforeFlow
      BY <1>3, <1>4, <1>11 DEF AnalyzeCandidates, AfterFlow
    <2>2. UNCHANGED <<rend, s3, jobs, waitFor, snap, decision, ladder>> /\ Goto(j, "find_rendition")
          /\ row'.status = row.status
      BY <1>11 DEF AnalyzeCandidates, UpdateRow, queues, locals, TypeOK, VideoRow
    <2>3. ladder[j] = FirstRung /\ ladder[j].found # "ready" /\ row.status # "ready"
          /\ \A r \in Rungs : rend[r] \in {"none", "pending"}
      BY <1>3, <1>11, <2>1 DEF AnalyzeCandidates, BeforeFlow, Unpublished
    <2>4. \A r \in Rungs : ~(r < ladder[j].rung)
      BY <2>3 DEF FirstRung, Rungs
    <2> QED
      BY <1>7, <2>1, <2>2, <2>3, <2>4
  <1>12. CASE AnalyzeFindRendition(j)
    <2>1. BeforeFlow
      BY <1>3, <1>4, <1>12 DEF AnalyzeFindRendition, AfterFlow
    <2>2. UNCHANGED <<row, rend, s3, jobs, waitFor, snap, decision>> /\ Goto(j, "save_rendition")
          /\ ladder' = [ladder EXCEPT ![j].found = rend[ladder[j].rung]]
      BY <1>12 DEF AnalyzeFindRendition, db, queues
    <2>3. ladder'[j].found = rend[ladder[j].rung] /\ ladder'[j].rung = ladder[j].rung
          /\ ladder[j].rung \in Rungs
      BY <1>6, <2>2 DEF TypeOK, Ladder
    <2>4. /\ row.status # "ready" /\ \A r \in Rungs : rend[r] \in {"none", "pending"}
          /\ \A r \in Rungs : r < ladder[j].rung => rend[r] = "pending"
      BY <1>3, <1>12, <2>1 DEF AnalyzeFindRendition, BeforeFlow, Unpublished
    <2> QED
      BY <1>7, <2>1, <2>2, <2>3, <2>4
  <1>13. CASE AnalyzeSaveRendition(j)
    <2>1. BeforeFlow
      BY <1>3, <1>4, <1>13 DEF AnalyzeSaveRendition, AfterFlow
    <2> DEFINE rung == ladder[j].rung
    <2>2. UNCHANGED <<row, s3, jobs, waitFor, snap, decision>>
      BY <1>13 DEF AnalyzeSaveRendition, queues
    <2>3. /\ row.status # "ready" /\ \A r \in Rungs : rend[r] \in {"none", "pending"}
          /\ \A r \in Rungs : r < rung => rend[r] = "pending"
          /\ ladder[j].found # "ready" /\ rung \in Rungs
      BY <1>3, <1>6, <1>13, <2>1 DEF AnalyzeSaveRendition, BeforeFlow, Unpublished, Ladder
    <2>4. \A r \in Rungs : rend'[r] = IF r = rung THEN "pending" ELSE rend[r]
      BY <1>13, <2>3 DEF AnalyzeSaveRendition, Ensured, TypeOK
    <2>5. FirstRung.found # "ready"
      BY DEF FirstRung
    <2>6. CASE MoreRungs(rung)
      <3>1. ladder'[j] = [rung |-> rung + 1, found |-> "none"] /\ Goto(j, "find_rendition")
        BY <1>13, <2>6 DEF AnalyzeSaveRendition, TypeOK
      <3>2. \A r \in Rungs : r < rung + 1 => rend'[r] = "pending"
        BY <2>3, <2>4 DEF Rungs
      <3> QED
        BY <1>7, <2>1, <2>2, <2>3, <2>4, <3>1, <3>2
    <2>7. CASE ~MoreRungs(rung)
      <3>1. ladder'[j] = FirstRung /\ Goto(j, "transcoding")
        BY <1>13, <2>7 DEF AnalyzeSaveRendition, TypeOK
      <3>2. \A r \in Rungs : rend'[r] = "pending"
        BY <2>3, <2>4, <2>7, RungsAssumption DEF Rungs, MoreRungs
      <3> QED
        BY <1>7, <2>1, <2>2, <2>3, <2>5, <3>1, <3>2
    <2> QED
      BY <2>6, <2>7
  <1>14. CASE AnalyzeTranscoding(j)
    <2>1. BeforeFlow
      BY <1>3, <1>4, <1>14 DEF AnalyzeTranscoding, AfterFlow
    <2>2. UNCHANGED <<rend, s3, jobs, waitFor, snap, decision, ladder>> /\ Goto(j, "flow")
          /\ row'.status # "ready"
      BY <1>14 DEF AnalyzeTranscoding, UpdateRow, queues, locals, TypeOK, VideoRow
    <2>3. ladder[j].found # "ready" /\ \A r \in Rungs : rend[r] = "pending"
      BY <1>3, <1>14, <2>1 DEF AnalyzeTranscoding, BeforeFlow, Unpublished
    <2> QED
      BY <1>7, <2>1, <2>2, <2>3
  <1>15. CASE AnalyzeFlow(j)
    <2>1. BeforeFlow
      BY <1>3, <1>4, <1>15 DEF AnalyzeFlow, AfterFlow
    <2>2. /\ UNCHANGED <<rend, s3, decision>> /\ Goto(j, "moderation")
          /\ waitFor' = Rungs
      BY <1>3, <1>15 DEF AnalyzeFlow, skipModeration, db, locals
    <2>3. \A i \in Jobs :
            jobs'[i] = IF i \in TranscodeJobs /\ jobs[i].state = "none"
                       THEN [NoJob EXCEPT !.state = "waiting"]
                       ELSE IF i = Finalize /\ jobs[i].state = "none"
                       THEN [NoJob EXCEPT !.state = "waiting-children"]
                       ELSE jobs[i]
      BY <1>15 DEF AnalyzeFlow
    <2>4. /\ \A i \in PublishJobs : jobs[i].state = "none" /\ pc'[i] = "idle"
          /\ \A r \in Rungs : rend[r] = "pending"
      BY <1>1, <1>3, <1>5, <1>15, <2>1
         DEF AnalyzeFlow, BeforeFlow, Unpublished, HandlersAreActive
    <2>5. [NoJob EXCEPT !.state = "waiting"].state = "waiting"
          /\ [NoJob EXCEPT !.state = "waiting-children"].state = "waiting-children"
      BY DEF NoJob
    <2>6. \A r \in Rungs : RungInFlow(r)'
      <3> SUFFICES ASSUME NEW r \in Rungs PROVE RungInFlow(r)'
        OBVIOUS
      <3>1. Transcode(r) \in TranscodeJobs /\ Transcode(r) \in PublishJobs /\ Transcode(r) \in Jobs
        BY <1>1 DEF TranscodeJobs
      <3>2. jobs'[Transcode(r)].state = "waiting" /\ pc'[Transcode(r)] = "idle"
        BY <2>3, <2>4, <2>5, <3>1
      <3> QED
        BY <2>2, <2>4, <3>2 DEF RungInFlow, Publishing
    <2>7. FinalizeInFlow'
      <3>1. Finalize \in PublishJobs /\ Finalize \in Jobs /\ Finalize \notin TranscodeJobs
        BY <1>1, JobsAreDistinct
      <3>2. jobs'[Finalize].state = "waiting-children" /\ pc'[Finalize] = "idle"
        BY <2>3, <2>4, <2>5, <3>1
      <3>3. waitFor' # {}
        BY <2>2, RungsAssumption DEF Rungs
      <3> QED
        BY <3>2, <3>3 DEF FinalizeInFlow
    <2>8. pc'[AnalyzeUpload] = "moderation" /\ jobs'[AnalyzeUpload].state = "active"
      <3>1. jobs[AnalyzeUpload].state = "active"
        BY <1>1, <1>2, <1>3 DEF HandlersAreActive
      <3>2. AnalyzeUpload \notin TranscodeJobs /\ AnalyzeUpload # Finalize
        BY <1>1 DEF PublishJobs
      <3> QED
        BY <1>1, <1>3, <2>2, <2>3, <3>1, <3>2 DEF Goto, TypeOK
    <2>9. AfterFlow'
      BY <2>6, <2>7, <2>8 DEF AfterFlow
    <2>10. \A a \in Approvals : jobs'[AnalyzeAgain(a)] = jobs[AnalyzeAgain(a)]
      BY <1>1, <2>3 DEF PublishJobs
    <2> QED
      BY <1>1, <1>3, <1>4, <2>2, <2>9, <2>10, JobsKeepFlow
  <1>16. CASE AnalyzeModeration(j)
    <2>1. AfterFlow
      BY <1>3, <1>4, <1>16 DEF AnalyzeModeration, BeforeFlow
    <2>2. UNCHANGED <<rend, s3, waitFor, ready, decision>> /\ Goto(j, "return")
          /\ jobs' = Add(ModerateVideo)
      BY <1>16 DEF AnalyzeModeration, db, locals
    <2>3. \A i \in Jobs : i # ModerateVideo => jobs'[i] = jobs[i]
      BY <2>2, AddKeepsActive
    <2>4. \A r \in Rungs : RungInFlow(r)'
      <3> SUFFICES ASSUME NEW r \in Rungs PROVE RungInFlow(r)'
        OBVIOUS
      <3>1. jobs'[Transcode(r)] = jobs[Transcode(r)] /\ pc'[Transcode(r)] = pc[Transcode(r)]
        BY <1>1, <1>5, <2>3
      <3>2. RungInFlow(r)
        BY <2>1 DEF AfterFlow
      <3> QED
        BY <2>2, <3>1, <3>2 DEF RungInFlow
    <2>5. FinalizeInFlow'
      <3>1. jobs'[Finalize] = jobs[Finalize] /\ pc'[Finalize] = pc[Finalize]
        BY <1>1, <1>5, <2>3
      <3>2. ReadyOrEdited => ReadyOrEdited'
        <4>1. row' = row /\ j \in Processes /\ j \notin Edits
          BY <1>16, JobsAreDistinct DEF AnalyzeModeration, db
        <4> QED
          BY <2>2, <4>1, StaysReady
      <3> QED
        BY <2>1, <2>2, <3>1, <3>2 DEF AfterFlow, FinalizeInFlow
    <2>6. pc'[AnalyzeUpload] = "return" /\ jobs'[AnalyzeUpload] = jobs[AnalyzeUpload]
      BY <1>1, <1>3, <2>2, <2>3 DEF Goto, TypeOK
    <2>7. AfterFlow'
      BY <2>1, <2>4, <2>5, <2>6 DEF AfterFlow
    <2>8. \A a \in Approvals : jobs'[AnalyzeAgain(a)] = jobs[AnalyzeAgain(a)]
      BY <1>1, <2>3 DEF ModerateJobs
    <2> QED
      BY <1>1, <1>3, <1>4, <2>2, <2>7, <2>8, JobsKeepFlow
  <1>17. CASE AnalyzeCatch(j)
    BY <1>3, <1>4, <1>17 DEF AnalyzeCatch, BeforeFlow, AfterFlow
  <1> QED
    BY <1>8, <1>9, <1>10, <1>11, <1>12, <1>13, <1>14, <1>15, <1>16, <1>17 DEF analyze

(* A transcode job that runs is one the flow still waits for, and then the   *)
(* finalize job has not begun.                                               *)
LEMMA RungRuns ==
  ASSUME HandlersAreActive, FlowInv, Calm, NEW r \in Rungs, pc[Transcode(r)] # "idle"
  PROVE  /\ AfterFlow /\ ~BeforeUpload /\ r \in waitFor
         /\ pc[Finalize] = "idle" /\ jobs[Finalize].state = "waiting-children"
  <1>1. /\ Transcode(r) \in PublishJobs /\ Transcode(r) \in Jobs /\ Finalize \in Jobs
    BY JobKinds, JobsAreDistinct
  <1>2. jobs[Transcode(r)].state = "active"
    BY <1>1 DEF HandlersAreActive
  <1>3. AfterFlow /\ ~BeforeUpload
    BY <1>1, <1>2 DEF FlowInv, OnceThrough, BeforeUpload, BeforeFlow, Unpublished
  <1>4. r \in waitFor
    BY <1>2, <1>3 DEF AfterFlow, RungInFlow
  <1>5. jobs[Finalize].state = "waiting-children"
    BY <1>3, <1>4 DEF AfterFlow, FinalizeInFlow
  <1> QED
    BY <1>1, <1>3, <1>4, <1>5 DEF HandlersAreActive

(* A transcode job goes on. *)
LEMMA RungKeepsFlow ==
  ASSUME TypeOK, HandlersAreActive, FlowInv, Calm, NEW r \in Rungs,
         NEW label, Goto(Transcode(r), label), pc[Transcode(r)] # "idle",
         label \in {"rendition", "encoding", "upload", "ready", "recheck", "return"}
                     \cup Publishing,
         UNCHANGED <<jobs, waitFor, decision>>, s3'.source = s3.source,
         \A q \in Rungs : q # r => rend'[q] = rend[q],
         rend'[r] # "none",
         label \in {"recheck", "return"} \cup Publishing => rend'[r] = "ready"
  PROVE  FlowInv'
  <1> DEFINE j == Transcode(r)
  <1>1. /\ j \in PublishJobs /\ j \in FlowJobs /\ j \in Jobs /\ j \in Processes
        /\ Finalize \in Processes /\ j # Finalize /\ AnalyzeUpload \in Processes
        /\ j # AnalyzeUpload /\ j \in TranscodeJobs
        /\ \A q \in Rungs : Transcode(q) \in Processes /\ (q # r => Transcode(q) # j)
        /\ \A a \in Approvals : AnalyzeAgain(a) \in Jobs
    BY JobKinds, JobsAreDistinct DEF FlowJobs, TranscodeJobs, AnalyzeJobs
  <1>2. AfterFlow /\ ~BeforeUpload /\ r \in waitFor /\ pc[Finalize] = "idle"
        /\ jobs[Finalize].state = "waiting-children" /\ jobs[j].state = "active"
    BY <1>1, RungRuns DEF HandlersAreActive
  <1>3. \A q \in Processes : pc'[q] = IF q = j THEN label ELSE pc[q]
    BY DEF Goto, TypeOK
  <1>4. \A q \in Rungs : RungInFlow(q)'
    <2> SUFFICES ASSUME NEW q \in Rungs PROVE RungInFlow(q)'
      OBVIOUS
    <2>1. CASE q = r
      BY <1>1, <1>2, <1>3, <2>1 DEF RungInFlow
    <2>2. CASE q # r
      <3>1. pc'[Transcode(q)] = pc[Transcode(q)] /\ RungInFlow(q)
        BY <1>1, <1>2, <1>3, <2>2 DEF AfterFlow
      <3> QED
        BY <2>2, <3>1 DEF RungInFlow
    <2> QED
      BY <2>1, <2>2
  <1>5. FinalizeInFlow'
    <2>1. pc'[Finalize] = "idle" /\ waitFor' # {}
      BY <1>1, <1>2, <1>3
    <2> QED
      BY <1>2, <2>1 DEF FinalizeInFlow
  <1>6. AfterFlow'
    BY <1>1, <1>2, <1>3, <1>4, <1>5 DEF AfterFlow
  <1>7. label \notin {"reprocess", "reprocess_row", "reprocess_add"}
    BY DEF Publishing
  <1> QED
    BY <1>1, <1>2, <1>6, <1>7, JobsKeepFlow

(* A transcode job ends only when its rung is READY. *)
LEMMA TranscodeFlowInv ==
  ASSUME TypeOK, LedgerInv, HandlersAreActive, FlowInv, Calm, NEW r \in Rungs, transcode(r)
  PROVE  FlowInv'
  <1> DEFINE j == Transcode(r)
  <1>1. pc[j] \notin {"idle", "return"}
    BY DEF transcode, TranscodeFindVideo, TranscodeFindRendition, TranscodeEncoding,
       TranscodeUpload, TranscodeReady, TranscodeRecheck, TranscodeCleanup, TranscodeCatch,
       publish, PublishFind, PublishPut, PublishUpdate
  <1>2. RungInFlow(r)
    BY <1>1, RungRuns DEF AfterFlow
  <1>3. ~isBlockedStatus(row.moderationStatus)
    BY BlockedIsRecorded DEF Calm
  <1>4. CASE TranscodeFindVideo(r)
    <2>1. UNCHANGED <<jobs, waitFor, decision, s3, rend>> /\ Goto(j, "rendition")
      BY <1>3, <1>4 DEF TranscodeFindVideo, db, queues, locals
    <2> QED
      BY <1>1, <1>2, <2>1, RungKeepsFlow DEF RungInFlow, Publishing
  <1>5. CASE TranscodeFindRendition(r)
    <2>1. UNCHANGED <<jobs, waitFor, decision, s3, rend>>
          /\ Goto(j, IF rend[r] = "ready" THEN "return" ELSE "encoding")
      BY <1>2, <1>5 DEF TranscodeFindRendition, RungInFlow, db, queues, locals
    <2>2. CASE rend[r] = "ready"
      BY <1>1, <1>2, <2>1, <2>2, RungKeepsFlow
    <2>3. CASE rend[r] # "ready"
      BY <1>1, <1>2, <2>1, <2>3, RungKeepsFlow DEF RungInFlow, Publishing
    <2> QED
      BY <2>2, <2>3
  <1>6. CASE TranscodeEncoding(r)
    <2>1. UNCHANGED <<jobs, waitFor, decision, s3>> /\ Goto(j, "upload")
          /\ \A q \in Rungs : rend'[q] = IF q = r THEN "encoding" ELSE rend[q]
      BY <1>6 DEF TranscodeEncoding, queues, locals, TypeOK
    <2> QED
      BY <1>1, <2>1, RungKeepsFlow DEF Publishing
  <1>7. CASE TranscodeUpload(r)
    <2>1. UNCHANGED <<jobs, waitFor, decision, rend>> /\ Goto(j, "ready")
          /\ s3'.source = s3.source
      BY <1>7 DEF TranscodeUpload, db, queues, locals, TypeOK, Objects
    <2> QED
      BY <1>1, <1>2, <2>1, RungKeepsFlow DEF RungInFlow, Publishing
  <1>8. CASE TranscodeReady(r)
    <2>1. UNCHANGED <<jobs, waitFor, decision, s3>> /\ Goto(j, "recheck")
          /\ \A q \in Rungs : rend'[q] = IF q = r THEN "ready" ELSE rend[q]
      BY <1>8 DEF TranscodeReady, queues, locals, TypeOK
    <2> QED
      BY <1>1, <2>1, RungKeepsFlow
  <1>9. CASE TranscodeRecheck(r)
    <2>1. UNCHANGED <<jobs, waitFor, decision, s3, rend>> /\ Goto(j, "publish")
          /\ rend[r] = "ready"
      BY <1>2, <1>3, <1>9 DEF TranscodeRecheck, AfterEncode, RungInFlow, db, queues, locals
    <2> QED
      BY <1>1, <2>1, RungKeepsFlow DEF Publishing
  <1>10. ~TranscodeCleanup(r) /\ ~TranscodeCatch(r)
    BY <1>2 DEF TranscodeCleanup, TranscodeCatch, RungInFlow, Publishing
  <1>11. CASE publish(j, "return", "return")
    <2>1. UNCHANGED <<jobs, waitFor, decision, rend>> /\ s3'.source = s3.source
          /\ \E label \in {"return", "publish_put", "publish_update"} : Goto(j, label)
      BY <1>11 DEF publish, PublishFind, PublishPut, PublishUpdate, db, queues, locals, TypeOK,
         Objects
    <2>2. rend[r] = "ready"
      BY <1>2, <1>11 DEF publish, PublishFind, PublishPut, PublishUpdate, RungInFlow, Publishing
    <2> QED
      BY <1>1, <2>1, <2>2, RungKeepsFlow DEF Publishing
  <1> QED
    BY <1>4, <1>5, <1>6, <1>7, <1>8, <1>9, <1>10, <1>11 DEF transcode

(* The finalize job runs when every rung is READY and nobody else publishes. *)
LEMMA FinalizeRuns ==
  ASSUME HandlersAreActive, FlowInv, Calm, pc[Finalize] # "idle"
  PROVE  /\ AfterFlow /\ ~BeforeUpload /\ waitFor = {}
         /\ jobs[Finalize].state = "active"
         /\ \A r \in Rungs : rend[r] = "ready" /\ jobs[Transcode(r)].state = "none"
  <1>1. Finalize \in PublishJobs /\ Finalize \in Jobs
    BY JobKinds, JobsAreDistinct
  <1>2. jobs[Finalize].state = "active"
    BY <1>1 DEF HandlersAreActive
  <1>3. AfterFlow /\ ~BeforeUpload
    BY <1>1, <1>2 DEF FlowInv, OnceThrough, BeforeUpload, BeforeFlow, Unpublished
  <1>4. waitFor = {}
    BY <1>2, <1>3 DEF AfterFlow, FinalizeInFlow
  <1> QED
    BY <1>2, <1>3, <1>4 DEF AfterFlow, RungInFlow

(* The finalize job finds every rung READY and lists them all. *)
LEMMA FinalizeFlowInv ==
  ASSUME TypeOK, LedgerInv, HandlersAreActive, FlowInv, Calm, finalize
  PROVE  FlowInv'
  <1>1. /\ Finalize \in PublishJobs /\ Finalize \in FlowJobs /\ Finalize \in Jobs
        /\ Finalize \in Processes /\ AnalyzeUpload \in Processes /\ Finalize # AnalyzeUpload
        /\ Finalize \notin Edits
        /\ \A r \in Rungs : Transcode(r) \in Processes /\ Transcode(r) # Finalize
        /\ \A a \in Approvals : AnalyzeAgain(a) \in Jobs
    BY JobKinds, JobsAreDistinct DEF FlowJobs, TranscodeJobs, AnalyzeJobs
  <1>2. pc[Finalize] \notin {"idle", "return"}
    BY DEF finalize, FinalizeFindVideo, FinalizeNoRendition, FinalizeSheets, FinalizeStoryboard,
       publish, PublishFind, PublishPut, PublishUpdate
  <1>3. /\ AfterFlow /\ ~BeforeUpload /\ waitFor = {} /\ jobs[Finalize].state = "active"
        /\ FinalizeInFlow /\ \A r \in Rungs : rend[r] = "ready"
    BY <1>2, FinalizeRuns DEF AfterFlow
  <1>4. ASSUME NEW label, Goto(Finalize, label),
               label \in {"sheets", "storyboard", "return"} \cup Publishing,
               UNCHANGED <<jobs, waitFor, decision, rend>>, s3'.source = s3.source,
               label = "publish_put" => ready'[Finalize] = Rungs,
               label \in {"publish_update", "sheets", "storyboard", "return"}
                 => s3'.master = Rungs,
               label \in {"sheets", "storyboard", "return"} => ReadyOrEdited'
        PROVE  FlowInv'
    <2>1. \A q \in Processes : pc'[q] = IF q = Finalize THEN label ELSE pc[q]
      BY <1>4 DEF Goto, TypeOK
    <2>2. \A r \in Rungs : RungInFlow(r)'
      <3> SUFFICES ASSUME NEW r \in Rungs PROVE RungInFlow(r)'
        OBVIOUS
      <3>1. RungInFlow(r) /\ pc'[Transcode(r)] = pc[Transcode(r)]
        BY <1>1, <1>3, <2>1 DEF AfterFlow
      <3> QED
        BY <1>4, <3>1 DEF RungInFlow
    <2>3. FinalizeInFlow'
      BY <1>1, <1>3, <1>4, <2>1 DEF FinalizeInFlow
    <2>4. AfterFlow'
      BY <1>1, <1>3, <1>4, <2>1, <2>2, <2>3 DEF AfterFlow
    <2>5. label \notin {"reprocess", "reprocess_row", "reprocess_add"}
      BY <1>4 DEF Publishing
    <2> QED
      BY <1>1, <1>3, <1>4, <2>4, <2>5, JobsKeepFlow
  <1>5. CASE FinalizeFindVideo
    <2>1. ~isBlockedStatus(row.moderationStatus)
      BY BlockedIsRecorded DEF Calm
    <2>2. UNCHANGED <<jobs, waitFor, decision, rend, s3>> /\ Goto(Finalize, "publish")
      BY <1>5, <2>1 DEF FinalizeFindVideo, FinalizeBegins, db, queues, locals
    <2> QED
      BY <1>4, <2>2 DEF Publishing
  <1>6. CASE PublishFind(Finalize, "no_rendition")
    <2> DEFINE found == {r \in Rungs : Publishable(rend[r])}
    <2>1. found = Rungs /\ Rungs # {}
      BY <1>3, RungsAssumption DEF Publishable, Rungs
    <2>2. UNCHANGED <<jobs, waitFor, decision, rend, s3>>
      BY <1>6 DEF PublishFind, db, queues
    <2>3. ready' = [ready EXCEPT ![Finalize] = Rungs] /\ Goto(Finalize, "publish_put")
      BY <1>6, <2>1 DEF PublishFind
    <2>4. ready'[Finalize] = Rungs
      BY <1>1, <2>3 DEF TypeOK
    <2> QED
      BY <1>4, <2>2, <2>3, <2>4 DEF Publishing
  <1>7. CASE PublishPut(Finalize)
    <2>1. UNCHANGED <<jobs, waitFor, decision, rend>> /\ Goto(Finalize, "publish_update")
      BY <1>7 DEF PublishPut, db, queues, locals
    <2>2. s3'.source = s3.source /\ s3'.master = Rungs
      BY <1>3, <1>7 DEF PublishPut, FinalizeInFlow, TypeOK, Objects
    <2> QED
      BY <1>4, <2>1, <2>2 DEF Publishing
  <1>8. CASE PublishUpdate(Finalize, "sheets")
    <2>1. UNCHANGED <<jobs, waitFor, decision, rend, s3>> /\ Goto(Finalize, "sheets")
          /\ s3.master = Rungs
      BY <1>3, <1>8 DEF PublishUpdate, FinalizeInFlow, queues, locals
    <2>2. ReadyOrEdited'
      BY <1>8 DEF PublishUpdate, Playable, ReadyOrEdited, TypeOK, VideoRow
    <2> QED
      BY <1>4, <2>1, <2>2
  <1>9. CASE FinalizeSheets
    <2>1. /\ UNCHANGED <<jobs, waitFor, decision, rend>> /\ s3'.source = s3.source
          /\ s3'.master = s3.master /\ s3.master = Rungs
          /\ \E label \in {"storyboard", "return"} : Goto(Finalize, label)
      BY <1>3, <1>9 DEF FinalizeSheets, FinalizeInFlow, db, queues, locals, TypeOK, Objects
    <2>2. ReadyOrEdited /\ row' = row
      BY <1>3, <1>9 DEF FinalizeSheets, FinalizeInFlow, db
    <2>3. ReadyOrEdited'
      BY <1>1, <2>1, <2>2, StaysReady
    <2> QED
      BY <1>4, <2>1, <2>3
  <1>10. CASE FinalizeStoryboard
    <2>1. UNCHANGED <<jobs, waitFor, decision, rend, s3>> /\ Goto(Finalize, "return")
          /\ s3.master = Rungs
      BY <1>3, <1>10 DEF FinalizeStoryboard, FinalizeInFlow, queues, locals
    <2>2. ReadyOrEdited /\ row'.status = row.status
      BY <1>3, <1>10 DEF FinalizeStoryboard, FinalizeInFlow, TypeOK, VideoRow
    <2>3. ReadyOrEdited'
      BY <1>1, <2>1, <2>2, StaysReady
    <2> QED
      BY <1>4, <2>1, <2>3
  <1>11. ~FinalizeNoRendition
    BY <1>3 DEF FinalizeNoRendition, FinalizeInFlow, Publishing
  <1> QED
    BY <1>5, <1>6, <1>7, <1>8, <1>9, <1>10, <1>11 DEF finalize, publish

(* A handler that is over: its own locals are forgotten, all others stay.    *)
LEMMA ForgetOne ==
  ASSUME TypeOK, NEW j \in Jobs, Forget({j})
  PROVE  /\ Goto(j, "idle") /\ snap' = snap
         /\ j \notin Deciders => decision' = decision
         /\ j \notin PublishJobs => ready' = ready
         /\ j \notin AnalyzeJobs => ladder' = ladder
         /\ \A p \in Deciders : p # j => decision'[p] = decision[p]
         /\ j \in AnalyzeJobs => ladder'[j] = FirstRung
         /\ \A i \in AnalyzeJobs : i # j => ladder'[i] = ladder[i]
  <1>1. pc' = [pc EXCEPT ![j] = "idle"]
    BY JobsAreDistinct DEF Forget, TypeOK
  <1> QED
    BY <1>1 DEF Forget, Goto, TypeOK

(* A job that is removed, and what it releases. *)
LEMMA CompletedJob ==
  ASSUME TypeOK, NEW j \in Jobs, Complete(j)
  PROVE  /\ jobs'[j].state = "none"
         /\ waitFor' = waitFor \ RungOf(j)
         /\ (j # Finalize /\ jobs[Finalize].state = "waiting-children"
                          /\ waitFor \subseteq RungOf(j)) => jobs'[Finalize].state = "waiting"
         /\ (j # Finalize /\ ~(waitFor \subseteq RungOf(j))) => jobs'[Finalize] = jobs[Finalize]
  <1> DEFINE js == [jobs EXCEPT ![j] = NoJob]
  <1>1. /\ DOMAIN js = Jobs /\ js[j] = NoJob /\ \A i \in Jobs : i # j => js[i] = jobs[i]
        /\ jobs' = Released(js, RungOf(j)) /\ waitFor' = waitFor \ RungOf(j)
    BY DEF Complete, Leaves, TypeOK
  <1>2. Finalize \in Jobs /\ jobs[Finalize] \in Job /\ NoJob.state = "none"
    BY JobKinds, JobsAreDistinct DEF TypeOK, NoJob
  <1>3. js \in [Jobs -> {js[i] : i \in Jobs}]
    BY DEF TypeOK
  <1> HIDE DEF js
  <1>4. CASE js[Finalize].state = "waiting-children" /\ waitFor \subseteq RungOf(j)
    <2>1. jobs' = [js EXCEPT ![Finalize].state = "waiting"] /\ j # Finalize
      BY <1>1, <1>2, <1>4 DEF Released
    <2>2. jobs'[Finalize] = [js[Finalize] EXCEPT !.state = "waiting"] /\ jobs'[j] = js[j]
      BY <1>2, <1>3, <2>1
    <2>3. jobs'[Finalize].state = "waiting"
      BY <1>1, <1>2, <2>1, <2>2 DEF Job
    <2> QED
      BY <1>1, <1>2, <1>4, <2>2, <2>3
  <1>5. CASE ~(js[Finalize].state = "waiting-children" /\ waitFor \subseteq RungOf(j))
    <2>1. jobs' = js
      BY <1>1, <1>5 DEF Released
    <2> QED
      BY <1>1, <1>2, <1>5, <2>1
  <1> QED
    BY <1>4, <1>5

(* A worker takes a job that waits. *)
LEMMA TakeFlow ==
  ASSUME TypeOK, HandlersAreActive, FlowInv, Calm, NEW j \in Jobs, Take(j)
  PROVE  FlowInv'
  <1>1. /\ AnalyzeUpload \in FlowJobs /\ AnalyzeUpload \in Processes /\ AnalyzeUpload \in Jobs
        /\ Finalize \in FlowJobs /\ Finalize \in Processes /\ Finalize \in Jobs
        /\ Finalize # AnalyzeUpload
        /\ \A r \in Rungs : /\ Transcode(r) \in FlowJobs /\ Transcode(r) \in Processes
                           /\ Transcode(r) \in Jobs /\ Transcode(r) # Finalize
                           /\ Transcode(r) # AnalyzeUpload
        /\ \A a \in Approvals : AnalyzeAgain(a) \in Jobs /\ AnalyzeAgain(a) \notin FlowJobs
        /\ \A r, q \in Rungs : Transcode(r) = Transcode(q) => r = q
        /\ j \in Processes /\ j \notin Completes /\ j \notin Admins /\ j \notin Edits
        /\ FlowJobs \subseteq Jobs
        /\ FlowJobs \subseteq Processes /\ Completes \subseteq Processes
    BY JobKinds, JobsAreDistinct DEF FlowJobs, TranscodeJobs, AnalyzeJobs
  <1>2. /\ Goto(j, "start") /\ UNCHANGED <<row, rend, s3, waitFor, snap, ready, decision, ladder>>
        /\ jobs[j].state = "waiting" /\ pc[j] = "idle"
    BY DEF Take, HandlersAreActive, db, locals
  <1>3. \A q \in Processes : pc'[q] = IF q = j THEN "start" ELSE pc[q]
    BY <1>2 DEF Goto, TypeOK
  <1>4. jobs'[j].state = "active" /\ \A i \in Jobs : i # j => jobs'[i] = jobs[i]
    BY DEF Take, TypeOK, Job
  <1>5. CASE j \notin FlowJobs
    <2>1. j \notin AnalyzeJobs
      BY <1>2, <1>5 DEF FlowInv, NoReprocess, AnalyzeJobs, FlowJobs
    <2> QED
      BY <1>1, <1>2, <1>4, <1>5, <2>1, OthersKeepFlow, StaysReady, JobsAreDistinct
         DEF Unpublished
  <1>6. CASE j = AnalyzeUpload
    <2>1. BeforeFlow /\ ~BeforeUpload
      BY <1>2, <1>6 DEF FlowInv, OnceThrough, BeforeUpload, AfterFlow
    <2>2. Unpublished'
      <3>1. \A i \in PublishJobs : jobs'[i] = jobs[i]
        BY <1>1, <1>4, <1>6, JobsAreDistinct
      <3> QED
        BY <1>1, <1>2, <1>3, <1>6, <2>1, <3>1 DEF BeforeFlow, Unpublished
    <2>3. BeforeFlow'
      BY <1>1, <1>2, <1>3, <1>4, <1>6, <2>1, <2>2 DEF BeforeFlow
    <2> QED
      BY <1>1, <1>2, <1>4, <1>6, <2>1, <2>3, JobsKeepFlow
  <1>7. CASE j \in PublishJobs
    <2>1. AfterFlow /\ ~BeforeUpload
      BY <1>2, <1>7 DEF FlowInv, OnceThrough, BeforeUpload, BeforeFlow, Unpublished
    <2>2. j # AnalyzeUpload /\ j \in FlowJobs
      BY <1>7, JobsAreDistinct DEF FlowJobs
    <2>3. \A r \in Rungs : RungInFlow(r)'
      <3> SUFFICES ASSUME NEW r \in Rungs PROVE RungInFlow(r)'
        OBVIOUS
      <3>1. RungInFlow(r)
        BY <2>1 DEF AfterFlow
      <3>2. CASE j = Transcode(r)
        <4>1. r \in waitFor
          BY <1>2, <3>1, <3>2 DEF RungInFlow
        <4> QED
          BY <1>1, <1>2, <1>3, <1>4, <3>1, <3>2, <4>1 DEF RungInFlow, Publishing
      <3>3. CASE j # Transcode(r)
        <4>1. pc'[Transcode(r)] = pc[Transcode(r)] /\ jobs'[Transcode(r)] = jobs[Transcode(r)]
          BY <1>1, <1>3, <1>4, <3>3
        <4> QED
          BY <1>2, <3>1, <4>1 DEF RungInFlow
      <3> QED
        BY <3>2, <3>3
    <2>4. FinalizeInFlow'
      <3>1. FinalizeInFlow
        BY <2>1 DEF AfterFlow
      <3>2. CASE j = Finalize
        BY <1>1, <1>2, <1>3, <1>4, <3>1, <3>2 DEF FinalizeInFlow
      <3>3. CASE j # Finalize
        <4>1. pc'[Finalize] = pc[Finalize] /\ jobs'[Finalize] = jobs[Finalize]
          BY <1>1, <1>3, <1>4, <3>3
        <4>2. ReadyOrEdited => ReadyOrEdited'
          BY <1>1, <1>2, StaysReady
        <4> QED
          BY <1>2, <3>1, <4>1, <4>2 DEF FinalizeInFlow
      <3> QED
        BY <3>2, <3>3
    <2>5. AfterFlow'
      <3>1. pc'[AnalyzeUpload] = pc[AnalyzeUpload] /\ jobs'[AnalyzeUpload] = jobs[AnalyzeUpload]
        BY <1>1, <1>3, <1>4, <2>2
      <3> QED
        BY <2>1, <2>3, <2>4, <3>1 DEF AfterFlow
    <2> QED
      BY <1>1, <1>2, <1>4, <2>1, <2>2, <2>5, JobsKeepFlow
  <1> QED
    BY <1>5, <1>6, <1>7 DEF FlowJobs

(* A job of the flow completes; the last transcode job frees the finalize job. *)
LEMMA SettleFlow ==
  ASSUME TypeOK, HandlersAreActive, FlowInv, Calm, NEW j \in Jobs,
         Complete(j) \/ Retry(j) \/ Fail(j)
  PROVE  FlowInv'
  <1>1. /\ AnalyzeUpload \in FlowJobs /\ AnalyzeUpload \in Processes /\ AnalyzeUpload \in Jobs
        /\ Finalize \in FlowJobs /\ Finalize \in Processes /\ Finalize \in Jobs
        /\ Finalize # AnalyzeUpload
        /\ \A r \in Rungs : /\ Transcode(r) \in FlowJobs /\ Transcode(r) \in Processes
                           /\ Transcode(r) \in Jobs /\ Transcode(r) # Finalize
                           /\ Transcode(r) # AnalyzeUpload
        /\ \A a \in Approvals : /\ AnalyzeAgain(a) \in Jobs /\ AnalyzeAgain(a) # Finalize
                                /\ AnalyzeAgain(a) \notin FlowJobs
        /\ \A r, q \in Rungs : Transcode(r) = Transcode(q) => r = q
        /\ j \in Processes /\ j \notin Completes /\ j \notin Admins /\ j \notin Edits
        /\ FlowJobs \subseteq Jobs /\ AnalyzeJobs \subseteq Jobs
        /\ j \in FlowJobs => j \notin Deciders
    BY JobKinds, JobsAreDistinct DEF FlowJobs, TranscodeJobs, AnalyzeJobs, Deciders
  <1>2. /\ Goto(j, "idle") /\ UNCHANGED <<row, rend, s3, snap>>
        /\ j \in FlowJobs => UNCHANGED decision
        /\ pc[j] \in {"return", "throw", "fatal"} /\ jobs[j].state = "active"
    BY <1>1, SettledJobs, ForgetOne DEF HandlersAreActive, db
  <1>3. \A q \in Processes : pc'[q] = IF q = j THEN "idle" ELSE pc[q]
    BY <1>2 DEF Goto, TypeOK
  <1>4. \A i \in Jobs \ {j, Finalize} : jobs'[i] = jobs[i]
    BY SettledJobs
  <1>5. RungOf(j) = {} => /\ waitFor' = waitFor
                          /\ j # Finalize => jobs'[Finalize] = jobs[Finalize]
    <2>1. RungOf(j) = {} => waitFor' = waitFor
      BY DEF Complete, Retry, Fail, Leaves
    <2>2. jobs[Finalize].state = "waiting-children" => waitFor # {}
      BY <1>1, JobKinds DEF FlowInv, OnceThrough, BeforeUpload, BeforeFlow, Unpublished, AfterFlow,
         FinalizeInFlow
    <2> QED
      BY <2>1, <2>2, SettledJobs
  <1>6. j \notin TranscodeJobs => RungOf(j) = {}
    BY DEF RungOf, TranscodeJobs
  <1>7. CASE j \notin FlowJobs
    <2>1. j \notin AnalyzeJobs /\ j \notin PublishJobs /\ j # Finalize
      BY <1>1, <1>2, <1>7 DEF FlowInv, NoReprocess, AnalyzeJobs, FlowJobs
    <2>2. UNCHANGED <<ladder, ready>> /\ \A a \in Admins : decision'[a] = decision[a]
      BY <1>1, <2>1, SettledJobs, ForgetOne, JobKinds
    <2>3. waitFor' = waitFor /\ \A i \in FlowJobs \cup AnalyzeJobs : jobs'[i] = jobs[i]
      BY <1>1, <1>4, <1>5, <1>6, <1>7, <2>1 DEF FlowJobs, PublishJobs
    <2> QED
      BY <1>1, <1>2, <1>7, <2>2, <2>3, OthersKeepFlow, StaysReady DEF Unpublished
  <1>8. ASSUME j \in FlowJobs, AfterFlow, AfterFlow' PROVE FlowInv'
    <2>1. ~BeforeUpload
      <3>1. j # AnalyzeUpload => j \in PublishJobs
        BY <1>8 DEF FlowJobs
      <3> QED
        BY <1>2, <3>1 DEF BeforeUpload, Unpublished
    <2>2. \A a \in Approvals : jobs'[AnalyzeAgain(a)] = jobs[AnalyzeAgain(a)]
      BY <1>1, <1>4, <1>8
    <2> QED
      BY <1>2, <1>8, <2>1, <2>2, JobsKeepFlow
  <1>9. ASSUME NEW r \in Rungs, RungInFlow(r), j # Transcode(r), r \in waitFor' <=> r \in waitFor
        PROVE  RungInFlow(r)'
    <2>1. jobs'[Transcode(r)] = jobs[Transcode(r)] /\ pc'[Transcode(r)] = pc[Transcode(r)]
      BY <1>1, <1>3, <1>4, <1>9
    <2> QED
      BY <1>2, <1>9, <2>1 DEF RungInFlow
  <1>10. CASE j = AnalyzeUpload
    <2>1. AfterFlow /\ Complete(j)
      BY <1>1, <1>2, <1>10 DEF FlowInv, OnceThrough, BeforeUpload, BeforeFlow, AfterFlow,
         Retry, Fail, Rejected
    <2>2. waitFor' = waitFor /\ jobs'[Finalize] = jobs[Finalize] /\ jobs'[j].state = "none"
          /\ ready'[Finalize] = ready[Finalize]
      BY <1>1, <1>5, <1>6, <1>10, <2>1, CompletedJob, SettledJobs, ForgetOne, JobsAreDistinct
         DEF PublishJobs
    <2>3. \A r \in Rungs : RungInFlow(r)'
      BY <1>1, <1>9, <1>10, <2>1, <2>2 DEF AfterFlow
    <2>4. FinalizeInFlow'
      <3>1. ReadyOrEdited => ReadyOrEdited'
        BY <1>1, <1>2, StaysReady
      <3> QED
        BY <1>1, <1>2, <1>3, <1>10, <2>1, <2>2, <3>1 DEF AfterFlow, FinalizeInFlow
    <2>5. AfterFlow'
      BY <1>1, <1>3, <1>10, <2>2, <2>3, <2>4 DEF AfterFlow
    <2> QED
      BY <1>1, <1>8, <1>10, <2>1, <2>5
  <1>11. ASSUME NEW r \in Rungs, j = Transcode(r) PROVE FlowInv'
    <2>1. AfterFlow /\ r \in waitFor /\ jobs[Finalize].state = "waiting-children"
          /\ pc[Finalize] = "idle"
      BY <1>2, <1>11, RungRuns
    <2>2. RungInFlow(r)
      BY <2>1 DEF AfterFlow
    <2>3. rend[r] = "ready" /\ Complete(j)
      BY <1>1, <1>2, <1>11, <2>2 DEF RungInFlow, Publishing, Retry, Fail, Rejected
    <2>4. RungOf(j) = {r}
      BY <1>1, <1>11 DEF RungOf
    <2>5. waitFor' = waitFor \ {r} /\ jobs'[j].state = "none"
      BY <2>3, <2>4, CompletedJob
    <2>6. \A q \in Rungs : RungInFlow(q)'
      <3> SUFFICES ASSUME NEW q \in Rungs PROVE RungInFlow(q)'
        OBVIOUS
      <3>1. CASE q = r
        <4>1. pc'[j] = "idle"
          BY <1>1, <1>3
        <4> QED
          BY <1>2, <1>11, <2>3, <2>5, <3>1, <4>1 DEF RungInFlow, Publishing
      <3>2. CASE q # r
        BY <1>1, <1>9, <1>11, <2>1, <2>5, <3>2 DEF AfterFlow
      <3> QED
        BY <3>1, <3>2
    <2>7. FinalizeInFlow'
      <3>1. pc'[Finalize] = "idle"
        BY <1>1, <1>3, <1>11, <2>1
      <3>2. CASE waitFor \subseteq {r}
        <4>1. waitFor' = {} /\ jobs'[Finalize].state = "waiting"
          BY <1>1, <1>11, <2>1, <2>3, <2>4, <2>5, <3>2, CompletedJob
        <4> QED
          BY <3>1, <4>1 DEF FinalizeInFlow
      <3>3. CASE ~(waitFor \subseteq {r})
        <4>1. waitFor' # {} /\ jobs'[Finalize] = jobs[Finalize]
          BY <1>1, <1>11, <2>3, <2>4, <2>5, <3>3, CompletedJob
        <4> QED
          BY <2>1, <3>1, <4>1 DEF FinalizeInFlow
      <3> QED
        BY <3>2, <3>3
    <2>8. AfterFlow'
      <3>1. pc'[AnalyzeUpload] = pc[AnalyzeUpload] /\ jobs'[AnalyzeUpload] = jobs[AnalyzeUpload]
        BY <1>1, <1>3, <1>4, <1>11
      <3> QED
        BY <2>1, <2>6, <2>7, <3>1 DEF AfterFlow
    <2> QED
      BY <1>1, <1>8, <1>11, <2>1, <2>8
  <1>12. CASE j = Finalize
    <2>1. AfterFlow /\ waitFor = {}
      BY <1>2, <1>12, FinalizeRuns
    <2>2. Complete(j) /\ s3.master = Rungs
      BY <1>2, <1>12, <2>1 DEF AfterFlow, FinalizeInFlow, Publishing, Retry, Fail, Rejected
    <2>3. waitFor' = {} /\ jobs'[Finalize].state = "none" /\ pc'[Finalize] = "idle"
      BY <1>1, <1>3, <1>12, <2>1, <2>2, CompletedJob
    <2>4. \A r \in Rungs : RungInFlow(r)'
      BY <1>1, <1>9, <1>12, <2>1, <2>3 DEF AfterFlow
    <2>5. FinalizeInFlow'
      <3>1. ReadyOrEdited
        BY <1>12, <1>2, <2>1, <2>2 DEF AfterFlow, FinalizeInFlow, Complete
      <3>2. ReadyOrEdited'
        BY <1>1, <1>2, <3>1, StaysReady
      <3> QED
        BY <1>2, <2>2, <2>3, <3>2 DEF FinalizeInFlow
    <2>6. AfterFlow'
      <3>1. pc'[AnalyzeUpload] = pc[AnalyzeUpload] /\ jobs'[AnalyzeUpload] = jobs[AnalyzeUpload]
        BY <1>1, <1>3, <1>4, <1>12
      <3> QED
        BY <2>1, <2>4, <2>5, <3>1 DEF AfterFlow
    <2> QED
      BY <1>1, <1>8, <1>12, <2>1, <2>6
  <1> QED
    BY <1>7, <1>10, <1>11, <1>12 DEF FlowJobs, PublishJobs, TranscodeJobs

(* Every step keeps the video on its one way through the pipeline. *)
LEMMA NextFlow ==
  SingleUpload /\ TypeOK /\ LedgerInv /\ MediaInv /\ HandlersAreActive /\ FlowInv /\ [Next]_vars
    => FlowInv'
  <1> SUFFICES ASSUME SingleUpload, TypeOK, LedgerInv, MediaInv, HandlersAreActive, FlowInv,
                      [Next]_vars, Calm'
               PROVE  FlowInv'
    BY DEF FlowInv
  <1>1. CASE UNCHANGED vars
    BY <1>1 DEF vars, db, queues, locals, budget, FlowInv, Calm, NeverBlocked, NoReprocess,
       OnceThrough, BeforeUpload, BeforeFlow, AfterFlow, Unpublished, RungInFlow, FinalizeInFlow,
       ReadyOrEdited
  <1>2. CASE Next
    <2>1. Calm
      BY <1>2, CalmBefore
    <2>2. CASE PutSource
      <3>1. /\ UNCHANGED <<row, rend, history, jobs, waitFor, pc, snap, ready, decision, ladder>>
            /\ s3'.master = s3.master /\ (s3.source = "full" => s3'.source = "full")
        BY <2>2 DEF PutSource, db, queues, locals, TypeOK, Objects
      <3>2. OnceThrough'
        BY <2>1, <3>1, SamePhase DEF FlowInv, Unpublished, ReadyOrEdited
      <3>3. NoReprocess' /\ \A c \in Completes : pc'[c] \in {"save", "add"} => s3'.source = "full"
        BY <2>1, <3>1 DEF FlowInv, NoReprocess
      <3> QED
        BY <3>2, <3>3 DEF FlowInv
    <2>3. CASE Api
      BY <2>1, <2>3, CompleteFlow, EditFlow, AdminFlow DEF Api
    <2>4. CASE Worker
      BY <2>1, <2>4, AnalyzeFlowInv, TranscodeFlowInv, FinalizeFlowInv, ModerateFlow DEF Worker
    <2>5. CASE BullMQ
      BY <2>1, <2>5, TakeFlow, SettleFlow DEF BullMQ
    <2>6. ~Failure
      <3>1. Failure => faults' = faults + 1
        BY DEF Failure, VideoApiFails, AdminFails, AnalyzeFails, TranscodeFails, FinalizeFails,
           ModerateFails, WorkerCrash, ApiCrash, Faulty, Restart
      <3> QED
        BY <3>1, BoundsAssumption DEF Calm, TypeOK
    <2> QED
      BY <1>2, <2>2, <2>3, <2>4, <2>5, <2>6 DEF Next
  <1> QED
    BY <1>1, <1>2

(* The video has not entered the pipeline yet. *)
LEMMA InitFlow == Init => FlowInv
  <1> SUFFICES ASSUME Init PROVE FlowInv
    OBVIOUS
  <1>1. /\ AnalyzeUpload \in Jobs /\ AnalyzeUpload \in AnalyzeJobs /\ AnalyzeUpload \in Processes
        /\ PublishJobs \subseteq Jobs /\ Completes \subseteq Processes /\ Admins \subseteq Processes
        /\ Admins \subseteq Deciders /\ \A a \in Approvals : AnalyzeAgain(a) \in Jobs
    BY JobsAreDistinct, JobKinds DEF AnalyzeJobs
  <1>2. /\ NewRow.status # "ready" /\ ~NoDecision.wasBlocked /\ NoJob.state = "none"
        /\ FirstRung.found # "ready"
    BY DEF NewRow, NoDecision, NoJob, FirstRung
  <1>3. BeforeUpload
    BY <1>1, <1>2 DEF Init, BeforeUpload, Unpublished
  <1>4. NoReprocess
    BY <1>1, <1>2 DEF Init, NoReprocess
  <1> QED
    BY <1>1, <1>3, <1>4 DEF Init, FlowInv, OnceThrough

(* A video that is completed once and never blocked goes through the         *)
(* pipeline once, and the finalize job publishes when nobody else does.      *)
THEOREM FlowCorrect == SingleUpload => (Spec => []FlowInv)
  <1> SUFFICES ASSUME SingleUpload PROVE Spec => []FlowInv
    OBVIOUS
  <1>1. TypeOK /\ LedgerInv /\ MediaInv /\ HandlersAreActive /\ FlowInv /\ [Next]_vars => FlowInv'
    BY NextFlow
  <1> QED
    BY <1>1, InitTypeOK, NextTypeOK, InitLedger, NextLedger, InitMedia, NextMedia, InitRest,
       NextActive, InitFlow, PTL DEF Spec

(* When everything has come to rest without a failure, the master playlist   *)
(* of a READY video that was never blocked lists all its READY renditions,   *)
(* for any ladder, any number of edits and of admins, if one request         *)
(* completes the upload: with two, the ladder of the second analyze job may  *)
(* reset a rendition that is READY already (VideoAnalyzeProcessor).          *)
THEOREM PlaylistsAreComplete == SingleUpload => (Spec => []PlaylistIsComplete)
  <1>1. TypeOK /\ HandlersAreActive /\ FlowInv => PlaylistIsComplete
    <2> SUFFICES ASSUME TypeOK, HandlersAreActive, FlowInv, Calm, AtRest, row.status = "ready"
                 PROVE  s3.master = {r \in Rungs : rend[r] = "ready"}
      BY DEF PlaylistIsComplete, Calm
    <2>1. /\ AnalyzeUpload \in Jobs /\ Finalize \in Jobs
          /\ \A r \in Rungs : Transcode(r) \in Jobs
      BY JobsAreDistinct, JobKinds
    <2>2. AfterFlow
      BY <2>1 DEF FlowInv, OnceThrough, BeforeUpload, BeforeFlow, Unpublished, AtRest
    <2>3. waitFor = {} /\ \A r \in Rungs : rend[r] = "ready"
      BY <2>1, <2>2 DEF AfterFlow, RungInFlow, AtRest, TypeOK
    <2>4. s3.master = Rungs
      BY <2>1, <2>2, <2>3 DEF AfterFlow, FinalizeInFlow, AtRest
    <2> QED
      BY <2>3, <2>4
  <1>2. SingleUpload => (Spec => []FlowInv)
    BY FlowCorrect
  <1> SUFFICES ASSUME SingleUpload PROVE Spec => []PlaylistIsComplete
    OBVIOUS
  <1>3. Spec => []FlowInv
    BY <1>2
  <1> QED
    BY <1>1, <1>3, TypeCorrect, ActiveCorrect, PTL

(* When everything has come to rest without a failure, an accepted video     *)
(* that was never blocked is READY with its whole ladder in the playlist, if *)
(* no edit has been saved, for any ladder and any number of admins.          *)
THEOREM UploadsSettle == SingleUpload => (Spec => []AcceptedUploadsSettle)
  <1>1. TypeOK /\ HandlersAreActive /\ FlowInv => AcceptedUploadsSettle
    <2> SUFFICES ASSUME TypeOK, HandlersAreActive, FlowInv, Calm, AtRest,
                        \E c \in Completes : pc[c] = "done",
                        \A e \in Edits : pc[e] # "done"
                 PROVE  row.status = "ready" /\ s3.master = Rungs
      BY DEF AcceptedUploadsSettle
    <2>1. /\ AnalyzeUpload \in Jobs /\ Finalize \in Jobs /\ Edits \subseteq Requests
          /\ \A r \in Rungs : Transcode(r) \in Jobs
      BY JobsAreDistinct, JobKinds
    <2>2. AfterFlow
      BY <2>1 DEF FlowInv, OnceThrough, BeforeUpload, BeforeFlow, AtRest
    <2>3. waitFor = {}
      BY <2>1, <2>2 DEF AfterFlow, RungInFlow, AtRest, TypeOK
    <2>4. s3.master = Rungs /\ ReadyOrEdited
      BY <2>1, <2>2, <2>3 DEF AfterFlow, FinalizeInFlow, AtRest
    <2> QED
      BY <2>1, <2>4 DEF ReadyOrEdited, AtRest, Started
  <1>2. SingleUpload => (Spec => []FlowInv)
    BY FlowCorrect
  <1> SUFFICES ASSUME SingleUpload PROVE Spec => []AcceptedUploadsSettle
    OBVIOUS
  <1>3. Spec => []FlowInv
    BY <1>2
  <1> QED
    BY <1>1, <1>3, TypeCorrect, ActiveCorrect, PTL

(* All of them at once, as the run Pipeline checks them together.              *)
THEOREM RestCorrect ==
  SingleUpload => (Spec /\ [][OnlyAppliesBlock]_vars => []RestInv)
  <1> SUFFICES ASSUME SingleUpload PROVE Spec /\ [][OnlyAppliesBlock]_vars => []RestInv
    OBVIOUS
  <1>1. Spec => []FlowInv
    BY FlowCorrect
  <1>2. HandlersAreActive /\ SomebodyIsWaitedFor /\ BlockedInv /\ FlowInv => RestInv
    BY DEF RestInv
  <1> QED
    BY <1>1, <1>2, InitTypeOK, NextTypeOK, InitRest, InitWaits, NextActive, NextWaits, NextBlocked,
       PTL DEF Spec

-----------------------------------------------------------------------------
(* One upload, and admins who only reject.  Then nobody ever holds an entity  *)
(* that is blocked while the row is not, and OnlyAppliesBlock is a theorem.  *)

OnlyRejected == SingleUpload /\ Edits = {} /\ Approvals = {}

BeforeAdd == {"idle", "head", "save", "add"}

NothingQueued == jobs[AnalyzeUpload].state = "none" /\ jobs[ModerateVideo].state = "none"

AdminsReject ==
    \A p \in Admins : /\ pc[p] \notin {"reprocess", "reprocess_row", "reprocess_add"}
                      /\ pc[p] \in {"apply", "apply_row"} => decision[p].status = "rejected"

SavesInv ==
    /\ \A c \in Completes : pc[c] \in BeforeAdd => NothingQueued
    /\ \A c \in Completes :
         pc[c] \in {"head", "save"} /\ isBlockedStatus(snap[c].moderationStatus)
           => isBlockedStatus(row.moderationStatus)
    /\ AdminsReject

(* A step that blocks at most, queues nothing and holds no other entity.     *)
LEMMA SavesKept ==
  ASSUME SavesInv, AdminsReject',
         \A c \in Completes : pc'[c] \in BeforeAdd => pc[c] \in BeforeAdd,
         \A c \in Completes : pc'[c] \in {"head", "save"} =>
           /\ pc[c] \in {"head", "save"} /\ snap'[c] = snap[c]
           /\ isBlockedStatus(row.moderationStatus) => isBlockedStatus(row'.moderationStatus),
         (\E c \in Completes : pc[c] \in BeforeAdd) /\ NothingQueued => NothingQueued'
  PROVE  SavesInv'
  <1>1. ASSUME NEW c \in Completes, pc'[c] \in BeforeAdd PROVE NothingQueued'
    BY <1>1 DEF SavesInv
  <1>2. ASSUME NEW c \in Completes, pc'[c] \in {"head", "save"},
               isBlockedStatus(snap'[c].moderationStatus)
        PROVE  isBlockedStatus(row'.moderationStatus)
    BY <1>2 DEF SavesInv
  <1> QED
    BY <1>1, <1>2 DEF SavesInv

(* One process goes on that is neither the upload nor an admin.              *)
LEMMA OthersKeepSaves ==
  ASSUME TypeOK, SavesInv, NEW p, NEW label, Goto(p, label), p \notin Completes, p \notin Admins,
         \A c \in Completes : snap'[c] = snap[c],
         \A a \in Admins : decision'[a] = decision[a],
         \/ /\ \A c \in Completes : pc[c] \notin BeforeAdd
         \/ /\ row'.moderationStatus = row.moderationStatus
            /\ NothingQueued => NothingQueued'
  PROVE  SavesInv'
  <1>1. \A q \in Completes \cup Admins : pc'[q] = pc[q]
    BY JobsAreDistinct DEF Goto, TypeOK
  <1>2. AdminsReject'
    BY <1>1 DEF SavesInv, AdminsReject
  <1> QED
    BY <1>1, <1>2, SavesKept DEF BeforeAdd

(* The upload reads the row, saves it once and queues the first job.         *)
LEMMA CompleteSaves ==
  ASSUME TypeOK, SavesInv, OnlyRejected, NEW c \in Completes, completeUpload(c)
  PROVE  SavesInv'
  <1>1. /\ c \in Processes /\ c \in Savers /\ c \notin Admins /\ Admins \subseteq Processes
        /\ \A d \in Completes : d = c
    BY JobsAreDistinct, JobKinds, RequestsAssumption DEF OnlyRejected, SingleUpload
  <1>2. decision' = decision /\ \E label : Goto(c, label)
    BY DEF completeUpload, CompleteRead, CompleteHead, CompleteSave, CompleteAdd, Ends, locals
  <1>3. AdminsReject'
    <2>1. \A p \in Admins : pc'[p] = pc[p]
      BY <1>1, <1>2 DEF Goto, TypeOK
    <2> QED
      BY <1>2, <2>1 DEF SavesInv, AdminsReject
  <1>4. CASE CompleteRead(c)
    <2>1. UNCHANGED <<row, jobs>> /\ pc[c] = "idle"
      BY <1>4 DEF CompleteRead, db, queues
    <2>2. \/ pc'[c] = "head" /\ snap'[c] = row
          \/ pc'[c] = "refused"
      BY <1>1, <1>4 DEF CompleteRead, Ends, Goto, TypeOK
    <2>3. NothingQueued'
      BY <1>1, <2>1 DEF SavesInv, BeforeAdd, NothingQueued
    <2> QED
      BY <1>1, <1>3, <2>1, <2>2, <2>3 DEF SavesInv
  <1>5. CASE CompleteHead(c)
    <2>1. UNCHANGED <<row, jobs>> /\ pc[c] = "head"
      BY <1>5 DEF CompleteHead, db, queues
    <2>2. \/ pc'[c] = "save" /\ snap' = snap
          \/ pc'[c] = "refused"
      BY <1>1, <1>5 DEF CompleteHead, Ends, Goto, TypeOK
    <2> QED
      BY <1>1, <1>3, <2>1, <2>2, SavesKept DEF BeforeAdd, NothingQueued
  <1>6. CASE CompleteSave(c)
    <2>1. UNCHANGED jobs /\ pc[c] = "save" /\ pc'[c] = "add"
      BY <1>1, <1>6 DEF CompleteSave, queues, Goto, TypeOK
    <2> QED
      BY <1>1, <1>3, <2>1, SavesKept DEF BeforeAdd, NothingQueued
  <1>7. CASE CompleteAdd(c)
    <2>1. pc'[c] = "done"
      BY <1>1, <1>7 DEF CompleteAdd, Ends, Goto, TypeOK
    <2> QED
      BY <1>1, <1>3, <2>1 DEF SavesInv, BeforeAdd
  <1> QED
    BY <1>4, <1>5, <1>6, <1>7 DEF completeUpload

(* A rejection blocks, and nothing is reprocessed.                           *)
LEMMA AdminSaves ==
  ASSUME TypeOK, SavesInv, OnlyRejected, NEW p \in Admins, admin(p)
  PROVE  SavesInv'
  <1>1. /\ p \in Processes /\ p \in Deciders /\ p \notin Completes /\ p \notin Approvals
        /\ Completes \subseteq Processes /\ Admins \subseteq Processes
        /\ Admins \subseteq Deciders
    BY JobsAreDistinct, JobKinds, RequestsAssumption DEF OnlyRejected
  <1>2. AfterApply(p) = "done"
    BY <1>1 DEF AfterApply
  <1>3. ~ReprocessRenditions(p) /\ ~ReprocessRow(p) /\ ~ReprocessAdd(p)
    <2>1. pc[p] # "reprocess" /\ pc[p] # "reprocess_row" /\ pc[p] # "reprocess_add"
      BY DEF SavesInv, AdminsReject
    <2> QED
      BY <2>1 DEF ReprocessRenditions, ReprocessRow, ReprocessAdd
  <1>4. ASSUME NEW label \in {"apply", "apply_row", "remove_hls", "remove_thumbnails", "done"},
               Goto(p, label), jobs' = jobs, snap' = snap,
               \A a \in Admins : a # p => decision'[a] = decision[a],
               label \in {"apply", "apply_row"} => decision'[p].status = "rejected",
               isBlockedStatus(row.moderationStatus) => isBlockedStatus(row'.moderationStatus)
        PROVE  SavesInv'
    <2>1. \A q \in Processes : pc'[q] = IF q = p THEN label ELSE pc[q]
      BY <1>4 DEF Goto, TypeOK
    <2>2. AdminsReject'
      BY <1>1, <1>4, <2>1 DEF SavesInv, AdminsReject
    <2>3. \A c \in Completes : pc'[c] = pc[c]
      BY <1>1, <2>1
    <2> QED
      BY <1>4, <2>2, <2>3, SavesKept DEF NothingQueued
  <1>5. CASE AdminFind(p)
    <2>1. UNCHANGED <<row, jobs, snap>> /\ Goto(p, "apply")
      BY <1>5 DEF AdminFind, db, queues
    <2>2. /\ \A a \in Admins : a # p => decision'[a] = decision[a]
          /\ decision'[p].status = "rejected"
      BY <1>1, <1>5 DEF AdminFind, TypeOK
    <2> QED
      BY <1>4, <2>1, <2>2
  <1>6. CASE ApplyHistory(p)
    <2>1. UNCHANGED <<row, jobs, snap, decision>> /\ Goto(p, "apply_row") /\ pc[p] = "apply"
      BY <1>6 DEF ApplyHistory, queues, locals
    <2>2. decision[p].status = "rejected"
      BY <2>1 DEF SavesInv, AdminsReject
    <2> QED
      BY <1>4, <2>1, <2>2
  <1>7. CASE ApplyRow(p, "done")
    <2>1. UNCHANGED <<jobs, snap, decision>> /\ pc[p] = "apply_row"
          /\ Goto(p, IF isBlockedStatus(decision[p].status) THEN "remove_hls" ELSE "done")
      BY <1>7 DEF ApplyRow, queues, locals
    <2>2. decision[p].status = "rejected" /\ isBlockedStatus("rejected")
      BY <2>1 DEF SavesInv, AdminsReject, isBlockedStatus
    <2>3. row'.moderationStatus = decision[p].status
      BY <1>7 DEF ApplyRow, TypeOK, VideoRow
    <2> QED
      BY <1>4, <2>1, <2>2, <2>3
  <1>8. CASE RemoveHls(p)
    <2>1. UNCHANGED <<row, jobs, snap, decision>> /\ Goto(p, "remove_thumbnails")
      BY <1>8 DEF RemoveHls, db, queues, locals
    <2> QED
      BY <1>4, <2>1
  <1>9. CASE RemoveThumbnails(p, "done")
    <2>1. UNCHANGED <<row, jobs, snap, decision>> /\ Goto(p, "done")
      BY <1>9 DEF RemoveThumbnails, db, queues, locals
    <2> QED
      BY <1>4, <2>1
  <1> QED
    BY <1>2, <1>3, <1>5, <1>6, <1>7, <1>8, <1>9 DEF admin, apply

(* Analysis and moderation come after the upload has queued them.            *)
LEMMA WorkerSaves ==
  ASSUME TypeOK, HandlersAreActive, SavesInv, OnlyRejected, Worker
  PROVE  SavesInv'
  <1>1. /\ \A j \in Jobs : j \notin Completes /\ j \notin Admins
        /\ AnalyzeUpload \in Jobs /\ ModerateVideo \in Jobs
        /\ AnalyzeJobs = {AnalyzeUpload} /\ ModerateJobs = {ModerateVideo}
        /\ Finalize \in Jobs /\ \A r \in Rungs : Transcode(r) \in Jobs
        /\ \A a \in Admins : a # ModerateVideo
    BY JobsAreDistinct, JobKinds DEF OnlyRejected, AnalyzeJobs, ModerateJobs
  <1>2. ASSUME NEW j \in {AnalyzeUpload, ModerateVideo}, pc[j] # "idle"
        PROVE  \A c \in Completes : pc[c] \notin BeforeAdd
    BY <1>1, <1>2 DEF HandlersAreActive, SavesInv, NothingQueued
  <1>3. ASSUME NEW j \in AnalyzeJobs, analyze(j) PROVE SavesInv'
    <2>1. pc[j] # "idle" /\ UNCHANGED <<snap, decision>> /\ \E label : Goto(j, label)
      BY <1>3 DEF analyze, AnalyzeStart, AnalyzeNoSource, AnalyzeFrames, AnalyzeCandidates,
         AnalyzeFindRendition, AnalyzeSaveRendition, AnalyzeTranscoding, AnalyzeFlow,
         AnalyzeModeration, AnalyzeCatch, UpdateRow, locals
    <2> QED
      BY <1>1, <1>2, <1>3, <2>1, OthersKeepSaves
  <1>4. ASSUME NEW j \in ModerateJobs, moderate(j) PROVE SavesInv'
    <2>1. pc[j] # "idle" /\ snap' = snap /\ \E label : Goto(j, label)
      BY <1>4 DEF moderate, ModerateFindVideo, ModerateFinish, FinishWith, apply, ApplyHistory,
         ApplyRow, RemoveHls, RemoveThumbnails, locals
    <2>2. \A a \in Admins : decision'[a] = decision[a]
      BY <1>1, <1>4, JobKinds DEF moderate, ModerateFindVideo, ModerateFinish, FinishWith, apply,
         ApplyHistory, ApplyRow, RemoveHls, RemoveThumbnails, locals, TypeOK
    <2> QED
      BY <1>1, <1>2, <1>4, <2>1, <2>2, OthersKeepSaves
  <1>5. ASSUME NEW j, NEW whenNone, NEW next, publish(j, whenNone, next)
        PROVE  /\ UNCHANGED <<snap, decision, jobs>> /\ \E label : Goto(j, label)
               /\ row'.moderationStatus = row.moderationStatus
    BY <1>5 DEF publish, PublishFind, PublishPut, PublishUpdate, Playable, locals, queues, db,
       TypeOK, VideoRow
  <1>6. ASSUME NEW r \in Rungs, transcode(r) PROVE SavesInv'
    <2>1. UNCHANGED <<snap, decision, jobs>> /\ (\E label : Goto(Transcode(r), label))
          /\ row'.moderationStatus = row.moderationStatus
      BY <1>5, <1>6 DEF transcode, TranscodeFindVideo, TranscodeFindRendition, TranscodeEncoding,
         TranscodeUpload, TranscodeReady, TranscodeRecheck, TranscodeCleanup, TranscodeCatch, db,
         locals, queues
    <2> QED
      BY <1>1, <1>6, <2>1, OthersKeepSaves DEF NothingQueued
  <1>7. CASE finalize
    <2>1. UNCHANGED <<snap, decision, jobs>> /\ (\E label : Goto(Finalize, label))
          /\ row'.moderationStatus = row.moderationStatus
      BY <1>5, <1>7 DEF finalize, FinalizeFindVideo, FinalizeNoRendition, FinalizeSheets,
         FinalizeStoryboard, db, locals, queues, TypeOK, VideoRow
    <2> QED
      BY <1>1, <2>1, OthersKeepSaves DEF NothingQueued
  <1> QED
    BY <1>3, <1>4, <1>6, <1>7 DEF Worker

(* A job that was never added is neither taken nor settled.                  *)
LEMMA BullMQSaves ==
  ASSUME TypeOK, HandlersAreActive, SavesInv, BullMQ
  PROVE  SavesInv'
  <1> PICK j \in Jobs : Take(j) \/ Complete(j) \/ Retry(j) \/ Fail(j)
    BY DEF BullMQ
  <1>1. /\ j \notin Completes /\ j \notin Admins /\ Finalize \notin {AnalyzeUpload, ModerateVideo}
        /\ AnalyzeUpload \in Jobs /\ ModerateVideo \in Jobs
        /\ Admins \subseteq Deciders
    BY JobsAreDistinct, JobKinds DEF ModerateJobs
  <1>2. CASE Take(j)
    <2>1. UNCHANGED <<row, snap, decision>> /\ Goto(j, "start") /\ jobs[j].state = "waiting"
          /\ \A i \in Jobs : i # j => jobs'[i] = jobs[i]
      BY <1>2 DEF Take, db, locals, TypeOK
    <2> QED
      BY <1>1, <2>1, OthersKeepSaves DEF NothingQueued
  <1>3. CASE Complete(j) \/ Retry(j) \/ Fail(j)
    <2>1. /\ UNCHANGED <<row, snap>> /\ Goto(j, "idle") /\ jobs[j].state = "active"
          /\ \A i \in Jobs \ {j, Finalize} : jobs'[i] = jobs[i]
          /\ \A a \in Admins : decision'[a] = decision[a]
      BY <1>1, <1>3, SettledJobs, ForgetOne DEF HandlersAreActive, db
    <2> QED
      BY <1>1, <2>1, OthersKeepSaves DEF NothingQueued
  <1> QED
    BY <1>2, <1>3

(* What fails saves nothing, and what is lost is not read again.             *)
LEMMA FailureSaves ==
  ASSUME TypeOK, SavesInv, OnlyRejected, Failure
  PROVE  SavesInv'
  <1>1. /\ \A j \in Jobs : j \notin Completes /\ j \notin Admins
        /\ AnalyzeUpload \in Jobs /\ ModerateVideo \in Jobs /\ Jobs \subseteq Processes
        /\ Finalize \in Jobs /\ \A r \in Rungs : Transcode(r) \in Jobs
        /\ Finalize \notin {AnalyzeUpload, ModerateVideo}
        /\ Savers = Completes /\ Completes \subseteq Processes /\ Admins \subseteq Processes
        /\ Completes \subseteq Requests /\ Admins \subseteq Requests
        /\ Admins \subseteq Deciders
    BY JobsAreDistinct, JobKinds DEF OnlyRejected, ModerateJobs, Savers
  <1>2. ASSUME NEW c \in Savers, VideoApiFails(c) PROVE SavesInv'
    <2>1. UNCHANGED <<row, jobs, decision>> /\ Goto(c, "refused")
          /\ \A d \in Completes : d = c
      BY <1>1, <1>2 DEF VideoApiFails, Ends, db, queues, OnlyRejected, SingleUpload
    <2>2. pc'[c] = "refused" /\ \A a \in Admins : pc'[a] = pc[a]
      BY <1>1, <2>1, RequestsAssumption DEF Goto, TypeOK
    <2> QED
      BY <1>1, <2>1, <2>2 DEF SavesInv, AdminsReject, BeforeAdd
  <1>3. ASSUME NEW p \in Admins, AdminFails(p) PROVE SavesInv'
    <2>1. UNCHANGED <<row, jobs, snap, decision>> /\ Goto(p, "refused")
      BY <1>3 DEF AdminFails, db, queues, locals
    <2>2. \A q \in Processes : pc'[q] = IF q = p THEN "refused" ELSE pc[q]
      BY <2>1 DEF Goto, TypeOK
    <2>3. AdminsReject' /\ \A c \in Completes : pc'[c] = pc[c]
      BY <1>1, <2>1, <2>2, RequestsAssumption DEF SavesInv, AdminsReject
    <2> QED
      BY <2>1, <2>3, SavesKept DEF NothingQueued
  <1>4. ASSUME NEW j \in Jobs, NEW label, Goto(j, label), UNCHANGED <<row, jobs, snap>>,
               \A a \in Admins : decision'[a] = decision[a]
        PROVE  SavesInv'
    BY <1>1, <1>4, OthersKeepSaves DEF NothingQueued
  <1>5. ASSUME NEW j \in AnalyzeJobs, AnalyzeFails(j) PROVE SavesInv'
    <2>1. j \in Jobs /\ UNCHANGED <<row, jobs, snap, decision>> /\ \E label : Goto(j, label)
      BY <1>5, JobsAreDistinct DEF AnalyzeFails, db, queues, locals
    <2> QED
      BY <1>4, <2>1
  <1>6. ASSUME NEW r \in Rungs, TranscodeFails(r) PROVE SavesInv'
    <2>1. UNCHANGED <<row, jobs, snap, decision>> /\ \E label : Goto(Transcode(r), label)
      BY <1>6 DEF TranscodeFails, db, queues, locals
    <2> QED
      BY <1>1, <1>4, <1>6, <2>1
  <1>7. CASE FinalizeFails
    <2>1. UNCHANGED <<row, jobs, snap, decision>> /\ \E label : Goto(Finalize, label)
      BY <1>7 DEF FinalizeFails, db, queues, locals
    <2> QED
      BY <1>1, <1>4, <2>1
  <1>8. ASSUME NEW j \in ModerateJobs, ModerateFails(j) PROVE SavesInv'
    <2>1. j \in Jobs /\ UNCHANGED <<row, jobs, snap>> /\ \E label : Goto(j, label)
      BY <1>8, JobsAreDistinct DEF ModerateFails, db, queues
    <2>2. \A a \in Admins : decision'[a] = decision[a]
      BY <1>1, <1>8, <2>1 DEF ModerateFails, TypeOK
    <2> QED
      BY <1>4, <2>1, <2>2
  <1>9. CASE WorkerCrash
    <2>1. UNCHANGED <<row, snap>> /\ \A q \in Processes : q \notin Jobs => pc'[q] = pc[q]
      BY <1>9 DEF WorkerCrash, Forget, db
    <2>2. \A a \in Admins : decision'[a] = decision[a]
      BY <1>1, <1>9 DEF WorkerCrash, Forget
    <2>3. \A i \in {AnalyzeUpload, ModerateVideo} :
            jobs[i].state = "none" => jobs'[i].state = "none"
      <3> DEFINE after == [j \in Jobs |-> IF j \in {k \in Jobs : jobs[k].state = "active"}
                                          THEN Stalled(jobs[j]) ELSE jobs[j]]
      <3>1. PICK over : jobs' = Released(after, over)
        BY <1>9 DEF WorkerCrash
      <3>2. \A i \in {AnalyzeUpload, ModerateVideo} :
              jobs[i].state = "none" => after[i] = jobs[i]
        BY <1>1
      <3>3. \A i \in Jobs : i # Finalize => jobs'[i] = after[i]
        BY <3>1 DEF Released
      <3> QED
        BY <1>1, <3>2, <3>3
    <2>4. AdminsReject' /\ \A c \in Completes : pc'[c] = pc[c]
      BY <1>1, <2>1, <2>2 DEF SavesInv, AdminsReject
    <2> QED
      BY <2>1, <2>3, <2>4, SavesKept DEF NothingQueued
  <1>10. CASE ApiCrash
    <2>1. UNCHANGED <<row, jobs, decision>>
          /\ \A q \in Requests : pc'[q] = IF pc[q] \notin {"idle", "done", "refused"}
                                          THEN "refused" ELSE pc[q]
      BY <1>10 DEF ApiCrash, db, queues, Processes
    <2>2. AdminsReject'
      BY <1>1, <2>1 DEF SavesInv, AdminsReject
    <2>3. \A c \in Completes : /\ pc'[c] \in BeforeAdd => pc[c] \in BeforeAdd
                               /\ pc'[c] \notin {"head", "save"}
      BY <1>1, <2>1 DEF BeforeAdd
    <2> QED
      BY <2>1, <2>2, <2>3, SavesKept DEF NothingQueued
  <1> QED
    BY <1>2, <1>3, <1>5, <1>6, <1>7, <1>8, <1>9, <1>10 DEF Failure

(* Every step keeps SavesInv, and none of them blocks but an apply.          *)
LEMMA NextSaves ==
  OnlyRejected /\ TypeOK /\ HandlersAreActive /\ SavesInv /\ [Next]_vars => SavesInv'
  <1> SUFFICES ASSUME OnlyRejected, TypeOK, HandlersAreActive, SavesInv, [Next]_vars
               PROVE  SavesInv'
    OBVIOUS
  <1>1. CASE PutSource \/ UNCHANGED vars
    <2>1. UNCHANGED <<row, jobs, pc, snap, decision>>
      BY <1>1 DEF PutSource, vars, db, queues, locals
    <2> QED
      BY <2>1 DEF SavesInv, AdminsReject, NothingQueued
  <1>2. CASE Api
    BY <1>2, CompleteSaves, AdminSaves DEF Api, OnlyRejected
  <1> QED
    BY <1>1, <1>2, WorkerSaves, BullMQSaves, FailureSaves DEF Next

(* The row is blocked by no step but the apply of a decision.               *)
LEMMA OnlyAppliesDo ==
  OnlyRejected /\ TypeOK /\ SavesInv /\ [Next]_vars => [OnlyAppliesBlock]_vars
  <1> SUFFICES ASSUME OnlyRejected, TypeOK, SavesInv, Next,
                      ~isBlockedStatus(row.moderationStatus),
                      isBlockedStatus(row'.moderationStatus)
               PROVE  \E p \in Deciders : pc[p] = "apply_row" /\ pc'[p] = "remove_hls"
    BY DEF OnlyAppliesBlock
  <1>1. ASSUME NEW p \in Deciders, NEW next, apply(p, next)
        PROVE  pc[p] = "apply_row" /\ pc'[p] = "remove_hls"
    <2>1. ApplyRow(p, next)
      BY <1>1 DEF apply, ApplyHistory, RemoveHls, RemoveThumbnails, db
    <2>2. row'.moderationStatus = decision[p].status
      BY <2>1 DEF ApplyRow, TypeOK, VideoRow
    <2>3. p \in Processes
      BY JobsAreDistinct DEF Deciders
    <2> QED
      BY <2>1, <2>2, <2>3 DEF ApplyRow, Goto, TypeOK
  <1>2. ASSUME NEW c \in Completes, completeUpload(c) PROVE FALSE
    <2>1. CASE CompleteSave(c)
      <3>1. row'.moderationStatus = snap[c].moderationStatus /\ pc[c] = "save"
        BY <2>1, JobKinds DEF CompleteSave, TypeOK, VideoRow
      <3> QED
        BY <3>1 DEF SavesInv
    <2>2. CASE ~CompleteSave(c)
      BY <1>2, <2>2 DEF completeUpload, CompleteRead, CompleteHead, CompleteAdd, db
    <2> QED
      BY <2>1, <2>2
  <1>3. ASSUME NEW p \in Admins, admin(p), ~apply(p, AfterApply(p)) PROVE FALSE
    BY <1>3 DEF admin, AdminFind, ReprocessRenditions, ReprocessRow, ReprocessAdd, db, TypeOK,
       VideoRow
  <1>4. ASSUME NEW j \in AnalyzeJobs, analyze(j) PROVE FALSE
    BY <1>4 DEF analyze, AnalyzeStart, AnalyzeNoSource, AnalyzeFrames, AnalyzeCandidates,
       AnalyzeFindRendition, AnalyzeSaveRendition, AnalyzeTranscoding, AnalyzeFlow,
       AnalyzeModeration, AnalyzeCatch, UpdateRow, db, TypeOK, VideoRow
  <1>5. ASSUME NEW j, NEW whenNone, NEW next, publish(j, whenNone, next) PROVE FALSE
    BY <1>5 DEF publish, PublishFind, PublishPut, PublishUpdate, Playable, db, TypeOK, VideoRow
  <1>6. ASSUME NEW r \in Rungs, transcode(r) PROVE FALSE
    BY <1>5, <1>6 DEF transcode, TranscodeFindVideo, TranscodeFindRendition, TranscodeEncoding,
       TranscodeUpload, TranscodeReady, TranscodeRecheck, TranscodeCleanup, TranscodeCatch, db
  <1>7. ASSUME finalize PROVE FALSE
    BY <1>5, <1>7 DEF finalize, FinalizeFindVideo, FinalizeNoRendition, FinalizeSheets,
       FinalizeStoryboard, db, TypeOK, VideoRow
  <1>8. ASSUME NEW j \in ModerateJobs, moderate(j), ~apply(j, "return") PROVE FALSE
    BY <1>8 DEF moderate, ModerateFindVideo, ModerateFinish, FinishWith, db
  <1>9. ~PutSource /\ ~BullMQ /\ ~Failure
    <2>1. PutSource \/ BullMQ => row' = row
      BY DEF PutSource, BullMQ, Take, Complete, Retry, Fail, db
    <2>2. Failure => row' = row
      BY DEF Failure, VideoApiFails, AdminFails, AnalyzeFails, TranscodeFails, FinalizeFails,
         ModerateFails, WorkerCrash, ApiCrash, db
    <2> QED
      BY <2>1, <2>2
  <1>10. \A e \in Edits : FALSE
    BY DEF OnlyRejected
  <1> QED
    BY <1>1, <1>2, <1>3, <1>4, <1>6, <1>7, <1>8, <1>9, <1>10, JobKinds DEF Next, Api, Worker

(* At the start nothing is queued and no admin is deciding.                 *)
LEMMA InitSaves == OnlyRejected /\ Init => SavesInv
  <1> SUFFICES ASSUME OnlyRejected, Init PROVE SavesInv
    OBVIOUS
  <1>1. /\ AnalyzeUpload \in Jobs /\ ModerateVideo \in Jobs /\ NoJob.state = "none"
        /\ Completes \subseteq Processes /\ Admins \subseteq Processes
    BY JobsAreDistinct DEF ModerateJobs, NoJob
  <1> QED
    BY <1>1 DEF Init, SavesInv, AdminsReject, NothingQueued

(* Where nobody edits the video and no admin approves it, no save is stale:  *)
(* a video blocked by its analysis or by any of the admins who reject it has *)
(* no segments when all is at rest, in every behaviour without a failure.    *)
THEOREM RejectedVideosAreRemoved == OnlyRejected => (Spec => []BlockedLeavesNoSegments)
  <1> SUFFICES ASSUME OnlyRejected PROVE Spec => []BlockedLeavesNoSegments
    OBVIOUS
  <1>1. Init => SavesInv
    BY InitSaves
  <1>2. TypeOK /\ HandlersAreActive /\ SavesInv /\ [Next]_vars => SavesInv'
    BY NextSaves
  <1>3. TypeOK /\ SavesInv /\ [Next]_vars => [OnlyAppliesBlock]_vars
    BY OnlyAppliesDo
  <1>4. Spec => [][OnlyAppliesBlock]_vars
    BY <1>1, <1>2, <1>3, TypeCorrect, ActiveCorrect, PTL DEF Spec
  <1> QED
    BY <1>4, BlockedVideosAreRemoved, PTL
=============================================================================
