------------------------------- MODULE VideoApi -------------------------------
(***************************************************************************)
(* The owner's requests of video.service.ts that change state:             *)
(* completeUpload and updateDetails, and the client's PUT of the source    *)
(* file.  Both requests load the Video entity and later save it; save      *)
(* writes every column of the entity that differs from the row, so what    *)
(* the row became in between is overwritten by what the entity remembers.  *)
(***************************************************************************)
EXTENDS VideoData

(* The request is over and the entity it loaded is gone. *)
Ends(p, outcome) ==
    /\ Goto(p, outcome)
    /\ snap' = [snap EXCEPT ![p] = NewRow]

(* The client PUTs the file through the presigned URL.  *)
PutSource ==
    /\ s3.source # "full"
    /\ \E size \in {"short", "full"} : s3' = [s3 EXCEPT !.source = size]
    /\ UNCHANGED <<db, queues, pc, locals, budget>>

-----------------------------------------------------------------------------
(* completeUpload *)

(* findOwned, and the check that answers 409. *)
CompleteRead(c) ==
    /\ pc[c] = "idle"
    /\ IF row.status = "awaiting_upload"
       THEN /\ snap' = [snap EXCEPT ![c] = row]
            /\ Goto(c, "head")
       ELSE Ends(c, "refused")
    /\ UNCHANGED <<db, s3, queues, ready, decision, ladder, budget>>

(* headObject: 404 without the object, 400 when its size is not the row's. *)
CompleteHead(c) ==
    /\ pc[c] = "head"
    /\ IF s3.source = "full"
       THEN Goto(c, "save") /\ UNCHANGED snap
       ELSE Ends(c, "refused")
    /\ UNCHANGED <<db, s3, queues, ready, decision, ladder, budget>>

CompleteSave(c) ==
    /\ pc[c] = "save"
    /\ row' = [snap[c] EXCEPT !.status = "uploaded"]
    /\ Goto(c, "add")
    /\ UNCHANGED <<rend, history, s3, queues, locals, budget>>

CompleteAdd(c) ==
    /\ pc[c] = "add"
    /\ jobs' = Add(AnalyzeUpload)
    /\ Ends(c, "done")
    /\ UNCHANGED <<db, s3, waitFor, ready, decision, ladder, budget>>

completeUpload(c) ==
    CompleteRead(c) \/ CompleteHead(c) \/ CompleteSave(c) \/ CompleteAdd(c)

-----------------------------------------------------------------------------
(* updateDetails *)

(* findOwned and the choice of thumbnail: a custom upload, a candidate frame *)
(* by index (400 when there is none), or the thumbnail the entity has.       *)
EditRead(e) ==
    /\ pc[e] = "idle"
    /\ \E input \in ThumbnailInputs :
         IF input = "index" /\ ~row.candidates
         THEN Ends(e, "refused")
         ELSE /\ snap' = [snap EXCEPT ![e] =
                   IF input = "index" THEN [row EXCEPT !.thumbnailKey = "frame"] ELSE row]
              /\ Goto(e, IF input = "custom" THEN "custom" ELSE "variants")
    /\ UNCHANGED <<db, s3, queues, ready, decision, ladder, budget>>

(* normalizeCustomThumbnail: 400 when the client has not uploaded the image. *)
EditCustom(e) ==
    /\ pc[e] = "custom"
    /\ \/ /\ s3' = [s3 EXCEPT !.custom = @ \cup {e}]
          /\ snap' = [snap EXCEPT ![e].thumbnailKey = e]
          /\ Goto(e, "variants")
       \/ Ends(e, "refused") /\ UNCHANGED s3
    /\ UNCHANGED <<db, queues, ready, decision, ladder, budget>>

(* Mutant of PutVariants: puts that nothing awaits and that do not happen. *)
LosesVariants(o, e) == o

PutVariants(o, e) == [o EXCEPT !.variants = @ \cup {e}]

(* storeThumbnailVariants resizes the object thumbnailKey names and puts the *)
(* three results; without that object the request fails with a 500.          *)
EditVariants(e) ==
    /\ pc[e] = "variants"
    /\ \/ /\ snap[e].thumbnailKey = "none"
          /\ Goto(e, "save")
          /\ UNCHANGED <<s3, snap>>
       \/ /\ ThumbnailExists(snap[e].thumbnailKey)
          /\ s3' = PutVariants(s3, e)
          /\ snap' = [snap EXCEPT ![e].variantsKey = e]
          /\ Goto(e, "save_variants")
       \/ /\ snap[e].thumbnailKey # "none"
          /\ ~ThumbnailExists(snap[e].thumbnailKey)
          /\ Ends(e, "refused")
          /\ UNCHANGED s3
    /\ UNCHANGED <<db, queues, ready, decision, ladder, budget>>

EditSaveVariants(e) ==
    /\ pc[e] = "save_variants"
    /\ row' = snap[e]
    /\ Goto(e, "save")
    /\ UNCHANGED <<rend, history, s3, queues, locals, budget>>

EditSave(e) ==
    /\ pc[e] = "save"
    /\ row' = [snap[e] EXCEPT !.isPublic = TRUE]
    /\ Goto(e, "add")
    /\ UNCHANGED <<rend, history, s3, queues, locals, budget>>

EditAdd(e) ==
    /\ pc[e] = "add"
    /\ jobs' = Add(ModerateText(e))
    /\ Ends(e, "done")
    /\ UNCHANGED <<db, s3, waitFor, ready, decision, ladder, budget>>

updateDetails(e) ==
    \/ EditRead(e) \/ EditCustom(e) \/ EditVariants(e)
    \/ EditSaveVariants(e) \/ EditSave(e) \/ EditAdd(e)

-----------------------------------------------------------------------------
(* rethrowHttp: an await of the request rejects and the client gets a 500. *)
VideoApiFails(p) ==
    /\ Faulty
    /\ pc[p] \notin {"done", "refused"}
    /\ Ends(p, "refused")
    /\ UNCHANGED <<db, s3, queues, ready, decision, ladder>>
=============================================================================
