------------------------------ MODULE HlsPublisher ------------------------------
(***************************************************************************)
(* HlsPublisherService.publish, run by every transcode job that finishes   *)
(* and by the finalize job: read the READY renditions, put the master      *)
(* playlist that lists them, point the row at it.  Three awaits, so two    *)
(* publishes may overlap and the later put may list fewer renditions.      *)
(***************************************************************************)
EXTENDS VideoData

Publishable(status) == status = "ready"

PublishFind(j, whenNone) ==
    /\ pc[j] = "publish"
    /\ LET found == {r \in Rungs : Publishable(rend[r])}
       IN  /\ ready' = [ready EXCEPT ![j] = found]
           /\ Goto(j, IF found = {} THEN whenNone ELSE "publish_put")
    /\ UNCHANGED <<db, s3, queues, snap, decision, ladder, budget>>

PublishPut(j) ==
    /\ pc[j] = "publish_put"
    /\ s3' = [s3 EXCEPT !.master = ready[j]]
    /\ Goto(j, "publish_update")
    /\ UNCHANGED <<db, queues, locals, budget>>

(* Mutant of Playable: the row gets the playlist but is not READY. *)
KeyOnly(video) == [video EXCEPT !.hlsMasterKey = TRUE]

Playable(video) == [video EXCEPT !.hlsMasterKey = TRUE, !.status = "ready"]

PublishUpdate(j, next) ==
    /\ pc[j] = "publish_update"
    /\ row' = Playable(row)
    /\ Goto(j, next)
    /\ UNCHANGED <<rend, history, s3, queues, locals, budget>>

publish(j, whenNone, next) ==
    PublishFind(j, whenNone) \/ PublishPut(j) \/ PublishUpdate(j, next)

Publishing == {"publish", "publish_put", "publish_update"}
=============================================================================
