------------------------------ MODULE BullQueues ------------------------------
(***************************************************************************)
(* BullMQ as this application uses it: attempts, removeOnComplete, failed  *)
(* jobs kept, the flow whose finalize job waits for its transcode children *)
(* (ignoreDependencyOnFailure), and the recovery of jobs whose worker      *)
(* died.  A handler hands its outcome over in pc: "return", "throw", or    *)
(* "fatal" for an UnrecoverableError.                                      *)
(*                                                                         *)
(* Delayed (backing off) and waiting are one state, and waiting jobs start *)
(* in any order: a backoff reorders them, and so do other workers.         *)
(***************************************************************************)
EXTENDS VideoData

Concurrency(queue) == IF queue = "transcode" THEN TranscodeConcurrency ELSE 1

Active(queue) == {j \in Jobs : Queue(j) = queue /\ jobs[j].state = "active"}

Take(j) ==
    /\ jobs[j].state = "waiting"
    /\ Cardinality(Active(Queue(j))) < Concurrency(Queue(j))
    /\ jobs' = [jobs EXCEPT ![j].state = "active"]
    /\ Goto(j, "start")
    /\ UNCHANGED <<db, s3, waitFor, locals, budget>>

(* The jobs once the rungs in over no longer hold the finalize job back. *)
Released(js, over) ==
    IF js[Finalize].state = "waiting-children" /\ waitFor \subseteq over
    THEN [js EXCEPT ![Finalize].state = "waiting"]
    ELSE js

RungOf(j) == {r \in Rungs : j = Transcode(r)}

(* The job leaves the active state for good, completed or failed. *)
Leaves(j, last) ==
    /\ jobs' = Released([jobs EXCEPT ![j] = last], RungOf(j))
    /\ waitFor' = waitFor \ RungOf(j)

(* The handlers of these jobs are over, and so is what they held in memory. *)
Forget(over) ==
    /\ pc' = [p \in Processes |-> IF p \in over THEN "idle" ELSE pc[p]]
    /\ ready' = [p \in PublishJobs |-> IF p \in over THEN {} ELSE ready[p]]
    /\ decision' = [p \in Deciders |-> IF p \in over THEN NoDecision ELSE decision[p]]
    /\ ladder' = [p \in AnalyzeJobs |-> IF p \in over THEN FirstRung ELSE ladder[p]]
    /\ UNCHANGED snap

(* removeOnComplete.  A parent whose children are not done cannot complete. *)
Complete(j) ==
    /\ pc[j] = "return"
    /\ j = Finalize => waitFor = {}
    /\ Leaves(j, NoJob)
    /\ Forget({j})
    /\ UNCHANGED <<db, s3, budget>>

Rejected(j) == pc[j] = "throw" \/ (pc[j] = "return" /\ j = Finalize /\ waitFor # {})

Retry(j) ==
    /\ Rejected(j)
    /\ ~LastAttempt(j)
    /\ jobs' = [jobs EXCEPT ![j].state = "waiting", ![j].made = @ + 1]
    /\ Forget({j})
    /\ UNCHANGED <<db, s3, waitFor, budget>>

(* No attempt is left, or the error is unrecoverable: the job is kept. *)
Fail(j) ==
    /\ (Rejected(j) /\ LastAttempt(j)) \/ pc[j] = "fatal"
    /\ Leaves(j, [jobs[j] EXCEPT !.state = "failed", !.made = @ + 1])
    /\ Forget({j})
    /\ UNCHANGED <<db, s3, budget>>

-----------------------------------------------------------------------------
(* A stalled job waits again, but a job that had stalled before fails        *)
(* without running its handler.                                              *)
Stalled(job) ==
    IF job.stalls > 0 THEN [job EXCEPT !.state = "failed"]
                      ELSE [job EXCEPT !.state = "waiting", !.stalls = 1]

(* The worker process dies, and its active jobs are found stalled. *)
WorkerCrash ==
    /\ Restart
    /\ \E j \in Jobs : jobs[j].state = "active"
    /\ LET lost  == {j \in Jobs : jobs[j].state = "active"}
           after == [j \in Jobs |-> IF j \in lost THEN Stalled(jobs[j]) ELSE jobs[j]]
           over  == {r \in Rungs : /\ Transcode(r) \in lost
                                   /\ after[Transcode(r)].state = "failed"}
       IN  /\ jobs' = Released(after, over)
           /\ waitFor' = waitFor \ over
           /\ Forget(lost)
    /\ UNCHANGED <<db, s3>>

(* The API process dies: its requests are cut off where they stand.          *)
ApiCrash ==
    /\ Restart
    /\ \E p \in Requests : pc[p] \notin {"idle", "done", "refused"}
    /\ pc' = [p \in Processes |->
                IF p \in Requests /\ pc[p] \notin {"idle", "done", "refused"}
                THEN "refused" ELSE pc[p]]
    /\ snap' = [p \in Savers |-> NewRow]
    /\ UNCHANGED <<db, s3, queues, ready, decision, ladder>>
=============================================================================
