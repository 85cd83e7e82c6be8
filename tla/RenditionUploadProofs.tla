-------------------------- MODULE RenditionUploadProofs --------------------------
(***************************************************************************)
(* A READY rendition is complete, and a removal leaves nothing, for any    *)
(* number of files, any size of a batch and of a page, any number of       *)
(* attempts and of failures; and what the owner is told of it.             *)
(***************************************************************************)
EXTENDS RenditionUpload, FiniteSetTheorems, TLAPS

USE UploadAssumption

-----------------------------------------------------------------------------
(* Pages of a listing. *)

LEMMA SetsOfFiles ==
    ASSUME NEW B \in SUBSET Files, NEW A \in SUBSET B
    PROVE  /\ IsFiniteSet(A) /\ Cardinality(A) \in Nat /\ Cardinality(B) \in Nat
           /\ Cardinality(A) <= Cardinality(B)
<1>1. IsFiniteSet(Files)
    BY FS_Interval DEF Files
<1>2. IsFiniteSet(B)
    BY <1>1, FS_Subset
<1> QED
    BY <1>2, FS_Subset, FS_CardinalityType

LEMMA LeastNumber ==
    ASSUME NEW S \in SUBSET Nat, S # {}
    PROVE  \E m \in S : \A n \in S : m <= n
<1>1. \E m \in S : \A n \in S : <<n, m>> \notin OpToRel(<, Nat)
    BY NatLessThanWellFounded, WFMin
<1>2. PICK m \in S : \A n \in S : <<n, m>> \notin OpToRel(<, Nat)
    BY <1>1
<1>3. ASSUME NEW n \in S PROVE m <= n
  <2>1. <<n, m>> \notin OpToRel(<, Nat)
    BY <1>2
  <2>2. ~(n < m)
    BY <2>1 DEF OpToRel
  <2> QED
    BY <2>2
<1> QED
    BY <1>3

LEMMA LastKeyIsLast ==
    ASSUME NEW page \in SUBSET Files, page # {}
    PROVE  LastKey(page) \in page /\ \A g \in page : g <= LastKey(page)
<1> DEFINE Rest == {NFiles - f : f \in page}
<1>1. Rest \in SUBSET Nat /\ Rest # {}
    BY DEF Files
<1>2. PICK least \in Rest : \A n \in Rest : least <= n
  <2> HIDE DEF Rest
  <2> QED
    BY <1>1, LeastNumber
<1>3. PICK last \in page : least = NFiles - last
    BY <1>2
<1>4. \A g \in page : g <= last
    BY <1>2, <1>3 DEF Files
<1> QED
    BY <1>3, <1>4 DEF LastKey

LEMMA PageIsPrefix ==
    ASSUME stored \in SUBSET Files, NEW token \in 0..NFiles
    PROVE  /\ Listed(token) \in SUBSET Beyond(token)
           /\ Beyond(token) \in SUBSET stored /\ Beyond(token) \in SUBSET Files
           /\ Listed(token) = {} => Beyond(token) = {}
           /\ Listed(token) # {} =>
                \A f \in Beyond(token) \ Listed(token) : f > LastKey(Listed(token))
<1> DEFINE Before(f) == {g \in Beyond(token) : g < f}
<1>1. Listed(token) \in SUBSET Beyond(token)
    BY DEF Listed
<1>2. Beyond(token) \in SUBSET stored /\ Beyond(token) \in SUBSET Files
    BY DEF Beyond
<1>3. ASSUME Beyond(token) # {}
      PROVE  Listed(token) # {}
  <2>1. Beyond(token) \in SUBSET Nat
    BY <1>2 DEF Files
  <2>2. PICK m \in Beyond(token) : \A n \in Beyond(token) : m <= n
    BY <1>3, <2>1, LeastNumber
  <2>3. Before(m) = {}
    BY <2>1, <2>2
  <2>4. Cardinality(Before(m)) = 0
    BY <2>3, FS_EmptySet
  <2>5. Cardinality(Before(m)) < PageSize
    BY <2>4
  <2>6. m \in Listed(token)
    BY <2>2, <2>5 DEF Listed
  <2> QED
    BY <2>6
<1>4. ASSUME Listed(token) # {}, NEW f \in Beyond(token) \ Listed(token)
      PROVE  f > LastKey(Listed(token))
  <2> DEFINE last == LastKey(Listed(token))
  <2>1. last \in Listed(token) /\ Listed(token) \in SUBSET Files
    BY <1>1, <1>2, <1>4, LastKeyIsLast
  <2>2. f \in Nat /\ last \in Nat /\ f # last
    BY <1>2, <1>4, <2>1 DEF Files
  <2>3. CASE f < last
    <3>1. Before(f) \in SUBSET Before(last)
      BY <1>2, <2>2, <2>3 DEF Files
    <3>2. Before(last) \in SUBSET Files
      BY <1>2
    <3>3. /\ Cardinality(Before(f)) <= Cardinality(Before(last))
          /\ Cardinality(Before(f)) \in Nat /\ Cardinality(Before(last)) \in Nat
      BY <3>1, <3>2, SetsOfFiles
    <3>4. Cardinality(Before(last)) < PageSize
      BY <2>1 DEF Listed
    <3>5. Cardinality(Before(f)) < PageSize
      BY <3>3, <3>4
    <3>6. f \in Listed(token)
      BY <1>4, <3>5 DEF Listed
    <3> QED
      BY <1>4, <3>6
  <2> QED
    BY <2>2, <2>3
<1> QED
    BY <1>1, <1>2, <1>3, <1>4

-----------------------------------------------------------------------------
(* Types. *)

LEMMA NoListingType == NoListing \in Listing
    BY DEF NoListing, Listing

LEMMA InitTypes == Init => TypeOK
<1> SUFFICES ASSUME Init PROVE TypeOK
    OBVIOUS
<1>1. deletes \in [Deleters -> Listing]
    BY NoListingType DEF Init
<1>2. job \in Job
    BY DEF Init, Job
<1>3. rendition \in [status   : {"pending", "encoding", "ready", "failed"},
                     progress : 0..Whole]
    BY DEF Init
<1>4. job.state = "waiting" /\ job.made = 0
    BY DEF Init
<1>5. lastSaved \in 0..Whole /\ faults \in 0..MaxFaults /\ 0 < MaxAttempts
    BY DEF Init
<1>6. pc = "idle" /\ blocked = FALSE /\ stored = {} /\ late = {}
      /\ uploaded = {} /\ batch = {} /\ adrift = {}
    BY DEF Init
<1> QED
    BY <1>1, <1>2, <1>3, <1>4, <1>5, <1>6 DEF TypeOK, Steps

LEMMA GotoTypes ==
    ASSUME TypeOK, NEW step \in Steps, Goto(step)
    PROVE  pc' \in Steps /\ job' = job
    BY DEF Goto

(* The listings. *)
LEMMA ListTypes ==
    ASSUME TypeOK, NEW d \in Deleters, List(d) \/ Delete(d)
    PROVE  TypeOK'
<1>1. CASE List(d)
  <2> DEFINE token == deletes[d].token
             page == Listed(token)
  <2>1. token \in 0..NFiles
    BY DEF TypeOK, Listing
  <2>2. page \in SUBSET Files
    BY <2>1, PageIsPrefix DEF TypeOK
  <2>3. page # {} => LastKey(page) \in 0..NFiles
    BY <2>2, LastKeyIsLast DEF Files
  <2>4. deletes' \in [Deleters -> Listing]
    <3> HIDE DEF page
    <3>1. page # {} => [step |-> "delete", token |-> LastKey(page), page |-> page,
                        truncated |-> page # Beyond(token)] \in Listing
      BY <2>2, <2>3 DEF Listing
    <3>2. deletes' = [deletes EXCEPT ![d] =
                     IF page = {} THEN NoListing
                     ELSE [step |-> "delete", token |-> LastKey(page), page |-> page,
                           truncated |-> page # Beyond(token)]]
      BY <1>1 DEF List, page
    <3> QED
      BY <3>1, <3>2, NoListingType DEF TypeOK
  <2> QED
    BY <1>1, <2>4 DEF List, TypeOK, row, handler, upload, reports
<1>2. CASE Delete(d)
  <2>1. After(deletes[d]) \in Listing
    BY NoListingType DEF After, TypeOK, Listing
  <2>2. deletes' \in [Deleters -> Listing] /\ stored' \in SUBSET Files
    BY <1>2, <2>1 DEF Delete, TypeOK
  <2> QED
    BY <1>2, <2>2 DEF Delete, TypeOK, row, handler, upload, reports
<1> QED
    BY <1>1, <1>2

LEMMA DeletesPrefixTypes ==
    ASSUME TypeOK, NEW d \in Deleters, DeletesPrefix(d)
    PROVE  deletes' \in [Deleters -> Listing]
<1>1. [deletes[d] EXCEPT !.step = "list"] \in Listing
    BY DEF TypeOK, Listing
<1> QED
    BY <1>1 DEF DeletesPrefix, TypeOK

(* The decision. *)
LEMMA DecisionTypes ==
    ASSUME TypeOK, Block \/ RemovalFails
    PROVE  TypeOK'
<1>1. "decision" \in Deleters
    BY DEF Deleters
<1>2. CASE Block
    BY <1>1, <1>2, DeletesPrefixTypes DEF Block, TypeOK, row, handler, upload, reports
<1>3. CASE RemovalFails
  <2>1. stored' \in SUBSET Files /\ deletes' \in [Deleters -> Listing]
    BY <1>3, NoListingType DEF RemovalFails, TypeOK
  <2>2. faults' \in 0..MaxFaults
    BY <1>3 DEF RemovalFails, Faulty, TypeOK
  <2> QED
    BY <1>3, <2>1, <2>2 DEF RemovalFails, TypeOK, row, handler, upload, reports
<1> QED
    BY <1>2, <1>3

(* Everything the handler does outside of BullMQ's care. *)
LEMMA HandlerTypes ==
    ASSUME TypeOK,
           Start \/ Encoding \/ Encoded \/ PutBatch \/ Uploaded \/ PutRejects
             \/ Ready \/ Recheck \/ Done \/ Catch \/ Rejects
    PROVE  TypeOK'
<1> USE DEF TypeOK, row, handler, upload, reports, Goto, Steps
<1>1. CASE Start
    BY <1>1 DEF Start
<1>2. CASE Encoding
    BY <1>2 DEF Encoding
<1>3. CASE Encoded
    BY <1>3 DEF Encoded
<1>4. CASE PutBatch
    BY <1>4 DEF PutBatch
<1>5. CASE Uploaded
    BY <1>5 DEF Uploaded
<1>6. CASE PutRejects
    BY <1>6 DEF PutRejects, Faulty
<1>7. CASE Ready
    BY <1>7 DEF Ready
<1>8. CASE Recheck
  <2>1. deletes' \in [Deleters -> Listing]
    BY <1>8, DeletesPrefixTypes DEF Recheck, Deleters
  <2> QED
    BY <1>8, <2>1 DEF Recheck
<1>9. CASE Done
    BY <1>9 DEF Done
<1>10. CASE Catch
    BY <1>10 DEF Catch
<1>11. CASE Rejects
  <2>1. deletes' \in [Deleters -> Listing] /\ stored' \in SUBSET Files
    BY <1>11, NoListingType DEF Rejects
  <2> QED
    BY <1>11, <2>1 DEF Rejects, Faulty
<1> QED
    BY <1>1, <1>2, <1>3, <1>4, <1>5, <1>6, <1>7, <1>8, <1>9, <1>10, <1>11

LEMMA CountedJob ==
    ASSUME TypeOK, job.made < MaxAttempts,
           NEW state \in {"completed", "failed", "waiting"},
           job' = [job EXCEPT !.state = state, !.made = @ + 1]
    PROVE  job' \in Job /\ job'.state = state /\ job'.made = job.made + 1
<1>1. job \in Job /\ job.made + 1 \in 0..MaxAttempts
    BY DEF TypeOK, Job
<1> QED
    BY <1>1 DEF Job

(* What happens to the job, and what nobody awaits. *)
LEMMA JobTypes ==
    ASSUME TypeOK, Take \/ Settle \/ WorkerCrash
    PROVE  TypeOK'
<1>1. CASE Take
    BY <1>1 DEF Take, TypeOK, Job, Steps, row, upload, reports
<1>2. CASE Settle
  <2>1. job.state = "active" /\ job.made < MaxAttempts /\ job.made \in Nat
    BY <1>2 DEF Settle, TypeOK, Job
  <2> DEFINE after == CASE pc = "return" -> "completed"
                        [] pc = "throw" /\ LastAttempt -> "failed"
                        [] OTHER -> "waiting"
  <2>2. after \in {"completed", "failed", "waiting"}
    OBVIOUS
  <2>3. after = "waiting" => job.made + 1 < MaxAttempts
    BY <1>2, <2>1 DEF Settle, LastAttempt
  <2>4. job' = [job EXCEPT !.state = after, !.made = @ + 1]
    BY <1>2 DEF Settle
  <2> HIDE DEF after
  <2>5. job' \in Job /\ job'.state = after /\ job'.made = job.made + 1
    BY <2>1, <2>2, <2>4, CountedJob
  <2> QED
    BY <1>2, <2>2, <2>3, <2>5 DEF Settle, TypeOK, Steps, row, upload, reports
<1>3. CASE WorkerCrash
  <2>1. stored' \in SUBSET Files /\ deletes' \in [Deleters -> Listing]
    BY <1>3, NoListingType DEF WorkerCrash, TypeOK
  <2>2. faults' \in 0..MaxFaults
    BY <1>3 DEF WorkerCrash, Faulty, TypeOK
  <2>3. job' \in Job
    BY <1>3 DEF WorkerCrash, TypeOK, Job
  <2>4. /\ job.made < MaxAttempts /\ job'.made = job.made
        /\ job'.state \in {"failed", "waiting"}
    BY <1>3 DEF WorkerCrash, TypeOK, Job
  <2>5. adrift' \in SUBSET Files /\ batch' \in SUBSET Files /\ pc' = "idle"
    BY <1>3 DEF WorkerCrash, TypeOK
  <2> QED
    BY <1>3, <2>1, <2>2, <2>3, <2>4, <2>5 DEF WorkerCrash, TypeOK, Steps, row, reports
<1> QED
    BY <1>1, <1>2, <1>3

LEMMA LooseTypes ==
    ASSUME TypeOK,
           \/ \E pct \in 1..(Whole - 1) : OnProgress(pct) \/ ProgressLands(pct)
           \/ \E f \in Files : PutLands(f) \/ AdriftEnds(f)
    PROVE  TypeOK'
<1> USE DEF TypeOK, row, handler, upload, reports
<1>1. ASSUME NEW pct \in 1..(Whole - 1), OnProgress(pct)
      PROVE  TypeOK'
    BY <1>1 DEF OnProgress
<1>2. ASSUME NEW pct \in 1..(Whole - 1), ProgressLands(pct)
      PROVE  TypeOK'
    BY <1>2 DEF ProgressLands
<1>3. ASSUME NEW f \in Files, PutLands(f) \/ AdriftEnds(f)
      PROVE  TypeOK'
    BY <1>3 DEF PutLands, AdriftEnds
<1> QED
    BY <1>1, <1>2, <1>3

LEMMA NextTypes ==
    ASSUME TypeOK, [Next]_vars
    PROVE  TypeOK'
<1>1. CASE UNCHANGED vars
    BY <1>1 DEF vars, row, handler, upload, reports, TypeOK
<1> QED
    BY <1>1, ListTypes, DecisionTypes, HandlerTypes, JobTypes, LooseTypes DEF Next

(* Every variable keeps its type, the handler runs only while its job is     *)
(* active, and no attempt is made beyond the last.                           *)
THEOREM UploadTypes == Spec => []TypeOK
<1>1. Init => TypeOK
    BY InitTypes
<1>2. TypeOK /\ [Next]_vars => TypeOK'
    BY NextTypes
<1> QED
    BY <1>1, <1>2, PTL DEF Spec

-----------------------------------------------------------------------------
(* Removals. *)

(* Nobody deletes before a decision has blocked the video. *)
LEMMA DeletesAfterBlock ==
    ASSUME UploadInv, NEW d \in Deleters, deletes[d] # NoListing
    PROVE  blocked
    BY DEF UploadInv, UploadedIsStored

LEMMA BothDeleters == "job" \in Deleters /\ "decision" \in Deleters
    BY DEF Deleters

(* A file that a removal has before it is deleted or stays before it. *)
LEMMA RemovalGoesOn ==
    ASSUME TypeOK, NEW d \in Deleters, List(d) \/ Delete(d),
           NEW e \in Deleters, NEW f \in stored', WillDelete(e, f)
    PROVE  WillDelete(e, f)'
<1>1. CASE e # d
    BY <1>1 DEF List, Delete, WillDelete, TypeOK
<1>2. CASE e = d /\ List(d)
  <2> DEFINE token == deletes[d].token
             page  == Listed(token)
  <2>1. token \in 0..NFiles /\ stored \in SUBSET Files /\ f \in stored
    BY <1>2 DEF List, TypeOK, Listing
  <2>2. f \in Beyond(token)
    BY <1>2, <2>1 DEF List, WillDelete, Beyond
  <2>3. page # {}
    BY <2>1, <2>2, PageIsPrefix
  <2>4. deletes'[d] = [step |-> "delete", token |-> LastKey(page), page |-> page,
                       truncated |-> page # Beyond(token)]
    BY <1>2, <2>3 DEF List, TypeOK
  <2>5. CASE f \in page
    <3> HIDE DEF page, token
    <3> QED
      BY <1>2, <2>4, <2>5 DEF WillDelete
  <2>6. CASE f \notin page
    <3>1. f > LastKey(page) /\ page # Beyond(token)
      BY <2>1, <2>2, <2>3, <2>6, PageIsPrefix
    <3> HIDE DEF page, token
    <3>2. (page # Beyond(token)) = TRUE
      BY <3>1
    <3>3. deletes'[d] = [step |-> "delete", token |-> LastKey(page), page |-> page,
                         truncated |-> TRUE]
      BY <2>4, <3>2, Zenon
    <3>4. deletes'[d].step = "delete" /\ deletes'[d].token = LastKey(page)
      BY <2>4
    <3> QED
      BY <1>2, <3>1, <3>3, <3>4 DEF WillDelete
  <2> QED
    BY <2>5, <2>6
<1>3. CASE e = d /\ Delete(d)
  <2>1. f \notin deletes[d].page /\ deletes[d].step = "delete"
    BY <1>3 DEF Delete
  <2>2. deletes[d].truncated /\ f > deletes[d].token
    BY <1>3, <2>1 DEF WillDelete
  <2>3. deletes'[d] = [deletes[d] EXCEPT !.step = "list", !.page = {}]
    BY <1>3, <2>2 DEF Delete, After, GoesOn, TypeOK
  <2>4. deletes'[d].step = "list" /\ deletes'[d].token = deletes[d].token
    BY <2>3 DEF TypeOK, Listing
  <2> QED
    BY <1>3, <2>2, <2>4 DEF WillDelete
<1> QED
    BY <1>1, <1>2, <1>3

LEMMA RemovalsKeepInv ==
    ASSUME TypeOK, UploadInv, NEW d \in Deleters, List(d) \/ Delete(d)
    PROVE  UploadInv'
<1>1. blocked /\ blocked' = blocked /\ UNCHANGED <<pc, batch, adrift, faults>>
  <2>1. deletes[d] # NoListing
    BY DEF List, Delete, NoListing
  <2> QED
    BY <2>1, DeletesAfterBlock DEF List, Delete, row, handler, upload
<1>2. UploadedIsStored'
    BY <1>1 DEF UploadedIsStored
<1>3. stored' \subseteq stored
    BY DEF List, Delete
<1>4. RemovalReachesAll'
    BY <1>1, <1>3, RemovalGoesOn, BothDeleters DEF UploadInv, RemovalReachesAll
<1>5. StepsAreAwaited'
  <2>1. ASSUME NEW e \in Deleters, deletes'[e].step = "idle"
        PROVE  deletes'[e] = NoListing
    <3>1. CASE e # d
      BY <2>1, <3>1 DEF List, Delete, TypeOK, UploadInv, StepsAreAwaited
    <3>2. CASE e = d /\ List(d)
      BY <2>1, <3>2 DEF List, TypeOK
    <3>3. CASE e = d /\ Delete(d)
      <4>1. deletes'[d] = After(deletes[d]) /\ deletes[d] \in Listing
        BY <3>3 DEF Delete, TypeOK
      <4> QED
        BY <2>1, <3>3, <4>1 DEF After, Listing
    <3> QED
      BY <3>1, <3>2, <3>3
  <2>2. pc # "cleanup" => deletes'["job"] = NoListing
    <3>1. pc # "cleanup" => deletes["job"] = NoListing
      BY DEF UploadInv, StepsAreAwaited
    <3>2. pc # "cleanup" => d # "job"
      BY <3>1 DEF List, Delete, NoListing
    <3> QED
      BY <3>1, <3>2, BothDeleters DEF List, Delete, TypeOK
  <2> QED
    BY <1>1, <2>1, <2>2 DEF UploadInv, StepsAreAwaited
<1> QED
    BY <1>2, <1>4, <1>5 DEF UploadInv

(* A removal that starts has every file before it. *)
LEMMA RemovalStarts ==
    ASSUME TypeOK, NEW d \in Deleters, deletes[d] = NoListing, DeletesPrefix(d),
           stored' = stored
    PROVE  /\ \A f \in stored' : WillDelete(d, f)'
           /\ deletes'[d].step = "list"
           /\ \A e \in Deleters : e # d => deletes'[e] = deletes[e]
<1>1. deletes'[d] = [NoListing EXCEPT !.step = "list"]
    BY DEF DeletesPrefix, TypeOK
<1>2. deletes'[d].step = "list" /\ deletes'[d].token = 0
    BY <1>1 DEF NoListing
<1>3. \A f \in stored : f > 0
    BY DEF TypeOK, Files
<1> QED
    BY <1>2, <1>3 DEF WillDelete, DeletesPrefix, TypeOK

LEMMA DecisionKeepsInv ==
    ASSUME TypeOK, UploadInv, Block \/ RemovalFails
    PROVE  UploadInv'
<1>1. CASE Block
  <2>1. deletes["decision"] = NoListing
    BY <1>1, BothDeleters DEF Block, UploadInv, UploadedIsStored
  <2>2. /\ \A f \in stored' : WillDelete("decision", f)'
        /\ deletes'["decision"].step = "list"
        /\ \A e \in Deleters : e # "decision" => deletes'[e] = deletes[e]
    BY <1>1, <2>1, BothDeleters, RemovalStarts DEF Block
  <2>3. UploadedIsStored' /\ RemovalReachesAll'
    BY <1>1, <2>2 DEF Block, UploadedIsStored, RemovalReachesAll
  <2>4. StepsAreAwaited'
    BY <1>1, <2>2, BothDeleters DEF Block, UploadInv, StepsAreAwaited, handler, upload
  <2> QED
    BY <2>3, <2>4 DEF UploadInv
<1>2. CASE RemovalFails
  <2>1. deletes["decision"] # NoListing
    BY <1>2 DEF RemovalFails, NoListing
  <2>2. blocked' = TRUE
    BY <1>2, <2>1, BothDeleters, DeletesAfterBlock DEF RemovalFails, row, TypeOK
  <2>3. faults' # 0
    BY <1>2 DEF RemovalFails, Faulty, TypeOK
  <2>4. \A e \in Deleters : deletes'[e] = NoListing \/ deletes'[e] = deletes[e]
    BY <1>2 DEF RemovalFails, TypeOK
  <2>5. deletes'["job"] = deletes["job"]
    BY <1>2, BothDeleters DEF RemovalFails, TypeOK
  <2>6. StepsAreAwaited'
    BY <1>2, <2>3, <2>4, <2>5 DEF RemovalFails, UploadInv, StepsAreAwaited, handler, upload
  <2> QED
    BY <2>2, <2>3, <2>6 DEF UploadInv, UploadedIsStored, RemovalReachesAll
<1> QED
    BY <1>1, <1>2

-----------------------------------------------------------------------------
(* The handler. *)

(* What does not touch files, listings or the decision keeps the parts of    *)
(* the invariant that are about them.                                        *)
LEMMA FaultsKeepRemovals ==
    ASSUME TypeOK, Faulty
    PROVE  faults' # 0 /\ RemovalReachesAll'
    BY DEF Faulty, TypeOK, RemovalReachesAll

LEMMA StepKeepsRemovals ==
    ASSUME RemovalReachesAll, UNCHANGED <<blocked, stored, deletes, faults>>,
           blocked => \/ pc' \in {"encoding", "ffmpeg", "upload", "ready", "recheck"}
                      \/ pc \notin {"encoding", "ffmpeg", "upload", "ready", "recheck",
                                    "cleanup"}
    PROVE  RemovalReachesAll'
    BY DEF RemovalReachesAll, WillDelete

(* Up to the end of the upload. *)
LEMMA UploadKeepsInv ==
    ASSUME TypeOK, UploadInv,
           Start \/ Encoding \/ Encoded \/ PutBatch \/ Uploaded \/ PutRejects
    PROVE  UploadInv'
<1> USE DEF UploadInv, UploadedIsStored, StepsAreAwaited, row, handler, upload, reports, Goto
<1>1. CASE Start
  <2>1. RemovalReachesAll'
    BY <1>1, StepKeepsRemovals DEF Start
  <2> QED
    BY <1>1, <2>1 DEF Start
<1>2. CASE Encoding
  <2>1. RemovalReachesAll'
    BY <1>2, StepKeepsRemovals DEF Encoding
  <2> QED
    BY <1>2, <2>1 DEF Encoding
<1>3. CASE Encoded
  <2>1. RemovalReachesAll'
    BY <1>3, StepKeepsRemovals DEF Encoded
  <2> QED
    BY <1>3, <2>1 DEF Encoded
<1>4. CASE PutBatch
  <2>1. RemovalReachesAll'
    BY <1>4, StepKeepsRemovals DEF PutBatch
  <2> QED
    BY <1>4, <2>1 DEF PutBatch
<1>5. CASE Uploaded
  <2>1. RemovalReachesAll'
    BY <1>5, StepKeepsRemovals DEF Uploaded
  <2>2. uploaded = Files
    BY <1>5 DEF Uploaded, AllPut, TypeOK
  <2> QED
    BY <1>5, <2>1, <2>2 DEF Uploaded
<1>6. CASE PutRejects
  <2>1. RemovalReachesAll' /\ faults' # 0
    BY <1>6, FaultsKeepRemovals DEF PutRejects
  <2> QED
    BY <1>6, <2>1 DEF PutRejects
<1> QED
    BY <1>1, <1>2, <1>3, <1>4, <1>5, <1>6

(* From READY on. *)
LEMMA HandlerKeepsInv ==
    ASSUME TypeOK, UploadInv, Ready \/ Recheck \/ Done \/ Catch \/ Rejects
    PROVE  UploadInv'
<1> USE DEF UploadInv, UploadedIsStored, StepsAreAwaited, row, handler, upload, reports, Goto
<1>1. CASE Ready
  <2>1. RemovalReachesAll'
    BY <1>1, StepKeepsRemovals DEF Ready
  <2>2. ~blocked => stored = Files
    BY <1>1 DEF Ready, TypeOK
  <2> QED
    BY <1>1, <2>1, <2>2 DEF Ready
<1>2. CASE Recheck /\ blocked
  <2>1. deletes["job"] = NoListing /\ DeletesPrefix("job") /\ pc' = "cleanup"
    BY <1>2 DEF Recheck
  <2>2. /\ \A f \in stored' : WillDelete("job", f)'
        /\ deletes'["job"].step = "list"
        /\ \A e \in Deleters : e # "job" => deletes'[e] = deletes[e]
    BY <1>2, <2>1, BothDeleters, RemovalStarts DEF Recheck
  <2>3. RemovalReachesAll'
    BY <2>1, <2>2 DEF RemovalReachesAll
  <2> QED
    BY <1>2, <2>1, <2>2, <2>3, BothDeleters DEF Recheck
<1>3. CASE Recheck /\ ~blocked
  <2>1. RemovalReachesAll'
    BY <1>3, StepKeepsRemovals DEF Recheck
  <2> QED
    BY <1>3, <2>1 DEF Recheck
<1>4. CASE Done
  <2>1. deletes["job"] = NoListing
    BY <1>4, BothDeleters DEF Done
  <2>2. \A f \in stored : ~WillDelete("job", f)
    BY <2>1 DEF WillDelete, NoListing
  <2>3. RemovalReachesAll'
    BY <1>4, <2>2 DEF Done, RemovalReachesAll, WillDelete
  <2> QED
    BY <1>4, <2>1, <2>3 DEF Done
<1>5. CASE Catch
  <2>1. RemovalReachesAll'
    BY <1>5, StepKeepsRemovals DEF Catch
  <2> QED
    BY <1>5, <2>1 DEF Catch
<1>6. CASE Rejects
  <2>1. RemovalReachesAll' /\ faults' # 0
    BY <1>6, FaultsKeepRemovals DEF Rejects
  <2>2. \A e \in Deleters : deletes'[e] = NoListing \/ deletes'[e] = deletes[e]
    BY <1>6 DEF Rejects, TypeOK
  <2>3. pc # "cleanup" \/ deletes'["job"] = NoListing
    BY <1>6, BothDeleters DEF Rejects, TypeOK
  <2>4. pc' # "cleanup" => deletes'["job"] = NoListing
    BY <1>6, <2>2, <2>3, BothDeleters DEF Rejects
  <2>5. ASSUME ~blocked PROVE stored' = stored
    <3>1. deletes["job"].page = {}
      BY <2>5, BothDeleters DEF NoListing
    <3> QED
      BY <1>6, <3>1 DEF Rejects
  <2> QED
    BY <1>6, <2>1, <2>2, <2>4, <2>5 DEF Rejects
<1> QED
    BY <1>1, <1>2, <1>3, <1>4, <1>5, <1>6

LEMMA JobKeepsInv ==
    ASSUME TypeOK, UploadInv, Take \/ Settle \/ WorkerCrash
    PROVE  UploadInv'
<1> USE DEF UploadInv, UploadedIsStored, StepsAreAwaited, row, upload, reports
<1>1. CASE Take
  <2>1. pc = "idle"
    BY <1>1 DEF Take, TypeOK
  <2>2. RemovalReachesAll'
    BY <1>1, <2>1, StepKeepsRemovals DEF Take
  <2> QED
    BY <1>1, <2>1, <2>2 DEF Take
<1>2. CASE Settle
  <2>1. RemovalReachesAll'
    BY <1>2, StepKeepsRemovals DEF Settle
  <2> QED
    BY <1>2, <2>1 DEF Settle
<1>3. CASE WorkerCrash
  <2>1. RemovalReachesAll' /\ faults' # 0
    BY <1>3, FaultsKeepRemovals DEF WorkerCrash
  <2>2. \A e \in Deleters : deletes'[e] = NoListing \/ deletes'[e] = deletes[e]
    BY <1>3 DEF WorkerCrash, TypeOK
  <2>3. deletes'["job"] = NoListing
    BY <1>3, BothDeleters DEF WorkerCrash, TypeOK
  <2>4. ASSUME ~blocked PROVE stored' = stored
    <3>1. deletes["job"].page = {}
      BY <2>4, BothDeleters DEF NoListing
    <3> QED
      BY <1>3, <3>1 DEF WorkerCrash
  <2> QED
    BY <1>3, <2>1, <2>2, <2>3, <2>4 DEF WorkerCrash
<1> QED
    BY <1>1, <1>2, <1>3

LEMMA LooseKeepsInv ==
    ASSUME TypeOK, UploadInv,
           \/ \E pct \in 1..(Whole - 1) : OnProgress(pct) \/ ProgressLands(pct)
           \/ \E f \in Files : PutLands(f) \/ AdriftEnds(f)
    PROVE  UploadInv'
<1> USE DEF UploadInv, UploadedIsStored, StepsAreAwaited, row, handler, upload, reports
<1>1. ASSUME NEW pct \in 1..(Whole - 1), OnProgress(pct) \/ ProgressLands(pct)
      PROVE  UploadInv'
  <2>1. RemovalReachesAll'
    BY <1>1 DEF OnProgress, ProgressLands, RemovalReachesAll, WillDelete
  <2>2. rendition'.status = rendition.status
    BY <1>1 DEF OnProgress, ProgressLands, TypeOK
  <2> QED
    BY <1>1, <2>1, <2>2 DEF OnProgress, ProgressLands
<1>2. ASSUME NEW f \in Files, PutLands(f)
      PROVE  UploadInv'
  <2>1. pc = "upload" /\ pc' = pc
    BY <1>2 DEF PutLands
  <2>2. RemovalReachesAll'
    BY <2>1 DEF RemovalReachesAll
  <2>3. ~blocked => uploaded' \subseteq stored' /\ (stored = Files => stored' = Files)
    BY <1>2 DEF PutLands
  <2> QED
    BY <1>2, <2>1, <2>2, <2>3 DEF PutLands
<1>3. ASSUME NEW f \in Files, AdriftEnds(f)
      PROVE  UploadInv'
  <2>1. faults # 0 /\ faults' = faults
    BY <1>3 DEF AdriftEnds
  <2>2. RemovalReachesAll'
    BY <2>1 DEF RemovalReachesAll
  <2>3. stored \subseteq stored' /\ (stored = Files => stored' = Files)
    BY <1>3 DEF AdriftEnds
  <2> QED
    BY <1>3, <2>1, <2>2, <2>3 DEF AdriftEnds
<1> QED
    BY <1>1, <1>2, <1>3

LEMMA NextKeepsInv ==
    ASSUME TypeOK, UploadInv, [Next]_vars
    PROVE  UploadInv'
<1>1. CASE UNCHANGED vars
    BY <1>1 DEF vars, row, handler, upload, reports, UploadInv, UploadedIsStored,
                RemovalReachesAll, StepsAreAwaited, WillDelete
<1> QED
    BY <1>1, RemovalsKeepInv, DecisionKeepsInv, UploadKeepsInv, HandlerKeepsInv,
       JobKeepsInv, LooseKeepsInv DEF Next

LEMMA InitInv == Init => UploadInv
<1> SUFFICES ASSUME Init PROVE UploadInv
    OBVIOUS
<1>1. \A d \in Deleters : deletes[d] = NoListing
    BY DEF Init
<1>2. rendition.status = "pending" /\ pc = "idle" /\ ~blocked
    BY DEF Init
<1>3. uploaded = {} /\ batch = {} /\ adrift = {}
    BY DEF Init
<1> QED
    BY <1>1, <1>2, <1>3, BothDeleters
    DEF UploadInv, UploadedIsStored, RemovalReachesAll, StepsAreAwaited

-----------------------------------------------------------------------------
(* What is uploaded stays until a decision removes it, and then each file is *)
(* before a second look of its job or a removal that is under way.           *)
THEOREM UploadCorrect == Spec => []UploadInv
<1>1. Init => TypeOK /\ UploadInv
    BY InitTypes, InitInv
<1>2. TypeOK /\ UploadInv /\ [Next]_vars => (TypeOK /\ UploadInv)'
    BY NextTypes, NextKeepsInv
<1> QED
    BY <1>1, <1>2, PTL DEF Spec

(* A READY rendition of a video that was not blocked has all its files.      *)
THEOREM ReadyMeansComplete == Spec => []ReadyIsComplete
<1>1. UploadInv => ReadyIsComplete
    BY DEF UploadInv, UploadedIsStored, ReadyIsComplete
<1> QED
    BY <1>1, UploadCorrect, PTL

(* At rest and without a failure nothing is left of a blocked video, however *)
(* many pages its files took.                                                *)
THEOREM RemovalsAreComplete == Spec => []BlockedLeavesNoFiles
<1>1. TypeOK /\ UploadInv => BlockedLeavesNoFiles
  <2> SUFFICES ASSUME TypeOK, UploadInv, AtRest, blocked, faults = 0
               PROVE  stored = {}
    BY DEF BlockedLeavesNoFiles
  <2>1. pc = "idle"
    BY DEF AtRest, TypeOK
  <2>2. \A f \in stored : WillDelete("decision", f)
    BY <2>1 DEF UploadInv, RemovalReachesAll
  <2> QED
    BY <2>2 DEF WillDelete, AtRest
<1> QED
    BY <1>1, UploadTypes, UploadCorrect, PTL

-----------------------------------------------------------------------------
(* What the owner is told.  Without a failure the handler never comes to its *)
(* catch, so only Encoding takes a rendition from READY, and with a progress *)
(* of zero; a late update writes less than the whole.                        *)
WholeIsReady ==
    faults = 0 => pc # "catch" /\ (isFinished \/ rendition.progress < Whole)

(* Steps that write neither the row of the rendition nor go to the catch. *)
LEMMA QuietKeepsWhole ==
    ASSUME WholeIsReady, rendition' = rendition, faults' = faults,
           pc' = pc \/ pc' # "catch"
    PROVE  WholeIsReady'
    BY DEF WholeIsReady, isFinished

LEMMA NextKeepsWhole ==
    ASSUME TypeOK, WholeIsReady, [Next]_vars
    PROVE  WholeIsReady'
<1> USE DEF row, handler, upload, reports, Goto
<1>1. CASE PutRejects \/ Rejects \/ WorkerCrash \/ RemovalFails
  <2>1. faults' # 0
    BY <1>1 DEF PutRejects, Rejects, WorkerCrash, RemovalFails, Faulty, TypeOK
  <2> QED
    BY <2>1 DEF WholeIsReady
<1>2. CASE Take \/ Start \/ Encoded \/ PutBatch \/ Uploaded \/ Recheck \/ Done \/ Settle
    BY <1>2, QuietKeepsWhole
    DEF Take, Start, Encoded, PutBatch, Uploaded, Recheck, Done, Settle
<1>3. CASE Encoding
  <2>1. rendition'.progress = 0 /\ pc' = "ffmpeg"
    BY <1>3 DEF Encoding
  <2> QED
    BY <2>1 DEF WholeIsReady
<1>4. CASE Ready
  <2>1. rendition'.status = "ready" /\ pc' = "recheck"
    BY <1>4 DEF Ready
  <2> QED
    BY <2>1 DEF WholeIsReady, isFinished
<1>5. CASE Catch
  <2>1. faults' # 0
    BY <1>5 DEF Catch, WholeIsReady
  <2> QED
    BY <2>1 DEF WholeIsReady
<1>6. ASSUME NEW pct \in 1..(Whole - 1), OnProgress(pct)
      PROVE  WholeIsReady'
    BY <1>6, QuietKeepsWhole DEF OnProgress
<1>7. ASSUME NEW pct \in 1..(Whole - 1), ProgressLands(pct)
      PROVE  WholeIsReady'
  <2>1. rendition'.status = rendition.status
    BY <1>7 DEF ProgressLands, TypeOK
  <2>2. rendition'.progress = rendition.progress \/ rendition'.progress < Whole
    BY <1>7 DEF ProgressLands, TypeOK
  <2> QED
    BY <1>7, <2>1, <2>2 DEF ProgressLands, WholeIsReady, isFinished
<1>8. ASSUME NEW f \in Files, PutLands(f) \/ AdriftEnds(f)
      PROVE  WholeIsReady'
    BY <1>8, QuietKeepsWhole DEF PutLands, AdriftEnds
<1>9. CASE Block
    BY <1>9, QuietKeepsWhole DEF Block
<1>10. ASSUME NEW d \in Deleters, List(d) \/ Delete(d)
       PROVE  WholeIsReady'
    BY <1>10, QuietKeepsWhole DEF List, Delete
<1>11. CASE UNCHANGED vars
    BY <1>11, QuietKeepsWhole DEF vars
<1> QED
    BY <1>1, <1>2, <1>3, <1>4, <1>5, <1>6, <1>7, <1>8, <1>9, <1>10, <1>11 DEF Next

(* Rounding gives the whole when at most half a unit per rung is missing. *)
LEMMA DivIsFloor ==
    ASSUME NEW a \in Nat, NEW d \in Nat \ {0}
    PROVE  /\ a \div d \in Nat
           /\ d * (a \div d) <= a
           /\ a < d * (a \div d) + d
    OBVIOUS

LEMMA QuotientIsUnique ==
    ASSUME NEW d \in Nat \ {0}, NEW p \in Nat, NEW q \in Nat,
           d * p < d * q + d, d * q < d * p + d
    PROVE  p = q
<1>1. ASSUME NEW x \in Nat, NEW y \in Nat, x < y
      PROVE  d * y >= d * x + d
  <2>1. y - x - 1 \in Nat
    BY <1>1
  <2>2. d * (y - x - 1) >= 0
    BY <2>1
  <2>3. d * (y - x - 1) = d * y - d * x - d
    OBVIOUS
  <2> QED
    BY <2>2, <2>3
<1>2. ~(p < q) /\ ~(q < p)
    BY <1>1
<1> QED
    BY <1>2

LEMMA RoundedToWhole ==
    ASSUME NEW t \in Nat, NEW n \in Nat \ {0}, NEW w \in Nat, t <= w * n
    PROVE  Round(t, n) = w <=> 2 * (w * n - t) <= n
<1> DEFINE a == 2 * t + n
           d == 2 * n
           q == a \div d
<1>1. a \in Nat /\ d \in Nat \ {0} /\ w * n \in Nat /\ d * w = 2 * (w * n)
    OBVIOUS
<1>2. q \in Nat /\ d * q <= a /\ a < d * q + d
    BY <1>1, DivIsFloor
<1>3. ASSUME q = w
      PROVE  2 * (w * n - t) <= n
  <2>1. 2 * (w * n) <= a
    BY <1>1, <1>2, <1>3
  <2> QED
    BY <2>1, <1>1
<1>4. ASSUME 2 * (w * n - t) <= n
      PROVE  q = w
  <2>1. d * w <= a /\ a < d * w + d
    BY <1>1, <1>4
  <2>2. d * q \in Nat /\ d * w \in Nat
    BY <1>1, <1>2
  <2>3. d * q < d * w + d /\ d * w < d * q + d
    BY <2>1, <2>2, <1>1, <1>2
  <2> HIDE DEF q, d
  <2> QED
    BY <2>3, <1>1, <1>2, QuotientIsUnique
<1> QED
    BY <1>3, <1>4 DEF Round

LEMMA ShareTellsTheEnd ==
    ASSUME TypeOK, WholeIsReady, faults = 0
    PROVE  share \in 0..Whole /\ (share = Whole <=> isFinished)
    BY DEF TypeOK, WholeIsReady, share, isFinished

(* Without a failure the owner of a video that is done reads 100 per cent,   *)
(* however late its progress updates land, and before that only where the    *)
(* rounding hides what is missing, for a ladder of any length.               *)
THEOREM WholeIsTheEnd == Spec => []WholeWhenFinished
<1>1. Init => WholeIsReady
    BY DEF Init, WholeIsReady
<1>2. TypeOK /\ WholeIsReady /\ [Next]_vars => WholeIsReady'
    BY NextKeepsWhole
<1>3. TypeOK /\ WholeIsReady => WholeWhenFinished
  <2> SUFFICES ASSUME TypeOK, WholeIsReady, faults = 0,
                      NEW others \in 0..(Whole * Siblings)
               PROVE  /\ done(others) => percent(others) = Whole
                      /\ percent(others) = Whole =>
                           done(others) \/ 2 * missing(others) \in 2..(Siblings + 1)
    BY DEF WholeWhenFinished
  <2>1. share \in 0..Whole /\ (share = Whole <=> isFinished)
    BY ShareTellsTheEnd
  <2>2. Whole * Siblings \in Nat /\ Whole * (Siblings + 1) = Whole * Siblings + Whole
    OBVIOUS
  <2>3. /\ share + others \in Nat /\ share + others <= Whole * (Siblings + 1)
        /\ missing(others) \in Nat
        /\ missing(others) = 0 <=> share = Whole /\ others = Whole * Siblings
    BY <2>1, <2>2 DEF missing
  <2>4. percent(others) = Whole <=> 2 * missing(others) <= Siblings + 1
    <3> DEFINE t == share + others
               n == Siblings + 1
    <3>1. t \in Nat /\ n \in Nat \ {0} /\ Whole \in Nat /\ t <= Whole * n
      BY <2>3
    <3> HIDE DEF t, n
    <3>2. Round(t, n) = Whole <=> 2 * (Whole * n - t) <= n
      BY <3>1, RoundedToWhole
    <3> QED
      BY <3>2 DEF percent, missing, t, n
  <2>5. done(others) <=> missing(others) = 0
    BY <2>1, <2>3 DEF done
  <2> HIDE DEF missing, percent, done
  <2> QED
    BY <2>3, <2>4, <2>5
<1> QED
    BY <1>1, <1>2, <1>3, UploadTypes, PTL DEF Spec
=============================================================================
