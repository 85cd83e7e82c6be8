------------------------ MODULE ModerationAnalysisProofs ------------------------
(***************************************************************************)
(* Theorems of ModerationAnalysis, for videos of every duration, every     *)
(* length and number of chunks, and all that the model may answer.         *)
(*                                                                         *)
(* The reduce of mostSevere is a recursive function, so that this module   *)
(* needs induction over the naturals; SetInduction derives it from the     *)
(* well-founded order of Nat, for a set instead of a predicate.            *)
(***************************************************************************)
EXTENDS ModerationAnalysis, WellFoundedInduction, TLAPS

-----------------------------------------------------------------------------
(* Induction over the naturals: a set that has 0 and with each n also n + 1 *)
(* has them all.                                                            *)
LEMMA SetInduction ==
    ASSUME NEW S, 0 \in S, \A n \in Nat : n \in S => n + 1 \in S
    PROVE  Nat \subseteq S
<1> DEFINE T == Nat \ S
           R == OpToRel(<, Nat)
<1>1. SUFFICES ASSUME T # {} PROVE FALSE
  OBVIOUS
<1>2. IsWellFoundedOn(R, Nat)
  BY NatLessThanWellFounded
<1>3. T \subseteq Nat
  OBVIOUS
<1> HIDE DEF T, R
<1>4. PICK x \in T : \A y \in T : ~ (<<y, x>> \in R)
  BY <1>1, <1>2, <1>3, WFMin
<1> USE DEF T
<1>5. x - 1 \in T
  BY x # 0
<1>6. <<x - 1, x>> \in R
  BY <1>5 DEF R, OpToRel
<1>7. QED
  BY <1>4, <1>5, <1>6

-----------------------------------------------------------------------------
(* The plan of the chunks. *)

(* CeilDiv is the least number of parts of length b that cover a. *)
LEMMA CeilDivBounds ==
    ASSUME NEW a \in Nat, NEW b \in Nat \ {0}
    PROVE  /\ CeilDiv(a, b) \in Nat
           /\ CeilDiv(a, b) * b >= a
           /\ \A n \in Nat : n * b >= a => CeilDiv(a, b) <= n
<1> DEFINE q == (a + b - 1) \div b
           r == (a + b - 1) % b
<1>1. q \in Int /\ r \in 0..(b - 1)
  OBVIOUS
<1>2. a + b - 1 = b * q + r
  OBVIOUS
<1>3. q \in Nat
  BY <1>1, <1>2
<1>4. q * b >= a
  BY <1>1, <1>2, <1>3
<1>5. ASSUME NEW n \in Nat, n * b >= a PROVE q <= n
  BY <1>1, <1>2, <1>3, <1>5
<1>6. QED
  BY <1>3, <1>4, <1>5 DEF CeilDiv

(* The chunks reach the end of every video, and MaxChunks are enough. *)
LEMMA ChunksCover ==
    ASSUME NEW d \in Nat
    PROVE  /\ chunkSeconds(d) \in Nat \ {0}
           /\ chunkCount(d) \in 1..MaxChunks
           /\ chunkCount(d) * chunkSeconds(d) >= d
<1> DEFINE length == CeilDiv(d, MaxChunks)
           s == chunkSeconds(d)
           count == CeilDiv(d, s)
<1>1. MaxChunks \in Nat \ {0} /\ ChunkSeconds \in Nat \ {0}
  BY ChunksAssumption
<1>2. length \in Nat /\ length * MaxChunks >= d
  BY <1>1, CeilDivBounds
<1> HIDE DEF length
<1>3. s \in Nat \ {0} /\ s >= length
  BY <1>1, <1>2 DEF chunkSeconds, LargerOf, length
<1> HIDE DEF s
<1>4. s * MaxChunks >= length * MaxChunks
  BY <1>1, <1>2, <1>3
<1>5. MaxChunks * s >= d
  BY <1>1, <1>2, <1>3, <1>4
<1>6. /\ count \in Nat
      /\ count * s >= d
      /\ count <= MaxChunks
  BY <1>1, <1>3, <1>5, CeilDivBounds
<1> HIDE DEF count
<1>7. chunkCount(d) = IF 1 >= count THEN 1 ELSE count
  BY DEF chunkCount, LargerOf, count, s
<1>8. chunkCount(d) \in 1..MaxChunks /\ chunkCount(d) >= count
  BY <1>1, <1>6, <1>7
<1>9. chunkCount(d) * s >= count * s
  BY <1>3, <1>6, <1>8
<1>10. chunkCount(d) * s >= d
  BY <1>1, <1>3, <1>6, <1>8, <1>9
<1>11. QED
  BY <1>3, <1>8, <1>10 DEF s

-----------------------------------------------------------------------------
(* The reduce of mostSevere. *)

Decided == ModerationStatus \ {"pending"}

(* worst is the function its definition describes. *)
LEMMA WorstUnfolds ==
    ASSUME NEW ds \in Seq(Decided)
    PROVE  worst(ds) = [n \in 0..Len(ds) |->
                          IF n = 0 THEN "approved" ELSE Worse(worst(ds)[n - 1], ds[n])]
<1> DEFINE Step(f, n) == IF n = 0 THEN "approved" ELSE Worse(f[n - 1], ds[n])
           IsWorst(f, k) == f = [n \in 0..k |-> Step(f, n)]
           S == {k \in Nat : \E f : IsWorst(f, k)}
<1>1. 0 \in S
  <2> DEFINE f == [n \in 0..0 |-> "approved"]
  <2>1. IsWorst(f, 0)
    OBVIOUS
  <2> HIDE DEF IsWorst
  <2>2. QED
    BY <2>1
<1>2. ASSUME NEW k \in Nat, k \in S PROVE k + 1 \in S
  <2>1. PICK f : IsWorst(f, k)
    BY <1>2
  <2> DEFINE g == [n \in 0..(k + 1) |-> IF n = k + 1 THEN Worse(f[k], ds[k + 1]) ELSE f[n]]
  <2>2. ASSUME NEW n \in 0..(k + 1) PROVE g[n] = Step(g, n)
    <3>1. CASE n = 0
      <4>1. f[0] = "approved"
        BY <2>1
      <4>2. QED
        BY <3>1, <4>1
    <3>2. CASE n = k + 1
      <4>1. g[k] = f[k]
        OBVIOUS
      <4>2. QED
        BY <3>2, <4>1
    <3>3. CASE n \in 1..k
      <4>1. g[n] = f[n] /\ g[n - 1] = f[n - 1]
        BY <3>3
      <4>2. f[n] = Step(f, n)
        BY <2>1, <3>3
      <4>3. QED
        BY <3>3, <4>1, <4>2
    <3>4. QED
      BY <3>1, <3>2, <3>3
  <2>3. IsWorst(g, k + 1)
    <3> HIDE DEF Step
    <3>1. g = [n \in 0..(k + 1) |-> g[n]]
      OBVIOUS
    <3> HIDE DEF g
    <3>2. QED
      BY <2>2, <3>1
  <2> HIDE DEF g, IsWorst
  <2>4. QED
    BY <2>3
<1> HIDE DEF IsWorst
<1>3. Nat \subseteq S
  <2> HIDE DEF S
  <2>1. QED
    BY <1>1, <1>2, SetInduction
<1>4. \E f : IsWorst(f, Len(ds))
  BY <1>3
<1>5. worst(ds) = CHOOSE f : IsWorst(f, Len(ds))
  BY DEF worst, IsWorst
<1>6. IsWorst(worst(ds), Len(ds))
  BY <1>4, <1>5
<1>7. QED
  BY <1>6 DEF IsWorst

(* After n decisions it is no less severe than any of them, and it is one   *)
(* of them, unless it is still what the reduce began with.                  *)
LEMMA WorstBounds ==
    ASSUME NEW ds \in Seq(Decided), NEW n \in 0..Len(ds)
    PROVE  /\ worst(ds)[n] \in Decided
           /\ worst(ds)[n] = "approved" \/ \E i \in 1..n : ds[i] = worst(ds)[n]
           /\ \A i \in 1..n : Severity[ds[i]] <= Severity[worst(ds)[n]]
<1> DEFINE w == worst(ds)
           Good(k) == /\ w[k] \in Decided
                      /\ w[k] = "approved" \/ \E i \in 1..k : ds[i] = w[k]
                      /\ \A i \in 1..k : Severity[ds[i]] <= Severity[w[k]]
           S == {k \in Nat : k <= Len(ds) => Good(k)}
<1>1. /\ w[0] = "approved"
      /\ \A k \in 1..Len(ds) : w[k] = Worse(w[k - 1], ds[k])
  BY WorstUnfolds
<1> HIDE DEF w
<1>2. 0 \in S
  BY <1>1 DEF Decided, ModerationStatus
<1>3. ASSUME NEW k \in Nat, k \in S PROVE k + 1 \in S
  <2>1. SUFFICES ASSUME k + 1 <= Len(ds) PROVE Good(k + 1)
    OBVIOUS
  <2>2. Good(k)
    BY <1>3, <2>1
  <2>3. w[k + 1] = Worse(w[k], ds[k + 1]) /\ ds[k + 1] \in Decided
    BY <1>1, <2>1
  <2>4. /\ \A s \in Decided : Severity[s] \in Nat
        /\ w[k + 1] \in {w[k], ds[k + 1]}
        /\ Severity[w[k]] <= Severity[w[k + 1]]
        /\ Severity[ds[k + 1]] <= Severity[w[k + 1]]
    BY <2>2, <2>3 DEF Worse, Severity, Decided, ModerationStatus
  <2>5. w[k + 1] \in Decided
    BY <2>2, <2>3, <2>4
  <2>6. w[k + 1] = "approved" \/ \E i \in 1..(k + 1) : ds[i] = w[k + 1]
    BY <2>2, <2>4
  <2>7. ASSUME NEW i \in 1..(k + 1) PROVE Severity[ds[i]] <= Severity[w[k + 1]]
    <3>1. CASE i = k + 1
      BY <2>4, <3>1
    <3>2. CASE i \in 1..k
      <4>1. Severity[ds[i]] <= Severity[w[k]] /\ ds[i] \in Decided
        BY <2>1, <2>2, <3>2
      <4>2. QED
        BY <2>2, <2>4, <2>5, <4>1
    <3>3. QED
      BY <3>1, <3>2
  <2>8. QED
    BY <2>5, <2>6, <2>7
<1>4. Nat \subseteq S
  <2> HIDE DEF S
  <2>1. QED
    BY <1>2, <1>3, SetInduction
<1>5. Good(n)
  BY <1>4
<1>6. QED
  BY <1>5 DEF w

(* What combineResults gives for the decisions of the chunks.               *)
LEMMA CombinedIsWorst ==
    ASSUME NEW ds \in Seq(Decided), ds # <<>>
    PROVE  /\ combineResults(ds) \in Decided
           /\ \E i \in DOMAIN ds : ds[i] = combineResults(ds)
           /\ \A i \in DOMAIN ds : Severity[ds[i]] <= Severity[combineResults(ds)]
<1> DEFINE c == combineResults(ds)
<1>1. /\ c \in Decided
      /\ c = "approved" \/ \E i \in 1..Len(ds) : ds[i] = c
      /\ \A i \in 1..Len(ds) : Severity[ds[i]] <= Severity[c]
  BY WorstBounds, Len(ds) \in 0..Len(ds) DEF combineResults
<1> HIDE DEF c
<1>2. 1 \in DOMAIN ds /\ DOMAIN ds = 1..Len(ds) /\ ds[1] \in Decided
  OBVIOUS
<1>3. ASSUME c = "approved" PROVE ds[1] = c
  BY <1>1, <1>2, <1>3 DEF Severity, Decided, ModerationStatus
<1>4. QED
  BY <1>1, <1>2, <1>3 DEF c

-----------------------------------------------------------------------------
(* The analysis. *)

Flagged(a) == \E f \in a.flags : /\ f.category = "sexual_minors"
                                 /\ f.confidence >= QuarantineConfidence

(* A decision is never "pending", and quarantines what is flagged.          *)
LEMMA DecisionBounds ==
    ASSUME NEW a \in Answers
    PROVE  Decision(a) \in Decided /\ (Flagged(a) => Decision(a) = "quarantined")
<1>1. CASE a \in {Refused, Unusable}
  BY <1>1 DEF Refused, Unusable, Decision, Flagged, Decided, ModerationStatus
<1>2. CASE a \notin {Refused, Unusable}
  BY <1>2, Zenon DEF Decision, decideModeration, Flagged, Decided, ModerationStatus
<1>3. QED
  BY <1>1, <1>2

(* The inductive invariant: the loop goes on only from chunks that do not   *)
(* block, up to the number planned, and ends with the plan or a block.      *)
AnalysisInv ==
    /\ duration \in Nat
    /\ answer \in Answers
    /\ results \in Seq(Decided)
    /\ outcome \in ModerationStatus
    /\ Len(results) <= chunkCount(duration)
    /\ Flagged(answer) => results # <<>>
    /\ results # <<>> => Last(results) = Decision(answer)
    /\ outcome # "pending" => LoopEnds(results) /\ outcome = combineResults(results)

LEMMA AnalysisBegins == AnalysisInit => AnalysisInv
<1> SUFFICES ASSUME AnalysisInit PROVE AnalysisInv
  OBVIOUS
<1>1. duration \in Nat /\ chunkCount(duration) \in 1..MaxChunks
  BY DurationsAssumption, ChunksCover DEF AnalysisInit
<1>2. answer \in Answers /\ ~Flagged(answer)
  BY DEF AnalysisInit, Answers, Flagged, Unusable
<1>3. QED
  BY <1>1, <1>2, ChunksAssumption DEF AnalysisInit, AnalysisInv, ModerationStatus, Decided

LEMMA AnalysisGoesOn == AnalysisInv /\ [AnalysisNext]_analysisVars => AnalysisInv'
<1> SUFFICES ASSUME AnalysisInv, [AnalysisNext]_analysisVars PROVE AnalysisInv'
  OBVIOUS
<1> USE DEF AnalysisInv
<1>1. chunkCount(duration) \in 1..MaxChunks /\ MaxChunks \in Nat
  BY ChunksCover, ChunksAssumption
<1>2. CASE AnalyzeChunk
  <2>1. PICK a \in Answers : answer' = a /\ results' = Append(results, Decision(a))
    BY <1>2 DEF AnalyzeChunk
  <2>2. duration' = duration /\ outcome' = outcome /\ outcome = "pending"
    BY <1>2 DEF AnalyzeChunk
  <2>3. Decision(a) \in Decided
    BY DecisionBounds
  <2>4. Len(results) < chunkCount(duration)
    BY <1>1, <1>2 DEF AnalyzeChunk, LoopEnds
  <2>5. /\ results' \in Seq(Decided)
        /\ results' # <<>>
        /\ Len(results') <= chunkCount(duration)
        /\ Last(results') = Decision(a)
    BY <1>1, <2>1, <2>3, <2>4 DEF Last
  <2>6. QED
    BY <2>1, <2>2, <2>5
<1>3. CASE Combine
  <2>1. UNCHANGED <<duration, answer, results>> /\ LoopEnds(results)
        /\ outcome' = combineResults(results)
    BY <1>3 DEF Combine
  <2>2. results # <<>>
    BY <1>1, <2>1 DEF LoopEnds
  <2>3. outcome' \in ModerationStatus
    BY <2>1, <2>2, CombinedIsWorst DEF Decided
  <2>4. LoopEnds(results)'
    BY <2>1 DEF LoopEnds
  <2>5. QED
    BY <2>1, <2>3, <2>4
<1>4. CASE AttemptFails
  <2>1. answer' \in Answers /\ ~Flagged(answer')
    BY <1>4 DEF AttemptFails, Answers, Flagged, Unusable
  <2>2. QED
    BY <1>1, <1>4, <2>1 DEF AttemptFails, Decided
<1>5. CASE UNCHANGED analysisVars
  BY <1>5 DEF analysisVars, LoopEnds
<1>6. QED
  BY <1>2, <1>3, <1>4, <1>5 DEF AnalysisNext

(* Every analysis keeps to its plan.                                        *)
THEOREM AnalysisCorrect == AnalysisSpec => []AnalysisInv
<1>1. QED
  BY AnalysisBegins, AnalysisGoesOn, PTL DEF AnalysisSpec

(* What an analysis that is over rests on. *)
LEMMA OutcomeBounds ==
    ASSUME AnalysisInv, outcome # "pending"
    PROVE  /\ results # <<>>
           /\ outcome \in Decided
           /\ \E i \in DOMAIN results : results[i] = outcome
           /\ \A i \in DOMAIN results : Severity[results[i]] <= Severity[outcome]
           /\ Severity[Last(results)] <= Severity[outcome]
<1>1. results # <<>>
  BY ChunksCover, ChunksAssumption DEF AnalysisInv, LoopEnds
<1>2. /\ outcome \in Decided
      /\ \E i \in DOMAIN results : results[i] = outcome
      /\ \A i \in DOMAIN results : Severity[results[i]] <= Severity[outcome]
  BY <1>1, CombinedIsWorst DEF AnalysisInv
<1>3. Len(results) \in DOMAIN results
  BY <1>1 DEF AnalysisInv
<1>4. Severity[Last(results)] <= Severity[outcome]
  BY <1>2, <1>3 DEF Last
<1>5. QED
  BY <1>1, <1>2, <1>4

(* A video is approved or sent to review only after all of it was analyzed, *)
(* in no more than MaxChunks chunks, whatever its duration.                 *)
THEOREM EverythingWasSeen == AnalysisSpec => []OpenOutcomeSawEverything
<1>1. AnalysisInv => OpenOutcomeSawEverything
  <2> SUFFICES ASSUME AnalysisInv PROVE OpenOutcomeSawEverything
    OBVIOUS
  <2> USE DEF AnalysisInv
  <2>1. /\ chunkSeconds(duration) \in Nat \ {0}
        /\ chunkCount(duration) \in 1..MaxChunks
        /\ chunkCount(duration) * chunkSeconds(duration) >= duration
        /\ MaxChunks \in Nat
    BY ChunksCover, ChunksAssumption
  <2>2. Len(results) <= MaxChunks
    BY <2>1
  <2>3. ASSUME outcome \in {"approved", "needs_review"}
        PROVE  Len(results) * chunkSeconds(duration) >= duration
    <3>1. results # <<>> /\ Severity[Last(results)] <= Severity[outcome] /\ LoopEnds(results)
      BY <2>3, OutcomeBounds
    <3>2. ~isBlockedStatus(Last(results))
      BY <2>3, <3>1 DEF isBlockedStatus, Severity
    <3>3. Len(results) >= chunkCount(duration)
      BY <3>1, <3>2 DEF LoopEnds
    <3>4. Len(results) * chunkSeconds(duration) >= chunkCount(duration) * chunkSeconds(duration)
      BY <2>1, <3>3
    <3>5. QED
      BY <2>1, <3>3, <3>4
  <2>4. QED
    BY <2>2, <2>3 DEF OpenOutcomeSawEverything
<1>2. QED
  BY <1>1, AnalysisCorrect, PTL

(* The outcome of a video is the worst decision of its chunks, for any      *)
(* number of them.                                                          *)
THEOREM WorstChunkDecides == AnalysisSpec => []OutcomeIsWorstChunk
<1>1. AnalysisInv => OutcomeIsWorstChunk
  BY OutcomeBounds DEF OutcomeIsWorstChunk
<1>2. QED
  BY <1>1, AnalysisCorrect, PTL

(* A flag for sexual_minors quarantines the video, whatever else was        *)
(* flagged, in whatever context.                                            *)
THEOREM QuarantineDecides == AnalysisSpec => []QuarantineIsFinal
<1>1. AnalysisInv => QuarantineIsFinal
  <2> SUFFICES ASSUME AnalysisInv, outcome # "pending", Flagged(answer)
               PROVE  outcome = "quarantined"
    BY DEF QuarantineIsFinal, Flagged
  <2>1. Last(results) = "quarantined"
    BY DecisionBounds DEF AnalysisInv
  <2>2. outcome \in Decided /\ Severity["quarantined"] <= Severity[outcome]
    BY <2>1, OutcomeBounds
  <2>3. QED
    BY <2>2 DEF Severity, Decided, ModerationStatus
<1>2. QED
  BY <1>1, AnalysisCorrect, PTL
=============================================================================
