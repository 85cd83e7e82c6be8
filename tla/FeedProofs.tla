------------------------------- MODULE FeedProofs -------------------------------
(***************************************************************************)
(* What a reader can rely on, for any number of videos, any limit, any     *)
(* number of pages and of changes while he reads.                          *)
(***************************************************************************)
EXTENDS Feed, FiniteSetTheorems, SequenceTheorems, TLAPS

USE FeedAssumption

-----------------------------------------------------------------------------
(* Ranks and slices. *)

LEMMA VideoSets ==
    ASSUME NEW B \in SUBSET Videos, NEW A \in SUBSET B
    PROVE  /\ IsFiniteSet(A) /\ Cardinality(A) \in Nat /\ Cardinality(B) \in Nat
           /\ Cardinality(A) <= Cardinality(B)
           /\ Cardinality(A) = Cardinality(B) => A = B
<1>1. IsFiniteSet(Videos)
    BY FS_Interval DEF Videos
<1>2. IsFiniteSet(B)
    BY <1>1, FS_Subset
<1> QED
    BY <1>2, FS_Subset, FS_CardinalityType

LEMMA Together ==
    ASSUME NEW A \in SUBSET Videos, NEW B \in SUBSET Videos
    PROVE  /\ Cardinality(A \cup B) <= Cardinality(A) + Cardinality(B)
           /\ A \cap B = {} => Cardinality(A \cup B) = Cardinality(A) + Cardinality(B)
<1>1. IsFiniteSet(A) /\ IsFiniteSet(B)
    BY VideoSets
<1>2. Cardinality(A \cup B) = Cardinality(A) + Cardinality(B) - Cardinality(A \cap B)
    BY <1>1, FS_Union
<1>3. Cardinality(A \cap B) \in Nat /\ Cardinality(A) \in Nat /\ Cardinality(B) \in Nat
  <2>1. A \cap B \in SUBSET A
    OBVIOUS
  <2> QED
    BY <2>1, VideoSets
<1>4. A \cap B = {} => Cardinality(A \cap B) = 0
    BY FS_EmptySet
<1> QED
    BY <1>2, <1>3, <1>4

LEMMA RankType ==
    ASSUME NEW V \in SUBSET Videos, NEW v \in V
    PROVE  /\ Rank(v, V) \in Nat /\ Newer(v, V) \in SUBSET V
           /\ Rank(v, V) < Cardinality(V)
<1>1. Newer(v, V) \in SUBSET V /\ v \notin Newer(v, V)
    BY DEF Newer, Videos
<1> QED
    BY <1>1, VideoSets DEF Rank

(* A newer video has fewer videos before it. *)
LEMMA NewerIsBefore ==
    ASSUME NEW V \in SUBSET Videos, NEW v \in V, NEW u \in V, u > v
    PROVE  Rank(u, V) < Rank(v, V)
<1>1. Newer(u, V) \in SUBSET Newer(v, V) /\ u \in Newer(v, V) /\ u \notin Newer(u, V)
  <2>1. u \in Nat /\ v \in Nat /\ \A w \in V : w \in Nat
    BY DEF Videos
  <2>2. ASSUME NEW w \in V, w > u
        PROVE  w > v
    BY <2>1, <2>2
  <2>3. ~(u > u)
    BY <2>1
  <2> QED
    BY <2>2, <2>3 DEF Newer
<1>2. Newer(v, V) \in SUBSET Videos
    BY RankType
<1> QED
    BY <1>1, <1>2, VideoSets DEF Rank

LEMMA RanksAreDistinct ==
    ASSUME NEW V \in SUBSET Videos, NEW v \in V, NEW u \in V, Rank(u, V) = Rank(v, V)
    PROVE  u = v
<1>1. u > v \/ v > u \/ u = v
    BY DEF Videos
<1>2. Rank(u, V) \in Nat
    BY RankType
<1> QED
    BY <1>1, <1>2, NewerIsBefore

(* Fewer videos mean lower ranks. *)
LEMMA RankShrinks ==
    ASSUME NEW V \in SUBSET Videos, NEW W \in SUBSET V, NEW v
    PROVE  Rank(v, W) <= Rank(v, V) /\ Rank(v, W) \in Nat /\ Rank(v, V) \in Nat
<1>1. Newer(v, W) \in SUBSET Newer(v, V) /\ Newer(v, V) \in SUBSET Videos
    BY DEF Newer
<1> QED
    BY <1>1, VideoSets DEF Rank

LEMMA SliceHas ==
    ASSUME NEW V \in SUBSET Videos, NEW skip \in Nat, NEW take \in Nat
    PROVE  /\ Slice(V, skip, take) \in SUBSET V
           /\ \A v \in V : v \in Slice(V, skip, take) <=>
                             skip <= Rank(v, V) /\ Rank(v, V) < skip + take
<1>1. \A v \in V : Rank(v, V) \in Nat
    BY RankType
<1> QED
    BY <1>1 DEF Slice, Rank

(* A slice has no more than it may. *)
LEMMA SliceIsCut ==
    ASSUME NEW V \in SUBSET Videos, NEW skip \in Nat, NEW take \in Nat
    PROVE  Cardinality(Slice(V, skip, take)) <= take
<1> DEFINE S == Slice(V, skip, take)
           T == skip..(skip + take - 1)
           f == [v \in S |-> Rank(v, V)]
<1>1. S \in SUBSET V /\ \A v \in S : Rank(v, V) \in T
  <2>1. \A v \in V : Rank(v, V) \in Nat
    BY RankType
  <2>2. S \in SUBSET V /\ \A v \in S : skip <= Rank(v, V) /\ Rank(v, V) < skip + take
    BY SliceHas
  <2> QED
    BY <2>1, <2>2
<1>2. f \in Injection(S, T)
    BY <1>1, RanksAreDistinct DEF Injection, IsInjective
<1>3. IsFiniteSet(T) /\ Cardinality(T) = take
    BY FS_Interval
<1> QED
    BY <1>2, <1>3, FS_Injection

(* Every rank below the number of videos is that of one of them. *)
LEMMA EveryRank ==
    ASSUME NEW V \in SUBSET Videos, NEW n \in Nat, n < Cardinality(V)
    PROVE  \E v \in V : Rank(v, V) = n
<1> DEFINE T == 0..(Cardinality(V) - 1)
           f == [v \in V |-> Rank(v, V)]
<1>1. Cardinality(V) \in Nat
    BY VideoSets
<1>2. f \in Injection(V, T)
    BY <1>1, RankType, RanksAreDistinct DEF Injection, IsInjective
<1>3. IsFiniteSet(T) /\ Cardinality(T) = Cardinality(V)
  <2>1. 0 \in Int /\ Cardinality(V) - 1 \in Int
    BY <1>1
  <2>2. IsFiniteSet(T)
        /\ Cardinality(T) = IF 0 > Cardinality(V) - 1 THEN 0 ELSE Cardinality(V) - 1 - 0 + 1
    BY <2>1, FS_Interval
  <2> QED
    BY <1>1, <2>2
<1>4. f \in Surjection(V, T)
    BY <1>2, <1>3, FS_Injection
<1>5. n \in T
    BY <1>1
<1> QED
    BY <1>4, <1>5 DEF Surjection

(* A slice that is not full ends with the last video. *)
LEMMA ShortSliceIsLast ==
    ASSUME NEW V \in SUBSET Videos, NEW skip \in Nat, NEW take \in Nat,
           Cardinality(Slice(V, skip, take)) < take
    PROVE  skip + Cardinality(Slice(V, skip, take)) >= Cardinality(V)
<1> DEFINE S == Slice(V, skip, take)
           k == Cardinality(S)
           T == skip..(skip + k)
<1>1. S \in SUBSET V /\ IsFiniteSet(S) /\ k \in Nat /\ Cardinality(V) \in Nat
    BY SliceHas, VideoSets
<1> SUFFICES ASSUME skip + k < Cardinality(V)
             PROVE  FALSE
    BY <1>1
<1>2. \A n \in T : \E v \in S : Rank(v, V) = n
  <2> SUFFICES ASSUME NEW n \in T
               PROVE  \E v \in S : Rank(v, V) = n
    OBVIOUS
  <2>1. n \in Nat /\ n < Cardinality(V) /\ skip <= n /\ n < skip + take
    BY <1>1
  <2>2. PICK v \in V : Rank(v, V) = n
    BY <2>1, EveryRank
  <2> QED
    BY <2>1, <2>2, SliceHas
<1> DEFINE g == [n \in T |-> CHOOSE v \in S : Rank(v, V) = n]
<1>3. \A n \in T : g[n] \in S /\ Rank(g[n], V) = n
    BY <1>2
<1>4. g \in Injection(T, S)
  <2>1. g \in [T -> S]
    BY <1>3
  <2>2. \A m, n \in T : g[m] = g[n] => m = n
    BY <1>3
  <2> HIDE DEF g
  <2> QED
    BY <2>1, <2>2 DEF Injection, IsInjective
<1>5. Cardinality(T) <= Cardinality(S)
    BY <1>1, <1>4, FS_Injection
<1>6. Cardinality(T) = k + 1
    BY <1>1, FS_Interval
<1> QED
    BY <1>1, <1>5, <1>6

(* What is cut to a size that it has not is left as it is. *)
LEMMA NothingToCut ==
    ASSUME NEW V \in SUBSET Videos, NEW take \in Nat,
           \/ Cardinality(Slice(V, 0, take)) < take
           \/ Cardinality(V) <= take
    PROVE  Slice(V, 0, take) = V
<1>1. Slice(V, 0, take) \in SUBSET V /\ Cardinality(Slice(V, 0, take)) \in Nat
      /\ Cardinality(V) \in Nat
    BY SliceHas, VideoSets
<1>2. CASE Cardinality(Slice(V, 0, take)) < take
  <2>1. Cardinality(Slice(V, 0, take)) >= Cardinality(V)
    BY <1>1, <1>2, ShortSliceIsLast
  <2> QED
    BY <1>1, <2>1, VideoSets
<1>3. CASE Cardinality(V) <= take
  <2>1. \A v \in V : Rank(v, V) < 0 + take /\ 0 <= Rank(v, V)
    BY <1>1, <1>3, RankType
  <2> QED
    BY <1>1, <2>1, SliceHas
<1> QED
    BY <1>2, <1>3

(* The first slice has with a video all that are newer. *)
LEMMA FirstSliceIsNewest ==
    ASSUME NEW V \in SUBSET Videos, NEW take \in Nat, NEW v \in Slice(V, 0, take)
    PROVE  Newer(v, V) \subseteq Slice(V, 0, take)
<1> SUFFICES ASSUME NEW u \in Newer(v, V)
             PROVE  u \in Slice(V, 0, take)
    OBVIOUS
<1>1. v \in V /\ u \in V /\ u > v
    BY SliceHas DEF Newer
<1>2. Rank(u, V) < Rank(v, V) /\ Rank(u, V) \in Nat /\ Rank(v, V) \in Nat
    BY <1>1, NewerIsBefore, RankType
<1>3. Rank(v, V) < 0 + take
    BY <1>1, SliceHas
<1>4. 0 <= Rank(u, V) /\ Rank(u, V) < 0 + take
    BY <1>2, <1>3
<1> QED
    BY <1>1, <1>4, SliceHas

-----------------------------------------------------------------------------
(* Pages. *)

LEMMA Skipped ==
    ASSUME NEW n \in Nat
    PROVE  /\ n * limit \in Nat /\ Skip(n + 1) = n * limit
           /\ (n + 1) * limit = n * limit + limit
           /\ Skip(n + 1) \in Nat
<1>1. n * limit \in Nat
    BY SMT
<1>2. (n + 1) * limit = n * limit + limit
    BY SMT
<1>3. (n + 1) - 1 = n
    OBVIOUS
<1> QED
    BY <1>1, <1>2, <1>3 DEF Skip

LEMMA AllVideos ==
    ASSUME NEW A \in SUBSET Videos
    PROVE  Cardinality(A) \in 0..NVideos
<1>1. Cardinality(Videos) = NVideos
  <2>1. 1 \in Int /\ NVideos \in Int
    OBVIOUS
  <2>2. Cardinality(1..NVideos) = IF 1 > NVideos THEN 0 ELSE NVideos - 1 + 1
    BY <2>1, FS_Interval
  <2> QED
    BY <2>2 DEF Videos
<1> QED
    BY <1>1, VideoSets

(* What is left of a list beside the recommended videos fits on the page.    *)
LEMMA FirstPageFits ==
    ASSUME NEW rec \in SUBSET Videos, NEW others \in SUBSET Videos, Cardinality(rec) <= limit
    PROVE  /\ FirstPage(rec, others) \in SUBSET (others \ rec)
           /\ Cardinality(rec \cup FirstPage(rec, others)) =
                  Cardinality(rec) + Cardinality(FirstPage(rec, others))
           /\ Cardinality(rec \cup FirstPage(rec, others)) <= limit
           /\ limit - Cardinality(rec) \in Nat
<1> DEFINE take == limit - Cardinality(rec)
           F == FirstPage(rec, others)
<1>1. others \ rec \in SUBSET Videos /\ Cardinality(rec) \in Nat
    BY VideoSets
<1>2. take \in Nat
    BY <1>1
<1>3. F \in SUBSET (others \ rec) /\ Cardinality(F) <= take
    BY <1>1, <1>2, SliceHas, SliceIsCut DEF FirstPage
<1>4. F \in SUBSET Videos /\ rec \cap F = {} /\ Cardinality(F) \in Nat
    BY <1>3, VideoSets
<1>5. Cardinality(rec \cup F) = Cardinality(rec) + Cardinality(F)
    BY <1>4, Together
<1> QED
    BY <1>1, <1>2, <1>3, <1>4, <1>5

(* The answer is one more page. *)
LEMMA AnswerIsAppended ==
    ASSUME TypeOK, RequestSteps, pc # "idle",
           NEW others \in SUBSET Videos, NEW count \in 0..NVideos, Answer(others, count)
    PROVE  /\ pages' \in Seq(Answers) /\ Len(pages') = Page /\ Len(pages') <= NPages
           /\ DOMAIN pages = 1..Len(pages) /\ DOMAIN pages' = 1..Page
           /\ \A p \in DOMAIN pages : pages'[p] = pages[p] /\ Items(p)' = Items(p)
           /\ pages'[Page].recommended = recommended
           /\ pages'[Page].latest = FirstPage(recommended, others)
           /\ pages'[Page].total = count
           /\ Len(pages) \in Nat
           /\ \A p \in DOMAIN pages' : Cardinality(Items(p)') <= limit
<1> DEFINE a == [recommended |-> recommended,
                 latest      |-> FirstPage(recommended, others),
                 total       |-> count]
<1>1. a \in Answers /\ Cardinality(recommended \cup FirstPage(recommended, others)) <= limit
    BY FirstPageFits DEF Answers, TypeOK, RequestSteps
<1>2. pages \in Seq(Answers) /\ pages' = Append(pages, a) /\ Page <= NPages
    BY DEF TypeOK, RequestSteps, Answer
<1>3. Len(pages) \in Nat /\ DOMAIN pages = 1..Len(pages) /\ Page = Len(pages) + 1
    BY <1>2 DEF Page
<1> HIDE DEF a
<1>4. /\ pages' \in Seq(Answers) /\ Len(pages') = Page /\ DOMAIN pages' = 1..Page
      /\ pages'[Page] = a
      /\ \A p \in 1..Len(pages) : pages'[p] = pages[p]
    BY <1>1, <1>2, <1>3, AppendProperties
<1>5. \A p \in DOMAIN pages : Items(p)' = Items(p)
    BY <1>3, <1>4 DEF Items
<1>6. /\ a.recommended = recommended /\ a.total = count
      /\ a.latest = FirstPage(recommended, others)
    BY DEF a
<1>7. ASSUME NEW p \in DOMAIN pages'
      PROVE  Cardinality(Items(p)') <= limit
  <2>1. CASE p = Page
    BY <1>1, <1>4, <1>6, <2>1 DEF Items
  <2>2. CASE p \in DOMAIN pages
    BY <1>5, <2>2 DEF TypeOK
  <2> QED
    BY <1>3, <1>4, <2>1, <2>2
<1> QED
    BY <1>2, <1>3, <1>4, <1>5, <1>6, <1>7

-----------------------------------------------------------------------------
(* Types. *)

TypeInv == TypeOK /\ RequestSteps

LEMMA InitTypes == Init => TypeInv
<1> SUFFICES ASSUME Init
             PROVE  TypeInv
    OBVIOUS
<1>1. Cardinality({}) = 0 /\ {} \in SUBSET Videos
    BY FS_EmptySet
<1>2. pages \in Seq(Answers) /\ Len(pages) <= NPages /\ DOMAIN pages = {}
    BY DEF Init
<1> QED
    BY <1>1, <1>2 DEF Init, TypeInv, TypeOK, RequestSteps, Steps

LEMMA NextKeepsTypes == TypeInv /\ [Next]_vars => TypeInv'
<1> SUFFICES ASSUME TypeOK, RequestSteps, [Next]_vars
             PROVE  TypeInv'
    BY DEF TypeInv
<1> USE DEF Goto
<1>1. Cardinality({}) = 0 /\ {} \in SUBSET Videos /\ 0 \in 0..NVideos
    BY FS_EmptySet
<1>2. Cardinality(published) \in 0..NVideos
    BY AllVideos DEF TypeOK
<1>3. Rows \in SUBSET Videos /\ Rows \in SUBSET ids
    BY DEF Rows, TypeOK
<1>4. (UNCHANGED pages) => /\ (Page <= NPages)' <=> Page <= NPages
                           /\ Page' = Page
                           /\ \A p \in DOMAIN pages : Items(p)' = Items(p)
    BY DEF Page, Items
<1>5. ASSUME pc # "idle", NEW others \in SUBSET Videos, NEW count \in 0..NVideos,
             Answer(others, count), UNCHANGED <<published, kind, judge>>
      PROVE  TypeInv'
  <2>1. pages' \in Seq(Answers) /\ Len(pages') <= NPages
        /\ \A p \in DOMAIN pages' : Cardinality(Items(p)') <= limit
    BY <1>5, AnswerIsAppended
  <2> QED
    BY <1>1, <1>5, <2>1 DEF Answer, TypeInv, TypeOK, RequestSteps, Steps, judge
<1>6. ASSUME NEW v \in Videos, Change(v)
      PROVE  TypeInv'
    BY <1>4, <1>6 DEF Change, TypeInv, TypeOK, RequestSteps, request
<1>7. CASE Begin
    BY <1>1, <1>4, <1>7 DEF Begin, TypeInv, TypeOK, RequestSteps, Steps
<1>8. CASE Count
  <2>1. CASE kind = "list"
    BY <1>2, <1>5, <1>8, <2>1 DEF Count, TypeOK
  <2>2. CASE kind # "list"
    BY <1>2, <1>4, <1>8, <2>2 DEF Count, TypeInv, TypeOK, RequestSteps, Steps, judge
  <2> QED
    BY <2>1, <2>2
<1>9. CASE FindRecommended
  <2>1. ids' \in SUBSET Videos /\ (pc' = "recommended_rows" => Cardinality(ids') <= limit)
    <3>1. CASE \E matching \in SUBSET published : ids' = Slice(matching, 0, limit)
      <4>1. PICK matching \in SUBSET published : ids' = Slice(matching, 0, limit)
        BY <3>1
      <4>2. matching \in SUBSET Videos
        BY DEF TypeOK
      <4> QED
        BY <4>1, <4>2, SliceHas, SliceIsCut
    <3>2. CASE pc' = "ids" /\ UNCHANGED ids
      BY <3>2 DEF TypeOK
    <3> QED
      BY <1>9, <3>1, <3>2 DEF FindRecommended
  <2> QED
    BY <1>4, <1>9, <2>1 DEF FindRecommended, TypeInv, TypeOK, RequestSteps, Steps, judge
<1>10. CASE LoadRecommended
  <2>1. Cardinality(recommended') <= limit /\ recommended' \in SUBSET Videos
    <3>1. Cardinality(Rows) <= Cardinality(ids) /\ Cardinality(Rows) \in Nat
          /\ Cardinality(ids) \in Nat
      BY <1>3, VideoSets DEF TypeOK
    <3> QED
      BY <1>3, <1>10, <3>1 DEF LoadRecommended, RequestSteps
  <2> QED
    BY <1>1, <1>4, <1>10, <2>1
       DEF LoadRecommended, TypeInv, TypeOK, RequestSteps, Steps, judge
<1>11. CASE FindLatest
  <2>1. ids' \in SUBSET Videos
    BY <1>11 DEF FindLatest, Listed, Slice, TypeOK
  <2> QED
    BY <1>4, <1>11, <2>1 DEF FindLatest, TypeInv, TypeOK, RequestSteps, Steps, judge
<1>12. CASE LoadLatest
  <2>1. CASE kind = "list"
    BY <1>3, <1>4, <1>12, <2>1 DEF LoadLatest, TypeInv, TypeOK, RequestSteps, Steps, judge
  <2>2. CASE kind # "list"
    BY <1>3, <1>5, <1>12, <2>2 DEF LoadLatest, TypeOK
  <2> QED
    BY <2>1, <2>2
<1>13. CASE Fails
    BY <1>1, <1>4, <1>13 DEF Fails, TypeInv, TypeOK, RequestSteps, Steps, judge
<1>14. CASE UNCHANGED vars
    BY <1>4, <1>14 DEF vars, request, judge, TypeInv, TypeOK, RequestSteps, Steps
<1> QED
    BY <1>6, <1>7, <1>8, <1>9, <1>10, <1>11, <1>12, <1>13, <1>14 DEF Next

LEMMA AlwaysTyped == Spec => []TypeInv
    BY InitTypes, NextKeepsTypes, PTL DEF Spec

(* However many videos are listed, whatever is published and taken off while  *)
(* a reader leafs through the catalogue, every list is made of videos, and no  *)
(* page of VideoService.getFeed or listVideos exceeds the limit he asked for.  *)
THEOREM FeedTypes == Spec => []TypeOK
<1>1. TypeInv => TypeOK
    BY DEF TypeInv
<1> QED
    BY <1>1, AlwaysTyped, PTL

-----------------------------------------------------------------------------
(* The list a request holds. *)

LEMMA PageIs ==
    ASSUME TypeOK
    PROVE  /\ Len(pages) \in Nat /\ Page = Len(pages) + 1 /\ DOMAIN pages = 1..Len(pages)
           /\ Skip(Page) = Len(pages) * limit /\ Skip(Page) \in Nat
           /\ Page * limit = Len(pages) * limit + limit /\ Len(pages) * limit \in Nat
           /\ Page = 1 => Skip(Page) = 0
<1>1. Len(pages) \in Nat /\ DOMAIN pages = 1..Len(pages)
    BY DEF TypeOK
<1>2. Page = 1 => Len(pages) = 0
    BY <1>1 DEF Page
<1>3. Len(pages) = 0 => Len(pages) * limit = 0
    BY SMT
<1> QED
    BY <1>1, <1>2, <1>3, Skipped DEF Page

(* The first query finds a list that goes on where the pages ended. *)
LEMMA FindsTheList ==
    ASSUME TypeOK, RequestInv, PagesGoOn
    PROVE  ListOK(Listed(Page, Cardinality(recommended)))
<1> DEFINE f == Cardinality(recommended)
           L == Listed(Page, f)
           skip == Skip(Page)
           take == limit + f
<1>1. f \in Nat /\ take \in Nat /\ skip \in Nat /\ Page * limit = skip + limit
      /\ Len(pages) * limit = skip
    BY VideoSets, PageIs DEF TypeOK
<1>2. published \in SUBSET Videos /\ Steady \in SUBSET published /\ L = Slice(published, skip, take)
    BY DEF TypeOK, RequestInv, Listed
<1> HIDE DEF L, skip, take
<1>3. L \in SUBSET published
      /\ \A v \in published : v \in L <=> skip <= Rank(v, published) /\ Rank(v, published) < skip + take
    BY <1>1, <1>2, SliceHas
<1>4. \A v \in published : Rank(v, published) \in Nat
    BY <1>2, RankType
<1>5. Page = 1 => \A v \in L : Newer(v, Steady) \subseteq L
  <2> SUFFICES ASSUME Page = 1, NEW v \in L
               PROVE  Newer(v, published) \subseteq L
    BY <1>2 DEF Newer
  <2>1. skip = 0
    BY PageIs DEF skip
  <2> QED
    BY <1>1, <1>2, <2>1, FirstSliceIsNewest
<1>6. Undisturbed /\ Cardinality(L) < take => skip + Cardinality(L) >= Promised
  <2> SUFFICES ASSUME Undisturbed, Cardinality(L) < take
               PROVE  skip + Cardinality(L) >= Promised
    OBVIOUS
  <2>1. skip + Cardinality(L) >= Cardinality(published)
    BY <1>1, <1>2, ShortSliceIsLast
  <2>2. Cardinality(L) \in Nat /\ Cardinality(published) \in Nat
    BY <1>2, <1>3, VideoSets
  <2>3. Promised <= Cardinality(published) /\ Promised \in Nat
    BY <2>2 DEF Promised, RequestInv, TypeOK
  <2> QED
    BY <1>1, <2>1, <2>2, <2>3
<1>7. recommended = {} => f = 0 /\ take = limit
    BY FS_EmptySet DEF take
<1>8. recommended = {} => Cardinality(L) <= limit
    BY <1>1, <1>2, <1>7, SliceIsCut
<1>9. Plain /\ came = {} =>
         \A v \in L : v \notin Seen /\ Rank(v, published) < Page * limit
  <2> SUFFICES ASSUME Plain, came = {}, NEW v \in L
               PROVE  v \notin Seen /\ Rank(v, published) < Page * limit
    OBVIOUS
  <2>1. skip <= Rank(v, published) /\ Rank(v, published) < skip + limit
        /\ Rank(v, published) \in Nat
    BY <1>3, <1>4, <1>7 DEF Plain
  <2>2. \A u \in Seen : Rank(u, published) < skip
    BY <1>1 DEF Plain, PagesGoOn
  <2> QED
    BY <1>1, <2>1, <2>2
<1>10. ASSUME Plain, hidden = {}, NEW u \in began, Rank(u, published) < skip + limit
       PROVE  u \in Seen \cup L
  <2>1. u \in published
    BY <1>2, <1>10 DEF Steady
  <2>2. CASE Rank(u, published) < skip
    BY <1>1, <1>10, <2>2 DEF Plain, PagesGoOn
  <2>3. CASE skip <= Rank(u, published)
    BY <1>3, <1>7, <1>10, <2>1, <2>3 DEF Plain
  <2> QED
    BY <1>1, <1>4, <2>1, <2>2, <2>3
<1>11. ASSUME Plain, hidden = {}, NEW v \in L
       PROVE  Newer(v, began) \subseteq Seen \cup L
  <2> SUFFICES ASSUME NEW u \in Newer(v, began)
               PROVE  u \in Seen \cup L
    OBVIOUS
  <2>1. u \in began /\ u > v /\ u \in published /\ v \in published
    BY <1>2, <1>3, <1>11 DEF Newer, Steady
  <2>2. Rank(u, published) < Rank(v, published)
    BY <1>2, <2>1, NewerIsBefore
  <2>3. Rank(v, published) < skip + limit
    BY <1>3, <1>7, <1>11, <2>1 DEF Plain
  <2>4. Rank(u, published) \in Nat /\ Rank(v, published) \in Nat
    BY <1>4, <2>1
  <2>5. Rank(u, published) < skip + limit
    BY <1>1, <2>2, <2>3, <2>4
  <2> QED
    BY <1>10, <1>11, <2>1, <2>5
<1>12. ListOK(L)
    BY <1>1, <1>3, <1>5, <1>6, <1>8, <1>9, <1>10, <1>11 DEF ListOK, skip, take
<1> QED
    BY <1>12 DEF L

(* The second query may find less, and not what should be there. *)
LEMMA LoadsTheList ==
    ASSUME TypeOK, RequestInv, NEW list \in SUBSET Videos, ListOK(list)
    PROVE  ListOK(list \cap published)
<1> DEFINE rows == list \cap published
<1>1. hidden = {} => rows = list
    BY DEF ListOK
<1>2. Cardinality(rows) <= Cardinality(list) /\ Cardinality(rows) \in Nat
      /\ Cardinality(list) \in Nat
  <2>1. rows \in SUBSET list
    OBVIOUS
  <2> QED
    BY <2>1, VideoSets
<1>3. Page = 1 => \A v \in rows : Newer(v, Steady) \subseteq rows
    BY DEF ListOK, RequestInv, Newer
<1>4. recommended = {} => Cardinality(rows) <= limit
    BY <1>2 DEF ListOK
<1>5. Undisturbed /\ Cardinality(rows) < limit + Cardinality(recommended)
         => Skip(Page) + Cardinality(rows) >= Promised
    BY <1>1 DEF ListOK, Undisturbed
<1>6. Plain /\ came = {} =>
         \A v \in rows : v \notin Seen /\ Rank(v, published) < Page * limit
    BY DEF ListOK
<1>7. Plain /\ hidden = {} =>
         /\ \A v \in rows : Newer(v, began) \subseteq Seen \cup rows
         /\ \A u \in began : Rank(u, published) < Page * limit => u \in Seen \cup rows
    BY <1>1 DEF ListOK
<1>8. hidden = {} => rows \subseteq published
    OBVIOUS
<1> QED
    BY <1>3, <1>4, <1>5, <1>6, <1>7, <1>8 DEF ListOK

-----------------------------------------------------------------------------
(* The steps that answer nothing leave the pages what they are. *)

PageInv == PagesGoOn /\ FirstPageIsNewest /\ PagesAreFull /\ PagesAreContinuous

LEMMA SamePages ==
    ASSUME UNCHANGED pages
    PROVE  /\ Page' = Page /\ Seen' = Seen /\ PlainPages' = PlainPages
           /\ \A p \in DOMAIN pages : Items(p)' = Items(p)
<1>1. \A p : Items(p)' = Items(p)
    BY DEF Items
<1> QED
    BY <1>1 DEF Page, Seen, PlainPages

LEMMA StepsKeepPages ==
    ASSUME PageInv, UNCHANGED <<published, kind, pages, judge>>
    PROVE  PageInv'
<1>1. /\ UNCHANGED <<published, kind, pages, began, hidden, came>>
      /\ \A p : Items(p)' = Items(p)
    BY DEF Items, judge
<1>2. PagesGoOn'
    BY <1>1, SamePages DEF PageInv, PagesGoOn
<1>3. FirstPageIsNewest'
    BY <1>1 DEF PageInv, FirstPageIsNewest, Steady
<1>4. PagesAreFull'
    BY <1>1 DEF PageInv, PagesAreFull
<1>5. PagesAreContinuous'
    BY <1>1 DEF PageInv, PagesAreContinuous
<1> QED
    BY <1>2, <1>3, <1>4, <1>5 DEF PageInv

(* The catalogue changes between two queries. *)
LEMMA ChangeKeepsAll ==
    ASSUME TypeOK, TypeInv', RequestInv, PageInv, NEW v \in Videos, Change(v)
    PROVE  RequestInv' /\ PageInv'
<1>1. /\ UNCHANGED <<kind, pc, ids, recommended, latest, total, pages, began>>
      /\ hidden \subseteq hidden' /\ came \subseteq came'
      /\ hidden' = {} => published \subseteq published'
      /\ came' = {} => published' \subseteq published
      /\ ~(hidden' = {} /\ came' = {})
    BY DEF Change, request
<1>2. published \in SUBSET Videos /\ published' \in SUBSET Videos
    BY DEF TypeOK, TypeInv
<1>3. Steady' \subseteq Steady /\ Steady' \subseteq published'
    BY DEF Change, Steady, RequestInv, request
<1>4. ASSUME hidden' = {}
      PROVE  \A u : Rank(u, published) <= Rank(u, published')
                    /\ Rank(u, published) \in Nat /\ Rank(u, published') \in Nat
    BY <1>1, <1>2, <1>4, RankShrinks
<1>5. ASSUME came' = {}
      PROVE  \A u : Rank(u, published') <= Rank(u, published)
                    /\ Rank(u, published) \in Nat /\ Rank(u, published') \in Nat
    BY <1>1, <1>2, <1>5, RankShrinks
<1>6. /\ Page' = Page /\ Seen' = Seen /\ PlainPages' = PlainPages /\ Plain' = Plain
      /\ \A p : Items(p)' = Items(p)
    BY <1>1, SamePages DEF Plain, Items
<1>7. /\ Len(pages) * limit \in Nat /\ Page * limit \in Nat
    BY PageIs DEF TypeOK
<1>8. Undisturbed' => Undisturbed /\ kind # "list"
    BY <1>1 DEF Undisturbed
<1>9. \A u : Newer(u, Steady') \subseteq Newer(u, Steady)
    BY <1>3 DEF Newer
<1>10. RequestInv'
  <2>1. Undisturbed' => total' <= Cardinality(published')
    <3> SUFFICES ASSUME Undisturbed'
                 PROVE  total <= Cardinality(published')
      BY <1>1
    <3>1. published \in SUBSET published'
      BY <1>1 DEF Undisturbed
    <3>2. Cardinality(published) <= Cardinality(published') /\ Cardinality(published) \in Nat
          /\ Cardinality(published') \in Nat
      BY <1>2, <3>1, VideoSets
    <3>3. total <= Cardinality(published) /\ total \in Nat
      BY <1>8 DEF RequestInv, TypeOK
    <3> QED
      BY <3>2, <3>3
  <2>2. ASSUME NEW list, ListOK(list)
        PROVE  ListOK(list)'
    <3>1. Page' = 1 => \A u \in list : Newer(u, Steady') \subseteq list
      BY <1>6, <1>9, <2>2 DEF ListOK
    <3>2. hidden' = {} => list \subseteq published'
      BY <1>1, <2>2 DEF ListOK
    <3>3. Undisturbed' /\ Cardinality(list) < limit + Cardinality(recommended')
            => Skip(Page') + Cardinality(list) >= Promised'
      BY <1>1, <1>6, <1>8, <2>2 DEF ListOK, Promised
    <3>4. recommended' = {} => Cardinality(list) <= limit
      BY <1>1, <2>2 DEF ListOK
    <3>5. ASSUME Plain', came' = {}, NEW u \in list
          PROVE  u \notin Seen' /\ Rank(u, published') < Page' * limit
      <4>1. u \notin Seen /\ Rank(u, published) < Page * limit
        BY <1>1, <1>6, <2>2, <3>5 DEF ListOK
      <4> QED
        BY <1>5, <1>6, <1>7, <3>5, <4>1
    <3>6. ASSUME Plain', hidden' = {}
          PROVE  /\ \A u \in list : Newer(u, began') \subseteq Seen' \cup list
                 /\ \A u \in began' : Rank(u, published') < Page' * limit => u \in Seen' \cup list
      <4>1. /\ \A u \in list : Newer(u, began) \subseteq Seen \cup list
            /\ \A u \in began : Rank(u, published) < Page * limit => u \in Seen \cup list
        BY <1>1, <1>6, <2>2, <3>6 DEF ListOK
      <4>2. \A u : Rank(u, published') < Page * limit => Rank(u, published) < Page * limit
        BY <1>4, <1>7, <3>6
      <4> QED
        BY <1>1, <1>6, <4>1, <4>2
    <3> QED
      BY <3>1, <3>2, <3>3, <3>4, <3>5, <3>6 DEF ListOK
  <2>3. HasList' = HasList /\ Held' = Held
    BY <1>1 DEF HasList, Held
  <2>4. HasList' => ListOK(Held)'
    <3>1. HasList => ListOK(Held)
      BY DEF RequestInv
    <3> DEFINE h == Held
    <3>2. ASSUME HasList'
          PROVE  ListOK(Held)'
      <4>1. ListOK(Held)
        BY <2>3, <3>1, <3>2
      <4>2. pc' = pc /\ ids' = ids /\ latest' = latest
        BY <1>1
      <4>3. CASE pc = "rows"
        <5>1. ListOK(ids)
          BY <4>1, <4>3 DEF Held
        <5>2. Held' = ids
          BY <4>2, <4>3 DEF Held
        <5> QED
          BY <2>2, <5>1, <5>2 DEF ListOK
      <4>4. CASE pc # "rows"
        <5>1. ListOK(latest)
          BY <4>1, <4>4 DEF Held
        <5>2. Held' = latest
          BY <4>2, <4>4 DEF Held
        <5> QED
          BY <2>2, <5>1, <5>2 DEF ListOK
      <4> QED
        BY <4>3, <4>4
    <3> QED
      BY <3>2
  <2> QED
    BY <1>3, <2>1, <2>4 DEF RequestInv, TypeInv
<1>11. PagesGoOn'
  <2>1. ASSUME PlainPages', came' = {}, NEW u \in Seen'
        PROVE  Rank(u, published') < Len(pages') * limit
    <3>1. Rank(u, published) < Len(pages) * limit
      BY <1>1, <1>6, <2>1 DEF PageInv, PagesGoOn
    <3> QED
      BY <1>1, <1>5, <1>7, <2>1, <3>1
  <2>2. ASSUME PlainPages', hidden' = {}, NEW u \in began', Rank(u, published') < Len(pages') * limit
        PROVE  u \in Seen'
    <3>1. Rank(u, published) < Len(pages) * limit
      BY <1>1, <1>4, <1>7, <2>2
    <3> QED
      BY <1>1, <1>6, <2>2, <3>1 DEF PageInv, PagesGoOn
  <2> QED
    BY <2>1, <2>2 DEF PagesGoOn
<1>12. FirstPageIsNewest'
    BY <1>1, <1>6, <1>9 DEF PageInv, FirstPageIsNewest
<1>13. PagesAreFull'
    BY <1>1, <1>6 DEF PageInv, PagesAreFull
<1>14. PagesAreContinuous'
    BY <1>1, <1>6 DEF PageInv, PagesAreContinuous, Newer
<1> QED
    BY <1>10, <1>11, <1>12, <1>13, <1>14 DEF PageInv

LEMMA SameList ==
    ASSUME UNCHANGED <<published, kind, recommended, total, pages, judge>>, NEW list, ListOK(list)
    PROVE  ListOK(list)'
<1>1. UNCHANGED <<began, hidden, came>> /\ \A p : Items(p)' = Items(p)
    BY DEF Items, judge
<1>2. /\ Page' = Page /\ Seen' = Seen /\ Plain' = Plain /\ Steady' = Steady
      /\ Undisturbed' = Undisturbed /\ Promised' = Promised
    BY <1>1, SamePages DEF Plain, Steady, Undisturbed, Promised
<1> QED
    BY <1>1, <1>2 DEF ListOK

LEMMA BeginKeepsAll ==
    ASSUME TypeOK, TypeInv', RequestInv, PageInv, Begin
    PROVE  RequestInv' /\ PageInv'
<1>1. /\ UNCHANGED <<published, kind, ids, recommended, latest, total, pages, hidden, came>>
      /\ pc = "idle" /\ pc' = IF kind = "list" THEN "ids" ELSE "count"
    BY DEF Begin, Goto
<1>2. RequestInv'
  <2>1. Steady' \subseteq published'
    BY <1>1 DEF Begin, Steady, RequestInv
  <2>2. ~HasList'
    BY <1>1 DEF HasList
  <2>3. Undisturbed' => total' <= Cardinality(published')
    BY <1>1 DEF RequestInv, Undisturbed
  <2> QED
    BY <2>1, <2>2, <2>3 DEF RequestInv, TypeInv
<1>3. CASE Reading
  <2>1. UNCHANGED <<published, kind, pages, judge>>
    BY <1>1, <1>3 DEF Begin, judge
  <2> QED
    BY <1>2, <2>1, StepsKeepPages
<1>4. CASE ~Reading
  <2>1. pages = <<>> /\ pages' = <<>> /\ DOMAIN pages' = {} /\ Len(pages') = 0
    BY <1>1, <1>4 DEF Reading
  <2>2. PagesGoOn'
    <3>1. Seen' = {}
      BY <2>1 DEF Seen
    <3>2. \A u \in began' : Rank(u, published') \in Nat
      <4>1. began' = published' /\ published' \in SUBSET Videos
        BY <1>1, <1>4 DEF Begin, TypeOK
      <4> QED
        BY <4>1, RankType
    <3>3. Len(pages') * limit = 0
      BY <2>1, SMT
    <3> QED
      BY <3>1, <3>2, <3>3 DEF PagesGoOn
  <2>3. FirstPageIsNewest'
    BY <2>1 DEF FirstPageIsNewest
  <2>4. PagesAreFull'
    BY <2>1 DEF PagesAreFull
  <2>5. PagesAreContinuous'
    BY <2>1 DEF PagesAreContinuous
  <2> QED
    BY <1>2, <2>2, <2>3, <2>4, <2>5 DEF PageInv
<1> QED
    BY <1>3, <1>4

-----------------------------------------------------------------------------
(* The answer: a page made of a list as it should be. *)

LEMMA AnswerKeepsAll ==
    ASSUME TypeOK, TypeInv', RequestInv, PageInv, pc # "idle",
           NEW others \in SUBSET Videos, ListOK(others),
           NEW count \in 0..NVideos, count = Promised,
           Answer(others, count), UNCHANGED <<published, kind, judge>>
    PROVE  RequestInv' /\ PageInv'
<1> DEFINE F == FirstPage(recommended, others)
           I == recommended \cup F
           n == Page
<1>1. UNCHANGED <<published, kind, began, hidden, came>>
    BY DEF judge
<1>2. /\ Len(pages') = n /\ Len(pages) \in Nat /\ n = Len(pages) + 1
      /\ DOMAIN pages = 1..Len(pages) /\ DOMAIN pages' = 1..n
      /\ \A p \in DOMAIN pages : pages'[p] = pages[p] /\ Items(p)' = Items(p)
      /\ pages'[n].recommended = recommended /\ pages'[n].latest = F /\ pages'[n].total = count
    BY AnswerIsAppended, PageIs DEF RequestInv
<1>3. \A p : p = n => Items(p)' = I
    BY <1>2 DEF Items
<1>4. recommended \in SUBSET Videos /\ Cardinality(recommended) <= limit
      /\ Cardinality(recommended) \in Nat /\ Cardinality(others) \in Nat
    BY VideoSets DEF TypeOK, RequestInv, RequestSteps
<1>5. /\ F \in SUBSET (others \ recommended) /\ limit - Cardinality(recommended) \in Nat
      /\ Cardinality(I) = Cardinality(recommended) + Cardinality(F) /\ Cardinality(I) <= limit
    BY <1>4, FirstPageFits
<1>6. Skip(n) \in Nat /\ Skip(n) = Len(pages) * limit /\ n * limit = Skip(n) + limit
    BY PageIs
<1> HIDE DEF n, F
<1>7. RequestInv'
  <2>1. Steady' = Steady
    BY <1>1 DEF Steady
  <2>2. pc' = "idle" /\ recommended' = {} /\ total' = 0 /\ ~HasList'
    BY DEF Answer, Goto, HasList
  <2>3. Cardinality(published') \in Nat
    BY VideoSets DEF TypeInv, TypeOK
  <2> QED
    BY <1>1, <2>1, <2>2, <2>3 DEF RequestInv, TypeInv
<1>8. FirstPageIsNewest'
  <2>1. Steady' = Steady /\ 1 \in DOMAIN pages'
    BY <1>1, <1>2 DEF Steady
  <2>2. CASE pages # <<>>
    <3>1. 1 \in DOMAIN pages
      BY <1>2, <2>2 DEF TypeOK
    <3> QED
      BY <1>2, <2>1, <2>2, <3>1 DEF PageInv, FirstPageIsNewest
  <2>3. CASE pages = <<>>
    <3>1. n = 1
      BY <1>2, <2>3
    <3>2. Items(1)' = I /\ pages'[1].latest = F
      BY <1>2, <1>3, <3>1
    <3>3. \A v \in others : Newer(v, Steady) \subseteq others
      BY <3>1 DEF ListOK, n
    <3>4. ASSUME NEW v \in F, NEW u \in Newer(v, Steady)
          PROVE  u \in I
      <4>1. v \in others /\ u \in others /\ u > v
        BY <1>5, <3>3, <3>4 DEF Newer
      <4>2. CASE u \in others \ recommended
        <5>1. u \in Newer(v, others \ recommended) /\ others \ recommended \in SUBSET Videos
          BY <4>1, <4>2 DEF Newer
        <5> QED
          BY <1>5, <3>4, <5>1, FirstSliceIsNewest DEF F, FirstPage
      <4> QED
        BY <4>1, <4>2
    <3> QED
      BY <2>1, <3>2, <3>4 DEF FirstPageIsNewest
  <2> QED
    BY <2>2, <2>3
<1>9. PagesAreFull'
  <2> SUFFICES ASSUME hidden' = {} /\ (kind' = "list" => came' = {}),
                      NEW p \in DOMAIN pages', Cardinality(Items(p)') < limit
               PROVE  Skip(p) + Cardinality(Items(p)') >= pages'[p].total
    BY DEF PagesAreFull
  <2>1. Undisturbed
    BY <1>1 DEF Undisturbed
  <2>2. CASE p \in DOMAIN pages
    BY <1>2, <2>1, <2>2 DEF PageInv, PagesAreFull, Undisturbed
  <2>3. CASE p = n
    <3>1. Items(p)' = I /\ pages'[p].total = Promised
      BY <1>2, <1>3, <2>3
    <3>2. Cardinality(F) < limit - Cardinality(recommended)
      <4>1. Cardinality(F) \in Nat
        BY <1>5, VideoSets
      <4> QED
        BY <1>4, <1>5, <3>1, <4>1
    <3>3. F = others \ recommended
      <4>1. others \ recommended \in SUBSET Videos
        OBVIOUS
      <4> QED
        BY <1>5, <3>2, <4>1, NothingToCut DEF F, FirstPage
    <3>4. Cardinality(others) <= Cardinality(I) /\ Cardinality(I) \in Nat
      <4>1. others \in SUBSET I /\ I \in SUBSET Videos
        BY <1>4, <1>5, <3>3
      <4> QED
        BY <4>1, VideoSets
    <3>5. Skip(n) + Cardinality(others) >= Promised
      BY <1>4, <2>1, <3>1, <3>4 DEF ListOK, n
    <3>6. Promised \in Nat
      OBVIOUS
    <3> QED
      BY <1>4, <1>6, <2>3, <3>1, <3>4, <3>5, <3>6
  <2> QED
    BY <1>2, <2>2, <2>3
<1>10. PlainPages' => Plain
  <2> SUFFICES ASSUME \A p \in DOMAIN pages' : pages'[p].recommended = {}
               PROVE  Plain
    BY DEF PlainPages
  <2>1. recommended = {}
    BY <1>2
  <2>2. \A p \in DOMAIN pages : pages[p].recommended = {}
    BY <1>2
  <2> QED
    BY <2>1, <2>2 DEF Plain, PlainPages
(* Without recommendations the page is the list. *)
<1>11. Plain => I = others
  <2> SUFFICES ASSUME recommended = {}
               PROVE  F = others
    BY DEF Plain
  <2>1. Cardinality(recommended) = 0 /\ others \ recommended = others
    BY FS_EmptySet
  <2>2. Cardinality(others) <= limit - Cardinality(recommended)
    BY <1>4, <2>1 DEF ListOK
  <2> QED
    BY <1>5, <2>1, <2>2, NothingToCut DEF F, FirstPage
<1>12. Plain => Seen' = Seen \cup others
    BY <1>2, <1>3, <1>11 DEF Seen
<1>13. ASSUME Plain, came = {}
       PROVE  \A v \in others : v \notin Seen /\ Rank(v, published) < n * limit
    BY <1>13 DEF ListOK, n
<1>14. ASSUME Plain, hidden = {}
       PROVE  /\ \A v \in others : Newer(v, began) \subseteq Seen \cup others
              /\ \A u \in began : Rank(u, published) < n * limit => u \in Seen \cup others
    BY <1>14 DEF ListOK, n
<1>15. PagesGoOn'
  <2>1. ASSUME PlainPages', came' = {}, NEW v \in Seen'
        PROVE  Rank(v, published') < Len(pages') * limit
    <3>1. CASE v \in Seen
      <4>1. Rank(v, published) < Len(pages) * limit
        BY <1>1, <1>10, <2>1, <3>1 DEF PageInv, PagesGoOn, Plain
      <4>2. Rank(v, published) \in Nat
        <5>1. published \in SUBSET published /\ published \in SUBSET Videos
          BY DEF TypeOK
        <5> QED
          BY <5>1, RankShrinks
      <4> QED
        BY <1>1, <1>2, <1>6, <4>1, <4>2
    <3>2. CASE v \in others
      BY <1>1, <1>2, <1>10, <1>13, <2>1, <3>2
    <3> QED
      BY <1>10, <1>12, <2>1, <3>1, <3>2
  <2>2. ASSUME PlainPages', hidden' = {}
        PROVE  \A u \in began' : Rank(u, published') < Len(pages') * limit => u \in Seen'
    BY <1>1, <1>2, <1>10, <1>12, <1>14, <2>2
  <2> QED
    BY <2>1, <2>2 DEF PagesGoOn
<1>16. PagesAreContinuous'
  <2> SUFFICES ASSUME PlainPages', NEW p \in DOMAIN pages', NEW q \in DOMAIN pages', p < q
               PROVE  /\ came' = {} => Items(p)' \cap Items(q)' = {}
                      /\ hidden' = {} => \A v \in Items(q)' :
                           Newer(v, began') \subseteq UNION {Items(m)' : m \in 1..q}
    BY DEF PagesAreContinuous, PlainPages
  <2>1. p \in DOMAIN pages /\ p \in Nat /\ q \in Nat
    BY <1>2
  <2>2. CASE q \in DOMAIN pages
    <3>1. UNION {Items(m)' : m \in 1..q} = UNION {Items(m) : m \in 1..q}
      <4>1. \A m \in 1..q : Items(m)' = Items(m)
        BY <1>2, <2>2
      <4> QED
        BY <4>1
    <3>2. /\ came = {} => Items(p) \cap Items(q) = {}
          /\ hidden = {} => \A v \in Items(q) :
               Newer(v, began) \subseteq UNION {Items(m) : m \in 1..q}
      BY <1>10, <2>1, <2>2 DEF PageInv, PagesAreContinuous, Plain, PlainPages
    <3> QED
      BY <1>1, <1>2, <2>1, <2>2, <3>1, <3>2
  <2>3. CASE q = n
    <3>1. Items(q)' = others
      BY <1>3, <1>10, <1>11, <2>3
    <3>2. came = {} => Items(p) \cap others = {}
      <4>1. Items(p) \subseteq Seen
        BY <2>1 DEF Seen
      <4> QED
        BY <1>10, <1>13, <4>1
    <3>3. UNION {Items(m)' : m \in 1..q} = Seen \cup others
      <4>1. UNION {Items(m)' : m \in 1..q} = Seen'
        BY <1>2, <2>3 DEF Seen
      <4> QED
        BY <1>10, <1>12, <4>1
    <3> QED
      BY <1>1, <1>2, <1>10, <1>14, <2>1, <3>1, <3>2, <3>3
  <2> QED
    BY <1>2, <2>2, <2>3
<1> QED
    BY <1>7, <1>8, <1>9, <1>15, <1>16 DEF PageInv

-----------------------------------------------------------------------------
(* Every step. *)

LEMMA InitFeed == Init => FeedInv
<1> SUFFICES ASSUME Init
             PROVE  FeedInv
    OBVIOUS
<1>1. pages = <<>> /\ DOMAIN pages = {} /\ Len(pages) = 0 /\ pc = "idle"
    BY DEF Init
<1>2. TypeOK /\ RequestSteps
    BY InitTypes DEF TypeInv
<1>3. RequestInv
    BY <1>1, <1>2, VideoSets DEF Init, RequestInv, Steady, HasList, TypeOK
<1>4. PagesGoOn
    BY <1>1 DEF Init, PagesGoOn, Seen
<1>5. FirstPageIsNewest /\ PagesAreFull /\ PagesAreContinuous
    BY <1>1 DEF FirstPageIsNewest, PagesAreFull, PagesAreContinuous
<1> QED
    BY <1>3, <1>4, <1>5 DEF FeedInv

LEMMA NextKeepsFeed == TypeInv /\ TypeInv' /\ FeedInv /\ [Next]_vars => FeedInv'
<1> SUFFICES ASSUME TypeOK, TypeInv', RequestInv, PageInv, [Next]_vars
             PROVE  RequestInv' /\ PageInv'
    BY DEF TypeInv, FeedInv, PageInv
<1>1. RequestSteps' /\ Cardinality(published) \in 0..NVideos
    BY AllVideos DEF TypeInv, TypeOK
<1>2. ASSUME UNCHANGED <<published, kind, pages, judge>>, ~HasList',
             Undisturbed => total' <= Cardinality(published)
      PROVE  RequestInv' /\ PageInv'
  <2>1. Steady' = Steady /\ Undisturbed' = Undisturbed
    BY <1>2 DEF Steady, Undisturbed, judge
  <2> QED
    BY <1>1, <1>2, <2>1, StepsKeepPages DEF RequestInv
<1>3. ASSUME UNCHANGED <<published, kind, recommended, total, pages, judge>>,
             ListOK(Held')
      PROVE  RequestInv' /\ PageInv'
  <2> DEFINE list == Held'
  <2>1. ListOK(Held)'
    <3>1. ASSUME NEW l, ListOK(l)
          PROVE  ListOK(l)'
      BY <1>3, <3>1, SameList
    <3> QED
      BY <1>3, <3>1 DEF ListOK
  <2>2. Steady' = Steady /\ Undisturbed' = Undisturbed
    BY <1>3 DEF Steady, Undisturbed, judge
  <2> QED
    BY <1>1, <1>3, <2>1, <2>2, StepsKeepPages DEF RequestInv
<1>4. Rows \in SUBSET Videos /\ latest \in SUBSET Videos
    BY DEF Rows, TypeOK
<1>5. ASSUME NEW v \in Videos, Change(v)
      PROVE  RequestInv' /\ PageInv'
    BY <1>5, ChangeKeepsAll
<1>6. CASE Begin
    BY <1>6, BeginKeepsAll
<1>7. CASE Count
  <2>1. CASE kind = "list"
    <3>1. pc # "idle" /\ Answer(latest, Cardinality(published))
          /\ UNCHANGED <<published, kind, judge>>
      BY <1>7, <2>1 DEF Count
    <3>2. ListOK(latest)
      BY <1>7, <2>1 DEF Count, RequestInv, HasList, Held
    <3>3. Cardinality(published) = Promised
      BY <2>1 DEF Promised
    <3> QED
      BY <1>1, <1>4, <3>1, <3>2, <3>3, AnswerKeepsAll
  <2>2. CASE kind # "list"
    <3>1. ~HasList' /\ total' = Cardinality(published)
          /\ UNCHANGED <<published, kind, pages, judge>>
      BY <1>7, <2>2 DEF Count, Goto, HasList
    <3> QED
      BY <1>1, <1>2, <3>1
  <2> QED
    BY <2>1, <2>2
<1>8. CASE FindRecommended
    BY <1>2, <1>8 DEF FindRecommended, Goto, HasList, RequestInv
<1>9. CASE LoadRecommended
    BY <1>2, <1>9 DEF LoadRecommended, Goto, HasList, RequestInv
<1>10. CASE FindLatest
  <2>1. UNCHANGED <<published, kind, recommended, total, pages, judge>>
        /\ Held' = Listed(Page, Cardinality(recommended))
    BY <1>10 DEF FindLatest, Goto, Held
  <2>2. ListOK(Listed(Page, Cardinality(recommended)))
    BY FindsTheList DEF PageInv
  <2> QED
    BY <1>3, <2>1, <2>2
<1>11. CASE LoadLatest
  <2>1. ListOK(Rows)
    <3>1. ListOK(ids) /\ ids \in SUBSET Videos
      BY <1>11 DEF LoadLatest, RequestInv, HasList, Held, TypeOK
    <3> QED
      BY <3>1, LoadsTheList DEF Rows
  <2>2. CASE kind = "list"
    <3>1. UNCHANGED <<published, kind, recommended, total, pages, judge>> /\ Held' = Rows
      BY <1>11, <2>2 DEF LoadLatest, Goto, Held
    <3> QED
      BY <1>3, <2>1, <3>1
  <2>3. CASE kind # "list"
    <3>1. pc # "idle" /\ Answer(Rows, total) /\ UNCHANGED <<published, kind, judge>>
      BY <1>11, <2>3 DEF LoadLatest
    <3>2. total = Promised /\ total \in 0..NVideos
      BY <2>3 DEF Promised, TypeOK
    <3> QED
      BY <1>4, <2>1, <3>1, <3>2, AnswerKeepsAll
  <2> QED
    BY <2>2, <2>3
<1>12. CASE Fails
  <2>1. total' = 0 /\ ~HasList' /\ UNCHANGED <<published, kind, pages, judge>>
    BY <1>12 DEF Fails, Goto, HasList
  <2> QED
    BY <1>1, <1>2, <2>1
<1>13. CASE UNCHANGED vars
  <2>1. /\ UNCHANGED <<published, kind, recommended, total, pages, judge, pc, ids, latest>>
        /\ Held' = Held /\ HasList' = HasList
    BY <1>13 DEF vars, request, Held, HasList
  <2> QED
    BY <1>2, <1>3, <2>1 DEF RequestInv
<1> QED
    BY <1>5, <1>6, <1>7, <1>8, <1>9, <1>10, <1>11, <1>12, <1>13 DEF Next

(* What a request knows of its list, and what the pages show, holds after      *)
(* every query and every change of the catalogue.                              *)
THEOREM FeedCorrect == Spec => []FeedInv
    BY AlwaysTyped, InitFeed, NextKeepsFeed, PTL DEF Spec

(* The home feed leaves out no video that was public all the time and is newer *)
(* than one of its latest videos, whatever getFeed recommends beside them.     *)
THEOREM FirstPageAlwaysNewest == Spec => []FirstPageIsNewest
<1>1. FeedInv => FirstPageIsNewest
    BY DEF FeedInv
<1> QED
    BY <1>1, FeedCorrect, PTL

(* No page of getFeed or listVideos is shorter than its total promises, unless *)
(* the catalogue has changed in a way that makes it so.                        *)
THEOREM PagesAlwaysFull == Spec => []PagesAreFull
<1>1. FeedInv => PagesAreFull
    BY DEF FeedInv
<1> QED
    BY <1>1, FeedCorrect, PTL

(* Without recommendations no video is shown twice as long as none comes, and  *)
(* none is missed as long as none goes, for any number of pages.               *)
THEOREM PagesAlwaysContinuous == Spec => []PagesAreContinuous
<1>1. FeedInv => PagesAreContinuous
    BY DEF FeedInv
<1> QED
    BY <1>1, FeedCorrect, PTL
=============================================================================
