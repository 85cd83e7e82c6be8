--------------------------- MODULE SearchHistoryProofs ---------------------------
(***************************************************************************)
(* The search history keeps its limit and the latest terms, for any number *)
(* of saves and terms, any limits, and any lifetime.                       *)
(***************************************************************************)
EXTENDS SearchHistory, FiniteSetTheorems, TLAPS

USE HistoryAssumption

-----------------------------------------------------------------------------
(* Sorted sets. *)

(* A history is a function from some of the terms to times. *)
LEMMA Contents ==
    ASSUME NEW f \in Histories
    PROVE  /\ DOMAIN f \subseteq Terms
           /\ \A t \in DOMAIN f : f[t] \in Times /\ f[t] \in Nat /\ t \in Nat
<1>1. PICK T \in SUBSET Terms : f \in [T -> Times]
    BY DEF Histories
<1>2. DOMAIN f = T /\ \A t \in T : f[t] \in Times
    BY <1>1
<1>3. Terms \subseteq Nat /\ Times \subseteq Nat
    BY DEF Terms, Times
<1> QED
    BY <1>2, <1>3

LEMMA IsHistory ==
    ASSUME NEW T \in SUBSET Terms, NEW f \in [T -> Times]
    PROVE  f \in Histories
    BY DEF Histories

LEMMA TermsAreFinite == IsFiniteSet(Terms)
    BY FS_Interval DEF Terms

LEMMA NothingIsHistory == Nothing \in Histories /\ DOMAIN Nothing = {}
    BY DEF Histories, Nothing, Terms, Times

(* Counting fewer of the terms gives no larger number. *)
LEMMA Fewer ==
    ASSUME NEW B \in SUBSET Terms, NEW A \in SUBSET B
    PROVE  /\ IsFiniteSet(A) /\ Cardinality(A) \in Nat /\ Cardinality(B) \in Nat
           /\ Cardinality(A) <= Cardinality(B)
    BY TermsAreFinite, FS_Subset, FS_CardinalityType

LEMMA AboveAreTerms ==
    ASSUME NEW f \in Histories, NEW t
    PROVE  Above(t, f) \in SUBSET Terms
    BY Contents DEF Above

(* Merging keeps every term of both, with the later of its times. *)
LEMMA MergedTimes ==
    ASSUME NEW f \in Histories, NEW g \in Histories
    PROVE  /\ Merged(f, g) \in Histories
           /\ DOMAIN Merged(f, g) = DOMAIN f \cup DOMAIN g
           /\ \A t \in DOMAIN f : Merged(f, g)[t] >= f[t]
           /\ \A t \in DOMAIN g : Merged(f, g)[t] >= g[t]
<1>1. DOMAIN f \cup DOMAIN g \in SUBSET Terms
    BY Contents
<1>2. \A t \in DOMAIN f : f[t] \in Times /\ f[t] \in Nat
    BY Contents
<1>3. \A t \in DOMAIN g : g[t] \in Times /\ g[t] \in Nat
    BY Contents
<1>4. Merged(f, g) \in [DOMAIN f \cup DOMAIN g -> Times]
    BY <1>2, <1>3 DEF Merged
<1>5. Merged(f, g) \in Histories
    BY <1>1, <1>4, IsHistory
<1> QED
    BY <1>2, <1>3, <1>5 DEF Merged

LEMMA MergedFrom ==
    ASSUME NEW f \in Histories, NEW g \in Histories, NEW t \in DOMAIN f \cup DOMAIN g
    PROVE  \/ t \in DOMAIN f /\ Merged(f, g)[t] = f[t]
           \/ t \in DOMAIN g /\ Merged(f, g)[t] = g[t]
    BY DEF Merged

LEMMA TrimmedTimes ==
    ASSUME NEW f \in Histories
    PROVE  /\ Trimmed(f) \in Histories
           /\ DOMAIN Trimmed(f) = Kept(f) /\ Kept(f) \subseteq DOMAIN f
           /\ \A t \in Kept(f) : Trimmed(f)[t] = f[t]
<1>1. Kept(f) \subseteq DOMAIN f /\ Kept(f) \in SUBSET Terms
    BY Contents DEF Kept
<1>2. Trimmed(f) \in [Kept(f) -> Times]
    BY <1>1, Contents DEF Trimmed
<1> QED
    BY <1>1, <1>2, IsHistory DEF Trimmed

-----------------------------------------------------------------------------
(* The limit. *)

LEMMA LeastNumber ==
    ASSUME NEW S \in SUBSET Nat, S # {}
    PROVE  \E m \in S : \A n \in S : m <= n
<1>1. \E m \in S : \A n \in S : <<n, m>> \notin OpToRel(<, Nat)
    BY NatLessThanWellFounded, WFMin
<1>2. PICK m \in S : \A n \in S : <<n, m>> \notin OpToRel(<, Nat)
    BY <1>1
<1>3. ASSUME NEW n \in S PROVE m <= n
  <2>1. <<n, m>> \notin OpToRel(<, Nat)
    BY <1>2
  <2>2. ~(n < m)
    BY <2>1 DEF OpToRel
  <2> QED
    BY <2>2
<1> QED
    BY <1>3

(* In a set of members that is not empty one ranks below all the others. *)
LEMMA LowestMember ==
    ASSUME NEW f \in Histories, NEW K \in SUBSET DOMAIN f, K # {}
    PROVE  \E m \in K : K \ {m} \subseteq Above(m, f)
<1> DEFINE Scores == {f[t] : t \in K}
<1>1. Scores \in SUBSET Nat /\ Scores # {}
    BY Contents
<1>2. PICK least \in Scores : \A n \in Scores : least <= n
  <2> HIDE DEF Scores
  <2> QED
    BY <1>1, LeastNumber
<1> DEFINE Tied == {t \in K : f[t] = least}
<1>3. Tied \in SUBSET Nat /\ Tied # {}
    BY <1>2, Contents
<1>4. PICK m \in Tied : \A n \in Tied : m <= n
  <2> HIDE DEF Tied
  <2> QED
    BY <1>3, LeastNumber
<1>5. ASSUME NEW t \in K \ {m} PROVE t \in Above(m, f)
  <2>1. f[t] \in Nat /\ f[m] \in Nat /\ t \in Nat /\ m \in Nat
    BY <1>4, Contents
  <2>2. f[m] = least /\ least <= f[t]
    BY <1>2, <1>4
  <2>3. f[t] = f[m] => m <= t
    BY <2>2, <1>4
  <2> QED
    BY <2>1, <2>2, <2>3 DEF Above
<1> QED
    BY <1>4, <1>5

LEMMA KeptIsBounded ==
    ASSUME NEW f \in Histories
    PROVE  Cardinality(Kept(f)) <= MAX_STORED_TERMS
<1>1. Kept(f) \in SUBSET DOMAIN f /\ Kept(f) \in SUBSET Terms
    BY Contents DEF Kept
<1>2. IsFiniteSet(Kept(f)) /\ Cardinality(Kept(f)) \in Nat
    BY <1>1, Fewer
<1>3. CASE Kept(f) = {}
    BY <1>3, FS_EmptySet
<1>4. CASE Kept(f) # {}
  <2>1. PICK m \in Kept(f) : Kept(f) \ {m} \subseteq Above(m, f)
    BY <1>1, <1>4, LowestMember
  <2>2. Cardinality(Kept(f) \ {m}) = Cardinality(Kept(f)) - 1
    BY <1>2, <2>1, FS_RemoveElement
  <2>3. /\ Cardinality(Kept(f) \ {m}) <= Cardinality(Above(m, f))
        /\ Cardinality(Above(m, f)) \in Nat
    BY <2>1, AboveAreTerms, Fewer
  <2>4. Cardinality(Above(m, f)) < MAX_STORED_TERMS
    BY <2>1 DEF Kept
  <2> QED
    BY <1>2, <2>2, <2>3, <2>4
<1> QED
    BY <1>3, <1>4

-----------------------------------------------------------------------------
(* The two commands of a save. *)

(* What ranks above a term still does when the times of others only grow.    *)
LEMMA AboveInLatest ==
    ASSUME NEW f \in Histories, NEW g \in Histories, NEW t \in DOMAIN f,
           DOMAIN f \subseteq DOMAIN g,
           \A u \in DOMAIN f : f[u] <= g[u],
           f[t] = g[t]
    PROVE  Above(t, f) \subseteq Above(t, g)
<1> SUFFICES ASSUME NEW u \in Above(t, f)
             PROVE  u \in Above(t, g)
    OBVIOUS
<1>1. /\ u \in DOMAIN f /\ u \in DOMAIN g /\ u \in Nat /\ t \in Nat
      /\ f[u] \in Nat /\ g[u] \in Nat /\ f[t] \in Nat
    BY Contents DEF Above
<1>2. f[u] > f[t] \/ (f[u] = f[t] /\ u > t)
    BY DEF Above
<1>3. f[u] <= g[u]
    BY <1>1
<1>4. g[u] > g[t] \/ (g[u] = g[t] /\ u > t)
    BY <1>1, <1>2, <1>3
<1> QED
    BY <1>1, <1>4 DEF Above

(* The order of the merge is that of the arguments, pointwise. *)
LEMMA MergedIsMonotone ==
    ASSUME NEW f \in Histories, NEW g \in Histories, NEW b \in Histories,
           DOMAIN f \subseteq DOMAIN g,
           \A u \in DOMAIN f : f[u] <= g[u]
    PROVE  /\ DOMAIN Merged(f, b) \subseteq DOMAIN Merged(g, b)
           /\ \A u \in DOMAIN Merged(f, b) : Merged(f, b)[u] <= Merged(g, b)[u]
<1>1. /\ Merged(f, b) \in Histories /\ DOMAIN Merged(f, b) = DOMAIN f \cup DOMAIN b
      /\ Merged(g, b) \in Histories /\ DOMAIN Merged(g, b) = DOMAIN g \cup DOMAIN b
    BY MergedTimes
<1>2. ASSUME NEW u \in DOMAIN f \cup DOMAIN b
      PROVE  Merged(f, b)[u] <= Merged(g, b)[u]
  <2>1. u \in DOMAIN g \cup DOMAIN b
    BY <1>2
  <2>2. Merged(f, b)[u] \in Nat /\ Merged(g, b)[u] \in Nat
    BY <1>1, <2>1, Contents
  <2>3. CASE u \in DOMAIN f /\ Merged(f, b)[u] = f[u]
    <3>1. f[u] <= g[u] /\ g[u] <= Merged(g, b)[u]
      BY <2>3, MergedTimes
    <3>2. f[u] \in Nat /\ g[u] \in Nat
      BY <2>3, Contents
    <3> QED
      BY <2>2, <2>3, <3>1, <3>2
  <2>4. CASE u \in DOMAIN b /\ Merged(f, b)[u] = b[u]
    BY <2>4, MergedTimes
  <2>5. \/ u \in DOMAIN f /\ Merged(f, b)[u] = f[u]
        \/ u \in DOMAIN b /\ Merged(f, b)[u] = b[u]
    BY MergedFrom
  <2> QED
    BY <2>3, <2>4, <2>5
<1> QED
    BY <1>1, <1>2

-----------------------------------------------------------------------------
(* Types. *)

LEMMA InitTypes == Init => TypeOK
<1> SUFFICES ASSUME Init PROVE TypeOK
    OBVIOUS
<1>1. stored \in Histories /\ latest \in Histories /\ Cardinality(DOMAIN stored) = 0
    BY NothingIsHistory, FS_EmptySet DEF Init
<1>2. batch \in [Saves -> Histories] /\ pc \in [Saves -> {"idle", "exec"}]
    BY NothingIsHistory DEF Init
<1> QED
    BY <1>1, <1>2 DEF Init, TypeOK, Times

LEMMA EndsTypes ==
    ASSUME TypeOK, NEW s \in Saves, Ends(s)
    PROVE  pc' \in [Saves -> {"idle", "exec"}] /\ batch' \in [Saves -> Histories]
    BY NothingIsHistory DEF Ends, TypeOK

(* What a save sends is a history none of whose times is in the future. *)
LEMMA CappedTimes ==
    ASSUME TypeOK, NEW T \in SUBSET Terms, NEW entries \in [T -> Times]
    PROVE  /\ [t \in DOMAIN entries |-> Capped(entries[t])] \in Histories
           /\ \A t \in T : Capped(entries[t]) <= clock
<1>1. \A x \in Times : Capped(x) \in Times /\ Capped(x) <= clock
    BY DEF Capped, TypeOK, Times
<1>2. [t \in DOMAIN entries |-> Capped(entries[t])] \in [T -> Times]
    BY <1>1
<1> QED
    BY <1>1, <1>2, IsHistory

(* Both kinds of request are a save of some entries. *)
LEMMA EverySave ==
    ASSUME TypeOK, NEW s \in Saves, record(s) \/ import(s)
    PROVE  \E T \in SUBSET Terms : \E entries \in [T -> Times] : Save(s, entries)
<1>1. CASE record(s)
  <2>1. PICK t \in Terms : Save(s, [u \in {t} |-> clock])
    BY <1>1 DEF record
  <2>2. [u \in {t} |-> clock] \in [{t} -> Times]
    BY DEF TypeOK
  <2>3. {t} \in SUBSET Terms
    OBVIOUS
  <2> QED
    BY <2>1, <2>2, <2>3
<1>2. CASE import(s)
    BY <1>2 DEF import
<1> QED
    BY <1>1, <1>2

LEMMA ExecTypes ==
    ASSUME TypeOK, NEW s \in Saves, Exec(s)
    PROVE  TypeOK'
<1>1. stored \in Histories /\ latest \in Histories /\ batch[s] \in Histories
    BY DEF TypeOK
<1>2. zadd(stored, batch[s]) \in Histories
    BY <1>1, MergedTimes DEF zadd
<1>3. stored' \in Histories /\ Cardinality(DOMAIN stored') <= MAX_STORED_TERMS
    BY <1>2, TrimmedTimes, KeptIsBounded DEF Exec
<1>4. latest' \in Histories
    BY <1>1, MergedTimes DEF Exec
<1>5. expiresAt' \in 0..(MaxTime + HISTORY_TTL)
    BY DEF Exec, TypeOK, Times
<1>6. pc' \in [Saves -> {"idle", "exec"}] /\ batch' \in [Saves -> Histories]
    BY EndsTypes DEF Exec
<1> QED
    BY <1>3, <1>4, <1>5, <1>6 DEF Exec, TypeOK

LEMMA NextTypes ==
    ASSUME TypeOK, [Next]_vars
    PROVE  TypeOK'
<1>1. ASSUME NEW s \in Saves, record(s) \/ import(s)
      PROVE  TypeOK'
  <2>1. PICK T \in SUBSET Terms : \E entries \in [T -> Times] : Save(s, entries)
    BY <1>1, EverySave
  <2>2. PICK entries \in [T -> Times] : Save(s, entries)
    BY <2>1
  <2>3. [t \in DOMAIN entries |-> Capped(entries[t])] \in Histories
    BY CappedTimes
  <2> QED
    BY <2>2, <2>3 DEF Save, TypeOK
<1>2. ASSUME NEW s \in Saves, SaveFails(s)
      PROVE  TypeOK'
    BY <1>2, EndsTypes DEF SaveFails, TypeOK
<1>3. CASE Tick
  <2>1. stored' \in Histories /\ Cardinality(DOMAIN stored') <= MAX_STORED_TERMS
    BY <1>3, NothingIsHistory, FS_EmptySet DEF Tick, TypeOK
  <2> QED
    BY <1>3, <2>1 DEF Tick, TypeOK, Times
<1>4. CASE UNCHANGED vars
    BY <1>4 DEF vars, TypeOK
<1> QED
    BY <1>1, <1>2, <1>3, <1>4, ExecTypes DEF Next

(* The history of a user never exceeds MAX_STORED_TERMS terms, and every     *)
(* other variable keeps its type.                                            *)
THEOREM HistoryTypes == Spec => []TypeOK
<1>1. Init => TypeOK
    BY InitTypes
<1>2. TypeOK /\ [Next]_vars => TypeOK'
    BY NextTypes
<1> QED
    BY <1>1, <1>2, PTL DEF Spec

-----------------------------------------------------------------------------
(* The latest terms. *)

LEMMA InitHistory == Init => HistoryInv
<1> SUFFICES ASSUME Init PROVE HistoryInv
    OBVIOUS
<1>1. DOMAIN stored = {} /\ DOMAIN latest = {}
    BY NothingIsHistory DEF Init
<1>2. \A s \in Saves : DOMAIN batch[s] = {}
    BY NothingIsHistory DEF Init
<1>3. expiresAt <= clock + HISTORY_TTL
    BY DEF Init
<1> QED
    BY <1>1, <1>2, <1>3 DEF HistoryInv, RecentTermsAreKept

(* The times of a batch stay in the past. *)
LEMMA BatchesStayPast ==
    ASSUME TypeOK, HistoryInv, NEW s \in Saves, Ends(s), clock' = clock
    PROVE  \A r \in Saves : \A t \in DOMAIN batch'[r] : batch'[r][t] <= clock'
<1> SUFFICES ASSUME NEW r \in Saves, NEW t \in DOMAIN batch'[r]
             PROVE  batch'[r][t] <= clock
    OBVIOUS
<1>1. r # s
    BY NothingIsHistory DEF Ends, TypeOK
<1>2. batch'[r] = batch[r]
    BY <1>1 DEF Ends, TypeOK
<1> QED
    BY <1>2 DEF HistoryInv

(* A save leaves the latest terms in the set, with the latest times.         *)
LEMMA ExecKeepsRecent ==
    ASSUME TypeOK, HistoryInv, NEW s \in Saves, Exec(s)
    PROVE  HistoryInv'
<1> DEFINE b == batch[s]
           z == zadd(stored, b)
<1>1. stored \in Histories /\ latest \in Histories /\ b \in Histories
    BY DEF TypeOK
<1>2. /\ z \in Histories /\ DOMAIN z = DOMAIN stored \cup DOMAIN b
      /\ latest' \in Histories /\ DOMAIN latest' = DOMAIN latest \cup DOMAIN b
    BY <1>1, MergedTimes DEF zadd, Exec
<1>3. DOMAIN stored \subseteq DOMAIN latest /\ \A t \in DOMAIN stored : stored[t] <= latest[t]
    BY DEF HistoryInv
<1>4. DOMAIN z \subseteq DOMAIN latest' /\ \A t \in DOMAIN z : z[t] <= latest'[t]
    BY <1>1, <1>3, MergedIsMonotone DEF zadd, Exec
<1>5. /\ DOMAIN stored' = Kept(z) /\ Kept(z) \subseteq DOMAIN z
      /\ \A t \in Kept(z) : stored'[t] = z[t]
    BY <1>2, TrimmedTimes DEF Exec
<1>6. clock' = clock /\ clock \in Nat /\ expiresAt' = clock + HISTORY_TTL
    BY DEF Exec, TypeOK, Times
<1>7. ASSUME NEW t \in DOMAIN latest', Recent(t)', AmongLatest(t)'
      PROVE  t \in DOMAIN stored' /\ stored'[t] = latest'[t]
  <2>1. t \in DOMAIN z /\ z[t] = latest'[t]
    <3>1. CASE t \in DOMAIN b /\ latest'[t] = b[t]
      <4>1. t \in DOMAIN z /\ z[t] >= b[t]
        BY <1>1, <1>2, <3>1, MergedTimes DEF zadd
      <4>2. z[t] \in Nat /\ latest'[t] \in Nat /\ z[t] <= latest'[t]
        BY <1>2, <1>4, <4>1, Contents
      <4> QED
        BY <3>1, <4>1, <4>2
    <3>2. CASE t \in DOMAIN latest /\ latest'[t] = latest[t]
      <4>1. Recent(t)
        BY <1>6, <1>7, <3>2 DEF Recent
      <4>2. Above(t, latest) \subseteq Above(t, latest')
        <5>1. ASSUME NEW u \in DOMAIN latest PROVE latest[u] <= latest'[u]
          <6>1. u \in DOMAIN latest' /\ latest'[u] >= latest[u]
            BY <1>1, <1>2, MergedTimes DEF Exec
          <6>2. latest[u] \in Nat /\ latest'[u] \in Nat
            BY <1>1, <1>2, <6>1, Contents
          <6> QED
            BY <6>1, <6>2
        <5> QED
          BY <1>1, <1>2, <3>2, <5>1, AboveInLatest
      <4>3. AmongLatest(t)
        <5>1. Above(t, latest') \in SUBSET Terms
          BY <1>2, AboveAreTerms
        <5>2. /\ Cardinality(Above(t, latest)) <= Cardinality(Above(t, latest'))
              /\ Cardinality(Above(t, latest)) \in Nat /\ Cardinality(Above(t, latest')) \in Nat
          BY <4>2, <5>1, Fewer
        <5>3. Cardinality(Above(t, latest')) < MAX_STORED_TERMS
          BY <1>7 DEF AmongLatest
        <5> QED
          BY <5>2, <5>3 DEF AmongLatest
      <4>4. t \in DOMAIN stored /\ stored[t] = latest[t]
        BY <3>2, <4>1, <4>3 DEF HistoryInv, RecentTermsAreKept
      <4>5. t \in DOMAIN z /\ z[t] >= stored[t]
        BY <1>1, <1>2, <4>4, MergedTimes DEF zadd
      <4>6. z[t] \in Nat /\ latest'[t] \in Nat /\ z[t] <= latest'[t]
        BY <1>2, <1>4, <4>5, Contents
      <4> QED
        BY <3>2, <4>4, <4>5, <4>6
    <3>3. \/ t \in DOMAIN latest /\ latest'[t] = latest[t]
          \/ t \in DOMAIN b /\ latest'[t] = b[t]
      <4>1. latest' = Merged(latest, b)
        BY DEF Exec
      <4>2. t \in DOMAIN latest \cup DOMAIN b
        BY <1>2, <1>7
      <4> QED
        BY <1>1, <4>1, <4>2, MergedFrom
    <3> QED
      BY <3>1, <3>2, <3>3
  <2>2. Above(t, z) \subseteq Above(t, latest')
    BY <1>2, <1>4, <2>1, AboveInLatest
  <2>3. Above(t, latest') \in SUBSET Terms
    BY <1>2, AboveAreTerms
  <2>4. /\ Cardinality(Above(t, z)) <= Cardinality(Above(t, latest'))
        /\ Cardinality(Above(t, z)) \in Nat /\ Cardinality(Above(t, latest')) \in Nat
    BY <2>2, <2>3, Fewer
  <2>5. Cardinality(Above(t, latest')) < MAX_STORED_TERMS
    BY <1>7 DEF AmongLatest
  <2>6. t \in Kept(z)
    BY <2>1, <2>4, <2>5 DEF Kept
  <2> QED
    BY <1>5, <2>1, <2>6
<1>8. ASSUME NEW t \in DOMAIN stored'
      PROVE  stored'[t] <= latest'[t] /\ stored'[t] + HISTORY_TTL <= expiresAt'
  <2>1. t \in DOMAIN z /\ stored'[t] = z[t] /\ z[t] <= latest'[t] /\ z[t] \in Nat
    BY <1>2, <1>4, <1>5, <1>8, Contents
  <2>2. z[t] <= clock
    <3>1. CASE t \in DOMAIN b /\ z[t] = b[t]
      BY <3>1 DEF HistoryInv
    <3>2. CASE t \in DOMAIN stored /\ z[t] = stored[t]
      <4>1. stored[t] + HISTORY_TTL <= expiresAt /\ expiresAt <= clock + HISTORY_TTL
        BY <3>2 DEF HistoryInv
      <4>2. stored[t] \in Nat /\ expiresAt \in Nat
        BY <1>1, <3>2, Contents DEF TypeOK
      <4> QED
        BY <1>6, <3>2, <4>1, <4>2
    <3>3. \/ t \in DOMAIN stored /\ z[t] = stored[t]
          \/ t \in DOMAIN b /\ z[t] = b[t]
      BY <1>1, <1>2, <2>1, MergedFrom DEF zadd
    <3> QED
      BY <3>1, <3>2, <3>3
  <2> QED
    BY <1>6, <2>1, <2>2
<1>9. DOMAIN stored' \subseteq DOMAIN latest'
    BY <1>4, <1>5
<1>10. \A r \in Saves : \A t \in DOMAIN batch'[r] : batch'[r][t] <= clock'
    BY <1>6, BatchesStayPast DEF Exec
<1> QED
    BY <1>6, <1>7, <1>8, <1>9, <1>10 DEF HistoryInv, RecentTermsAreKept

(* When the set expires, no term of it is recent.                            *)
LEMMA TickKeepsRecent ==
    ASSUME TypeOK, HistoryInv, Tick
    PROVE  HistoryInv'
<1>1. stored \in Histories /\ latest \in Histories /\ clock \in Nat /\ expiresAt \in Nat
    BY DEF TypeOK, Times
<1>2. clock' = clock + 1 /\ latest' = latest /\ batch' = batch /\ expiresAt' = expiresAt
    BY DEF Tick
<1>3. ASSUME NEW t \in DOMAIN latest', Recent(t)', AmongLatest(t)'
      PROVE  t \in DOMAIN stored' /\ stored'[t] = latest'[t]
  <2>1. latest[t] \in Nat /\ latest[t] + HISTORY_TTL > clock + 1
    BY <1>1, <1>2, <1>3, Contents DEF Recent
  <2>2. Recent(t) /\ AmongLatest(t)
    BY <1>1, <1>2, <1>3, <2>1 DEF Recent, AmongLatest
  <2>3. t \in DOMAIN stored /\ stored[t] = latest[t]
    BY <1>2, <1>3, <2>2 DEF HistoryInv, RecentTermsAreKept
  <2>4. stored[t] + HISTORY_TTL <= expiresAt
    BY <2>3 DEF HistoryInv
  <2>5. ~(clock' >= expiresAt)
    BY <1>1, <1>2, <2>1, <2>3, <2>4
  <2>6. stored' = stored
    BY <2>5 DEF Tick
  <2> QED
    BY <1>2, <2>3, <2>6
<1>4. stored' = stored \/ DOMAIN stored' = {}
    BY NothingIsHistory DEF Tick
<1>5. DOMAIN stored' \subseteq DOMAIN latest' /\ expiresAt' <= clock' + HISTORY_TTL
    BY <1>1, <1>2, <1>4 DEF HistoryInv
<1>6. \A t \in DOMAIN stored' :
         stored'[t] <= latest'[t] /\ stored'[t] + HISTORY_TTL <= expiresAt'
    BY <1>2, <1>4 DEF HistoryInv
<1>7. ASSUME NEW r \in Saves, NEW t \in DOMAIN batch[r]
      PROVE  batch[r][t] <= clock + 1
  <2>1. batch[r][t] \in Nat /\ batch[r][t] <= clock
    BY <1>7, Contents DEF TypeOK, HistoryInv
  <2> QED
    BY <1>1, <2>1
<1> QED
    BY <1>2, <1>3, <1>5, <1>6, <1>7 DEF HistoryInv, RecentTermsAreKept

(* A request that has not reached Redis changes no set.                      *)
LEMMA SaveKeepsRecent ==
    ASSUME TypeOK, HistoryInv, NEW s \in Saves, record(s) \/ import(s)
    PROVE  HistoryInv'
<1>1. PICK T \in SUBSET Terms : \E entries \in [T -> Times] : Save(s, entries)
    BY EverySave
<1>2. PICK entries \in [T -> Times] : Save(s, entries)
    BY <1>1
<1>3. UNCHANGED <<clock, stored, expiresAt, latest>>
    BY <1>2 DEF Save
<1>4. \A r \in Saves : \A t \in DOMAIN batch'[r] : batch'[r][t] <= clock
  <2>1. batch' = [batch EXCEPT ![s] = [t \in DOMAIN entries |-> Capped(entries[t])]]
    BY <1>2 DEF Save
  <2>2. \A t \in T : Capped(entries[t]) <= clock
    BY CappedTimes
  <2> QED
    BY <2>1, <2>2 DEF HistoryInv, TypeOK
<1> QED
    BY <1>3, <1>4 DEF HistoryInv, RecentTermsAreKept, Recent, AmongLatest

LEMMA NextHistory ==
    ASSUME TypeOK, HistoryInv, [Next]_vars
    PROVE  HistoryInv'
<1>1. ASSUME NEW s \in Saves, SaveFails(s)
      PROVE  HistoryInv'
  <2>1. UNCHANGED <<clock, stored, expiresAt, latest>>
    BY <1>1 DEF SaveFails
  <2>2. \A r \in Saves : \A t \in DOMAIN batch'[r] : batch'[r][t] <= clock'
    BY <1>1, <2>1, BatchesStayPast DEF SaveFails
  <2> QED
    BY <2>1, <2>2 DEF HistoryInv, RecentTermsAreKept, Recent, AmongLatest
<1>2. CASE UNCHANGED vars
    BY <1>2 DEF vars, HistoryInv, RecentTermsAreKept, Recent, AmongLatest
<1> QED
    BY <1>1, <1>2, SaveKeepsRecent, ExecKeepsRecent, TickKeepsRecent DEF Next

(* Newer timestamps win: in every state, whatever the saves, what they claim *)
(* and the order in which they reach Redis, a recent term that is among the  *)
(* MAX_STORED_TERMS latest is stored, with its latest time.                  *)
THEOREM HistoryCorrect == Spec => []HistoryInv
<1>1. Init => TypeOK /\ HistoryInv
    BY InitTypes, InitHistory
<1>2. TypeOK /\ HistoryInv /\ [Next]_vars => (TypeOK /\ HistoryInv)'
    BY NextTypes, NextHistory
<1> QED
    BY <1>1, <1>2, PTL DEF Spec

(* The part of it that the run checks by itself.                             *)
THEOREM HistoryKeepsRecent == Spec => []RecentTermsAreKept
<1>1. HistoryInv => RecentTermsAreKept
    BY DEF HistoryInv
<1> QED
    BY <1>1, HistoryCorrect, PTL

-----------------------------------------------------------------------------
(* Suggestions. *)

LEMMA StoredIsSuggested ==
    ASSUME TypeOK, HistoryInv
    PROVE  SuggestionsAreMostRecent
<1> SUFFICES ASSUME NEW matching \in SUBSET Terms, NEW t \in DOMAIN latest \cap matching,
                    Recent(t), AmongLatest(t),
                    Cardinality(Above(t, latest) \cap matching) < MAX_SUGGESTIONS
             PROVE  t \in findRecent(matching)
    BY DEF SuggestionsAreMostRecent
<1>1. stored \in Histories /\ latest \in Histories
    BY DEF TypeOK
<1>2. t \in DOMAIN stored /\ stored[t] = latest[t]
    BY DEF HistoryInv, RecentTermsAreKept
<1>3. Above(t, stored) \subseteq Above(t, latest)
    BY <1>1, <1>2, AboveInLatest DEF HistoryInv
<1>4. Above(t, latest) \cap matching \in SUBSET Terms
    OBVIOUS
<1>5. Above(t, stored) \cap matching \subseteq Above(t, latest) \cap matching
    BY <1>3
<1>6. /\ Cardinality(Above(t, stored) \cap matching)
           <= Cardinality(Above(t, latest) \cap matching)
      /\ Cardinality(Above(t, stored) \cap matching) \in Nat
      /\ Cardinality(Above(t, latest) \cap matching) \in Nat
    BY <1>4, <1>5, Fewer
<1> QED
    BY <1>2, <1>6 DEF findRecent

(* GET /search-history leaves out no recent term that it should suggest.     *)
THEOREM SuggestionsCorrect == Spec => []SuggestionsAreMostRecent
<1>1. TypeOK /\ HistoryInv => SuggestionsAreMostRecent
    BY StoredIsSuggested
<1> QED
    BY <1>1, HistoryTypes, HistoryCorrect, PTL
=============================================================================
