------------------------------ MODULE SearchHistory ------------------------------
(***************************************************************************)
(* The search history of one user: a sorted set in Redis whose members are *)
(* normalized terms and whose scores are times.  A request reads the clock *)
(* first and reaches Redis later, so saves arrive in any order, and an     *)
(* import brings times that the client made up.                            *)
(*                                                                         *)
(* Redis runs a MULTI as one step, and breaks ties of score by the text of *)
(* the members: terms are numbered in that order.                          *)
(***************************************************************************)
EXTENDS Naturals, FiniteSets

CONSTANTS
    Saves,             \* POST /search-history and /search-history/import
    NTerms,            \* terms that normalizeSearchTerm may give
    MAX_STORED_TERMS,
    MAX_SUGGESTIONS,
    HISTORY_TTL,       \* HISTORY_TTL_SECONDS, in ticks of the clock
    MaxTime            \* bound: the clock

Terms == 1..NTerms
Times == 0..MaxTime

ASSUME HistoryAssumption ==
    /\ NTerms \in Nat \ {0}
    /\ MAX_STORED_TERMS \in Nat \ {0}
    /\ MAX_SUGGESTIONS \in Nat
    /\ HISTORY_TTL \in Nat \ {0}
    /\ MaxTime \in Nat

VARIABLES
    clock,      \* Date.now(), and the time of Redis
    stored,     \* the sorted set: the score of each member
    expiresAt,  \* when Redis drops the key, unless a save comes first
    pc,         \* whether a save is on its way to Redis
    batch,      \* scoreMembers of each save
    latest      \* what is judged by: the latest time each term ever came with

vars == <<clock, stored, expiresAt, pc, batch, latest>>

Nothing == [t \in {} |-> 0]

Init ==
    /\ clock = 0
    /\ stored = Nothing /\ expiresAt = 0
    /\ pc = [s \in Saves |-> "idle"]
    /\ batch = [s \in Saves |-> Nothing]
    /\ latest = Nothing

-----------------------------------------------------------------------------
(* Sorted sets. *)

(* The members that rank above t. *)
Above(t, set) ==
    {u \in DOMAIN set : set[u] > set[t] \/ (set[u] = set[t] /\ u > t)}

(* Each term of either with its later time. *)
Merged(f, g) ==
    [t \in DOMAIN f \cup DOMAIN g |->
        IF t \in DOMAIN f /\ (t \notin DOMAIN g \/ f[t] > g[t]) THEN f[t] ELSE g[t]]

(* Mutant of zadd: without GT the last save decides. *)
ZaddPlain(set, scores) ==
    [t \in DOMAIN set \cup DOMAIN scores |->
        IF t \in DOMAIN scores THEN scores[t] ELSE set[t]]

(* ZADD GT: a member's score only grows, a new member is added. *)
zadd(set, scores) == Merged(set, scores)

(* Mutants of Kept: one too few, one too many. *)
KeptShort(set) == {t \in DOMAIN set : Cardinality(Above(t, set)) + 1 < MAX_STORED_TERMS}
KeptLong(set)  == {t \in DOMAIN set : Cardinality(Above(t, set)) <= MAX_STORED_TERMS}

(* What ZREMRANGEBYRANK 0 -(MAX_STORED_TERMS + 1) leaves. *)
Kept(set) == {t \in DOMAIN set : Cardinality(Above(t, set)) < MAX_STORED_TERMS}

Trimmed(set) == [t \in Kept(set) |-> set[t]]

-----------------------------------------------------------------------------
(* Mutant of Capped: the client's clock is believed. *)
AnyTime(searchedAt) == searchedAt

Capped(searchedAt) == IF searchedAt < clock THEN searchedAt ELSE clock

(* An entry that is there twice counts with its later time, and one whose   *)
(* term is blank not at all; with none left nothing is sent.                *)
Save(s, entries) ==
    /\ pc[s] = "idle"
    /\ entries # Nothing
    /\ batch' = [batch EXCEPT ![s] = [t \in DOMAIN entries |-> Capped(entries[t])]]
    /\ pc' = [pc EXCEPT ![s] = "exec"]
    /\ UNCHANGED <<clock, stored, expiresAt, latest>>

record(s) == \E t \in Terms : Save(s, [u \in {t} |-> clock])

import(s) ==
    \E T \in SUBSET Terms :
        /\ Cardinality(T) <= MAX_STORED_TERMS
        /\ \E searchedAt \in [T -> Times] : Save(s, searchedAt)

(* The request is answered, and its scores are gone. *)
Ends(s) ==
    /\ batch' = [batch EXCEPT ![s] = Nothing]
    /\ pc' = [pc EXCEPT ![s] = "idle"]

Exec(s) ==
    /\ pc[s] = "exec"
    /\ stored' = Trimmed(zadd(stored, batch[s]))
    /\ expiresAt' = clock + HISTORY_TTL
    /\ latest' = Merged(latest, batch[s])
    /\ Ends(s)
    /\ UNCHANGED clock

(* EXEC rejects without effect; one with an effect is Exec. *)
SaveFails(s) ==
    /\ pc[s] = "exec"
    /\ Ends(s)
    /\ UNCHANGED <<clock, stored, expiresAt, latest>>

(* Redis drops a key at its time. *)
Tick ==
    /\ clock < MaxTime
    /\ clock' = clock + 1
    /\ stored' = IF clock' >= expiresAt THEN Nothing ELSE stored
    /\ UNCHANGED <<expiresAt, pc, batch, latest>>

Next ==
    \/ \E s \in Saves : record(s) \/ import(s) \/ Exec(s) \/ SaveFails(s)
    \/ Tick

Spec == Init /\ [][Next]_vars

-----------------------------------------------------------------------------
(* Mutant of findRecent: the newest terms first, those with the prefix then. *)
SlicesFirst(matching) ==
    {t \in DOMAIN stored : Cardinality(Above(t, stored)) < MAX_SUGGESTIONS} \cap matching

(* GET /search-history: the first of the members that begin with the prefix, *)
(* newest first.  A prefix stands for the terms that begin with it.          *)
findRecent(matching) ==
    {t \in DOMAIN stored \cap matching :
        Cardinality(Above(t, stored) \cap matching) < MAX_SUGGESTIONS}

-----------------------------------------------------------------------------
Histories == UNION {[T -> Times] : T \in SUBSET Terms}

(* Every variable stays within its type, and the set within its limit. *)
TypeOK ==
    /\ clock \in Times
    /\ stored \in Histories
    /\ Cardinality(DOMAIN stored) <= MAX_STORED_TERMS
    /\ expiresAt \in 0..(MaxTime + HISTORY_TTL)
    /\ pc \in [Saves -> {"idle", "exec"}]
    /\ batch \in [Saves -> Histories]
    /\ latest \in Histories

Recent(t) == latest[t] + HISTORY_TTL > clock

AmongLatest(t) == Cardinality(Above(t, latest)) < MAX_STORED_TERMS

(* "Newer timestamps win" (search-history.controller.ts): a term that was    *)
(* searched within the lifetime of the history, and since when fewer than    *)
(* MAX_STORED_TERMS others were, is stored with that time, in whatever order *)
(* saves and imports arrived, whatever they claimed, and whatever was        *)
(* trimmed or has expired meanwhile.                                         *)
RecentTermsAreKept ==
    \A t \in DOMAIN latest :
        Recent(t) /\ AmongLatest(t) => t \in DOMAIN stored /\ stored[t] = latest[t]

(* "Most recent searches of the current user, optionally filtered by prefix": *)
(* a recent term is suggested unless MAX_SUGGESTIONS later ones match too or  *)
(* MAX_STORED_TERMS later ones have trimmed it, whatever happened before.     *)
SuggestionsAreMostRecent ==
    \A matching \in SUBSET Terms : \A t \in DOMAIN latest \cap matching :
        /\ Recent(t) /\ AmongLatest(t)
        /\ Cardinality(Above(t, latest) \cap matching) < MAX_SUGGESTIONS
        => t \in findRecent(matching)

(* Why: no score is ahead of what the term came with, nor of the clock, nor  *)
(* closer to the expiry of the set than its lifetime.                        *)
HistoryInv ==
    /\ RecentTermsAreKept
    /\ DOMAIN stored \subseteq DOMAIN latest
    /\ expiresAt <= clock + HISTORY_TTL
    /\ \A t \in DOMAIN stored :
         stored[t] <= latest[t] /\ stored[t] + HISTORY_TTL <= expiresAt
    /\ \A s \in Saves : \A t \in DOMAIN batch[s] : batch[s][t] <= clock
=============================================================================
