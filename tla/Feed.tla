---------------------------------- MODULE Feed ----------------------------------
(***************************************************************************)
(* VideoService.listVideos and getFeed: a reader asks for one page after   *)
(* another while the pipeline, the owners and the admins publish videos    *)
(* and take them off again.  Each answer takes several queries, and TypeORM *)
(* makes two of a find with relations and a limit: the ids of the page,    *)
(* then the rows of these ids that still match.                            *)
(*                                                                         *)
(* Videos are numbered by createdAt.  A page is a set, since the order of  *)
(* each of its two parts is that of createdAt.                             *)
(***************************************************************************)
EXTENDS Naturals, Sequences, FiniteSets

CONSTANTS
    NVideos,
    limit,
    NPages,       \* bound: how far the reader goes
    MaxChanges    \* bound: videos that are published or taken off meanwhile

Videos == 1..NVideos

ASSUME FeedAssumption ==
    /\ NVideos \in Nat
    /\ limit \in Nat \ {0}
    /\ NPages \in Nat
    /\ MaxChanges \in Nat

VARIABLES
    published,    \* the videos that match PUBLISHED
    kind,         \* GET /videos, GET /videos/feed, the same with a session
    pc,           \* the next query of the request
    ids,          \* what the first query of a find has selected
    recommended,  \* the rows of the recommended query
    latest,       \* the rows of the other one
    total,
    pages,        \* the answers
    began,        \* what is judged by: the catalogue when the reading began,
    hidden,       \* what has been taken off it since,
    came          \* and what has been put on it

request   == <<pc, ids, recommended, latest, total>>
judge     == <<began, hidden, came>>
vars      == <<published, kind, request, pages, judge>>

Reading == pc # "idle" \/ pages # <<>>

Init ==
    /\ published \in SUBSET Videos
    /\ kind \in {"list", "feed", "userFeed"}
    /\ pc = "idle"
    /\ ids = {} /\ recommended = {} /\ latest = {} /\ total = 0
    /\ pages = <<>>
    /\ began = {} /\ hidden = {} /\ came = {}

-----------------------------------------------------------------------------
(* The catalogue. *)

(* The pipeline, an edit or an admin writes the row of a video.  What happens *)
(* before the reader comes is in Init.                                        *)
Change(v) ==
    /\ Reading
    /\ IF v \in published
       THEN published' = published \ {v} /\ hidden' = hidden \cup {v} /\ UNCHANGED came
       ELSE published' = published \cup {v} /\ came' = came \cup {v} /\ UNCHANGED hidden
    /\ Cardinality(hidden') + Cardinality(came') <= MaxChanges
    /\ UNCHANGED <<kind, request, pages, began>>

-----------------------------------------------------------------------------
(* Queries. *)

Newer(v, videos) == {u \in videos : u > v}

(* ORDER BY createdAt DESC with skip and take. *)
Slice(videos, skip, take) ==
    {v \in videos : Cardinality(Newer(v, videos)) \in skip..(skip + take - 1)}

Page == Len(pages) + 1

(* Mutant of Skip: pages are numbered from zero. *)
SkipsOneMore(page) == page * limit

Skip(page) == (page - 1) * limit

(* Mutant of Listed: the recommended videos take the first places. *)
AfterRecommended(page, found) == Slice(published, Skip(page) + found, limit)

(* The second find asks for as many more as may be dropped from it again. *)
Listed(page, found) == Slice(published, Skip(page), limit + found)

-----------------------------------------------------------------------------
(* One request. *)

Goto(step) == pc' = step

Begin ==
    /\ pc = "idle" /\ Page <= NPages
    /\ Goto(IF kind = "list" THEN "ids" ELSE "count")
    /\ began' = IF Reading THEN began ELSE published
    /\ UNCHANGED <<published, kind, ids, recommended, latest, total, pages, hidden, came>>

(* The rows of a find: those of the selected ids that still match.           *)
Rows == ids \cap published

(* Mutant of FirstPage: duplicates are dropped from what was cut to size. *)
CutsFirst(rec, others) == Slice(others, 0, limit - Cardinality(rec)) \ rec

(* Mutant of FirstPage: the page is not cut to size. *)
KeepsAll(rec, others) == others \ rec

(* What the recommended videos leave room for; later pages have none.        *)
FirstPage(rec, others) == Slice(others \ rec, 0, limit - Cardinality(rec))

Answer(others, count) ==
    /\ pages' = Append(pages, [recommended |-> recommended,
                               latest      |-> FirstPage(recommended, others),
                               total       |-> count])
    /\ Goto("idle")
    /\ ids' = {} /\ recommended' = {} /\ latest' = {} /\ total' = 0

Count ==
    /\ pc = "count"
    /\ \/ /\ kind = "list"
          /\ Answer(latest, Cardinality(published))
       \/ /\ kind # "list"
          /\ total' = Cardinality(published)
          /\ Goto(IF Page = 1 /\ kind = "userFeed" THEN "recommended" ELSE "ids")
          /\ UNCHANGED <<ids, recommended, latest, pages>>
    /\ UNCHANGED <<published, kind, judge>>

(* findRecent, and the ids of videos whose titles match one of its terms.    *)
FindRecommended ==
    /\ pc = "recommended"
    /\ \/ /\ \E matching \in SUBSET published : ids' = Slice(matching, 0, limit)
          /\ Goto("recommended_rows")
       \/ Goto("ids") /\ UNCHANGED ids
    /\ UNCHANGED <<published, kind, recommended, latest, total, pages, judge>>

LoadRecommended ==
    /\ pc = "recommended_rows"
    /\ recommended' = Rows
    /\ ids' = {}
    /\ Goto("ids")
    /\ UNCHANGED <<published, kind, latest, total, pages, judge>>

FindLatest ==
    /\ pc = "ids"
    /\ ids' = Listed(Page, Cardinality(recommended))
    /\ Goto("rows")
    /\ UNCHANGED <<published, kind, recommended, latest, total, pages, judge>>

LoadLatest ==
    /\ pc = "rows"
    /\ \/ /\ kind = "list"
          /\ latest' = Rows
          /\ Goto("count")
          /\ UNCHANGED <<ids, recommended, total, pages>>
       \/ kind # "list" /\ Answer(Rows, total)
    /\ UNCHANGED <<published, kind, judge>>

(* A query, or findRecent, rejects: rethrowHttp, and the reader may try again. *)
Fails ==
    /\ pc # "idle"
    /\ Goto("idle")
    /\ ids' = {} /\ recommended' = {} /\ latest' = {} /\ total' = 0
    /\ UNCHANGED <<published, kind, pages, judge>>

Next ==
    \/ \E v \in Videos : Change(v)
    \/ Begin \/ Count \/ FindRecommended \/ LoadRecommended
    \/ FindLatest \/ LoadLatest \/ Fails

Spec == Init /\ [][Next]_vars

-----------------------------------------------------------------------------
Steps == {"idle", "count", "recommended", "recommended_rows", "ids", "rows"}

Answers == [recommended : SUBSET Videos, latest : SUBSET Videos, total : 0..NVideos]

Items(p) == pages[p].recommended \cup pages[p].latest

(* Every variable stays within its type, and no page exceeds the limit. *)
TypeOK ==
    /\ published \in SUBSET Videos
    /\ kind \in {"list", "feed", "userFeed"}
    /\ pc \in Steps
    /\ ids \in SUBSET Videos /\ recommended \in SUBSET Videos /\ latest \in SUBSET Videos
    /\ total \in 0..NVideos
    /\ pages \in Seq(Answers) /\ Len(pages) <= NPages
    /\ \A p \in DOMAIN pages : Cardinality(Items(p)) <= limit
    /\ began \in SUBSET Videos /\ hidden \in SUBSET Videos /\ came \in SUBSET Videos

(* Public from the first request to now. *)
Steady == began \ hidden

(* The home feed is "personalized when logged in, latest videos otherwise"   *)
(* (video.controller.ts): whatever is published and taken off between the    *)
(* queries, whatever is recommended, the first page leaves out no video that *)
(* was public all the time and is newer than one of its latest videos.       *)
FirstPageIsNewest ==
    pages # <<>> =>
        \A v \in pages[1].latest : Newer(v, Steady) \subseteq Items(1)

(* A page has no fewer videos than the total of its answer promises, unless  *)
(* a video was taken off, or a list, which counts last, has grown meanwhile. *)
PagesAreFull ==
    hidden = {} /\ (kind = "list" => came = {}) =>
        \A p \in DOMAIN pages :
            Cardinality(Items(p)) < limit => Skip(p) + Cardinality(Items(p)) >= pages[p].total

(* Pages are offsets into a list that changes.  Without recommendations, a   *)
(* reader sees no video twice if none was published meanwhile, and misses    *)
(* none newer than the last one he saw if none was taken off.                *)
PagesAreContinuous ==
    (\A p \in DOMAIN pages : pages[p].recommended = {}) =>
        \A p, q \in DOMAIN pages : p < q =>
            /\ came = {} => Items(p) \cap Items(q) = {}
            /\ hidden = {} => \A v \in Items(q) :
                 Newer(v, began) \subseteq UNION {Items(n) : n \in 1..q}

-----------------------------------------------------------------------------
(* Why the pages are right: what a request knows of the list it holds.       *)

Rank(v, videos) == Cardinality(Newer(v, videos))

Seen == UNION {Items(p) : p \in DOMAIN pages}

PlainPages == \A p \in DOMAIN pages : pages[p].recommended = {}

Plain == PlainPages /\ recommended = {}

(* No video was taken off, nor put on a list that is counted last. *)
Undisturbed == hidden = {} /\ (kind = "list" => came = {})

(* What the total of the answer will be, if no video is put on meanwhile.    *)
Promised == IF kind = "list" THEN Cardinality(published) ELSE total

(* The list a request holds, first as ids and then as rows: it has what it   *)
(* should of the catalogue as it is now, and goes on where the pages ended.  *)
ListOK(list) ==
    /\ Page = 1 => \A v \in list : Newer(v, Steady) \subseteq list
    /\ hidden = {} => list \subseteq published
    /\ Undisturbed /\ Cardinality(list) < limit + Cardinality(recommended)
         => Skip(Page) + Cardinality(list) >= Promised
    /\ recommended = {} => Cardinality(list) <= limit
    /\ Plain /\ came = {} =>
         \A v \in list : v \notin Seen /\ Rank(v, published) < Page * limit
    /\ Plain /\ hidden = {} =>
         /\ \A v \in list : Newer(v, began) \subseteq Seen \cup list
         /\ \A u \in began : Rank(u, published) < Page * limit => u \in Seen \cup list

HasList == pc = "rows" \/ (pc = "count" /\ kind = "list")

Held == IF pc = "rows" THEN ids ELSE latest

(* What the step of a request says of what has been loaded for it.           *)
RequestSteps ==
    /\ pc # "idle" => Page <= NPages
    /\ pc \in {"idle", "count", "recommended", "recommended_rows"} \/ kind = "list"
         => recommended = {}
    /\ kind = "list" => pc \notin {"recommended", "recommended_rows"}
    /\ pc = "recommended_rows" => Cardinality(ids) <= limit
    /\ Cardinality(recommended) <= limit

RequestInv ==
    /\ RequestSteps
    /\ Steady \subseteq published
    /\ Undisturbed => total <= Cardinality(published)
    /\ HasList => ListOK(Held)

(* As long as videos only go, what was seen stays within the first ranks;    *)
(* as long as they only come, the first ranks of what there was were seen.   *)
PagesGoOn ==
    PlainPages =>
        /\ came = {} => \A v \in Seen : Rank(v, published) < Len(pages) * limit
        /\ hidden = {} => \A u \in began : Rank(u, published) < Len(pages) * limit => u \in Seen

(* Together with the properties of the pages this is inductive. *)
FeedInv ==
    /\ RequestInv /\ PagesGoOn
    /\ FirstPageIsNewest /\ PagesAreFull /\ PagesAreContinuous
=============================================================================
