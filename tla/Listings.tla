------------------------------ MODULE Listings -------------------------------
(***************************************************************************)
(* The paged lists of the web UI: the recent feed and its timeline         *)
(* (services/feed.py), an entity's mentions (services/reads.py) and the    *)
(* activity log (services/activity.py).  Each page is a fresh query with   *)
(* an offset, so a list read page by page is read while it changes: rows   *)
(* arrive above, below and in the middle, and leave.                       *)
(*                                                                         *)
(* Timestamps are now(), the start of the writing transaction, so a row    *)
(* may appear below one committed earlier, and all the correction_events   *)
(* of a transaction carry the same one.  A row is named by its timestamp.  *)
(***************************************************************************)
EXTENDS Naturals, FiniteSets

CONSTANTS
  Standing,  \* rows that stand before the reading
  MaxClock,  \* bound on the timestamps, those of the standing rows included
  PageSize,  \* limit, clamped to at least 1
  None       \* no row

ASSUME ListingsAssumption ==
  /\ Standing \in Nat /\ MaxClock \in Nat /\ Standing <= MaxClock
  /\ PageSize \in Nat \ {0}

Stamps == 1..MaxClock
Surfaces == {"feed", "mentions", "activity"}
Slugs == {"today", "yesterday", "earlier"}
Row == [stage : {"open", "live", "superseded", "deleted"}, shared : BOOLEAN, mention : BOOLEAN]
Item == Stamps \X (1..2)

VARIABLES
  clock,   \* timestamps handed out so far
  rows,    \* brain.experiences by captured_at; "open" until its capture commits
  events,  \* brain.correction_events: the timestamp and which of its transaction's
  days,    \* the first timestamps of today and of yesterday
  scroll,  \* the reader's list: what the Load-more button carries
  seen     \* history: what the reader was shown and what moved meanwhile

vars == <<clock, rows, events, days, scroll, seen>>

Scroll == [surface : Surfaces, step : {"idle", "more", "counted", "done"},
           offset : Nat, count : Nat, cont : Slugs \cup {""}]
Seen == [shown : SUBSET Item, throughout : SUBSET Item, repeats : Nat, arrivals : Nat,
         removals : Nat, racing : Nat, headers : SUBSET Slugs, headerAgain : Nat]

\* The types of the schema and of the Load-more links.
TypeOK ==
  /\ clock \in 0..MaxClock
  /\ rows \in [Stamps -> Row \cup {None}]
  /\ events \subseteq Item
  /\ days \in [today : 1..(MaxClock + 1), yesterday : 1..(MaxClock + 1)]
  /\ scroll \in Scroll
  /\ seen \in Seen

\* The standing rows are successors: edited, a claim retracted with the old text, and
\* consolidated since; their dead predecessors are on no list.  Or their capture is yet
\* to commit.  They may be of any day, which is of no interest to the other two lists.
Init ==
  /\ clock = Standing
  /\ \E open \in SUBSET (1..Standing) :
       /\ rows = [t \in Stamps |->
            IF t > Standing THEN None
            ELSE [stage |-> IF t \in open THEN "open" ELSE "live",
                  shared |-> TRUE, mention |-> TRUE]]
       /\ events = ((1..Standing) \ open) \X (1..2)
  /\ scroll \in [surface : Surfaces, step : {"idle"}, offset : {0}, count : {0}, cont : {""}]
  /\ days \in [today : 1..(Standing + 1), yesterday : 1..(Standing + 1)]
  /\ days.yesterday <= days.today
  /\ scroll.surface # "feed" => days = [today |-> 1, yesterday |-> 1]
  /\ seen = [shown |-> {}, throughout |-> {}, repeats |-> 0, arrivals |-> 0,
             removals |-> 0, racing |-> 0, headers |-> {}, headerAgain |-> 0]

-----------------------------------------------------------------------------
(***************************************************************************)
(* What a list holds.                                                      *)
(***************************************************************************)
\* Not superseded, not deleted, and shared by a housemate.  The viewer's own rows are
\* readable whatever their visibility, as a shared one that nobody ever hides.
Readable(row) == row # None /\ row.stage = "live" /\ row.shared

Items(surface, table, log) ==
  CASE surface = "feed"     -> {<<t, 1>> : t \in {x \in Stamps : Readable(table[x])}}
    [] surface = "mentions" -> {<<t, 1>> : t \in {x \in Stamps : Readable(table[x])
                                                                 /\ table[x].mention}}
    [] surface = "activity" -> log

Listed == Items(scroll.surface, rows, events)

\* Newest first; the order of equal timestamps is the database's to choose.
Above(x, y, flipped) ==
  x[1] > y[1] \/ (x[1] = y[1] /\ x[2] # y[2] /\ ((x[2] < y[2]) = (x[1] \notin flipped)))

\* limit size offset scroll.offset.
Window(size, flipped) ==
  {y \in Listed :
     Cardinality({x \in Listed : Above(x, y, flipped)}) \in
       scroll.offset .. (scroll.offset + size - 1)}

-----------------------------------------------------------------------------
(***************************************************************************)
(* Writes.                                                                 *)
(***************************************************************************)
\* Writes are followed while a list is being read; what stood before is in Init.
Reading == scroll.step \in {"more", "counted"}

\* What a write does to the list being read.
Watch ==
  LET after == Items(scroll.surface, rows', events')
      come == Cardinality(after \ Listed)
      gone == Cardinality(Listed \ after) IN
    seen' = [seen EXCEPT !.throughout = @ \cap after,
                         !.arrivals = @ + come,
                         !.removals = @ + gone,
                         !.racing = @ + IF scroll.step = "counted" THEN come ELSE 0]

Tick == clock < MaxClock /\ clock' = clock + 1

Committed(t) == rows[t] # None /\ rows[t].stage # "open"

\* A capture takes its timestamp when its transaction begins ...
BeginCapture(shared, mention) ==
  /\ Tick
  /\ rows' = [rows EXCEPT ![clock + 1] =
                [stage |-> "open", shared |-> shared, mention |-> mention]]
  /\ UNCHANGED <<events, days, scroll, seen>>

\* ... and is seen when it commits.
CommitCapture(t) ==
  /\ rows[t] # None /\ rows[t].stage = "open"
  /\ rows' = [rows EXCEPT ![t].stage = "live"]
  /\ UNCHANGED <<clock, events, days, scroll>>
  /\ Watch

\* The events of one transaction: its own and, before it, that of a claim it retracts.
Logged(n) == events' = events \cup {<<clock + 1, i>> : i \in 1..n}

\* Only a consolidated row, here one with a mention, has a claim to lose.
LoggedWithClaim(row) == Logged(IF row.mention THEN 2 ELSE 1)

\* edit_experience with a new text: the successor inherits owner and visibility and is
\* consolidated anew, so it has no mention yet; the form may be of a row already dead.
Supersede(t) ==
  /\ Tick /\ Committed(t)
  /\ rows' = [rows EXCEPT
       ![t].stage = IF @ = "deleted" THEN @ ELSE "superseded",
       ![clock + 1] = [rows[t] EXCEPT !.stage = "live", !.mention = FALSE]]
  /\ LoggedWithClaim(rows[t])
  /\ UNCHANGED <<days, scroll>>
  /\ Watch

\* soft_delete_experience; a row already deleted is left alone.
Delete(t) ==
  /\ Tick /\ Committed(t) /\ rows[t].stage # "deleted"
  /\ rows' = [rows EXCEPT ![t].stage = "deleted"]
  /\ LoggedWithClaim(rows[t])
  /\ UNCHANGED <<days, scroll>>
  /\ Watch

\* set_visibility, by the owner, on a row of any stage.
Toggle(t) ==
  /\ Tick /\ Committed(t)
  /\ rows' = [rows EXCEPT ![t].shared = ~@]
  /\ Logged(1)
  /\ UNCHANGED <<days, scroll>>
  /\ Watch

\* Consolidation or a split binds the entity to an old row; a split takes one away.
Rebind(t) ==
  /\ Tick /\ Committed(t)
  /\ rows' = [rows EXCEPT ![t].mention = ~@]
  /\ UNCHANGED <<events, days, scroll>>
  /\ Watch

Midnight ==
  /\ days.today # clock + 1
  /\ days' = [today |-> clock + 1, yesterday |-> days.today]
  /\ UNCHANGED <<clock, rows, events, scroll, seen>>

-----------------------------------------------------------------------------
(***************************************************************************)
(* Pages.                                                                  *)
(***************************************************************************)
\* _bucket_slug; the two last buckets, "this-week" and "earlier", are one here.
Slug(item) ==
  IF item[1] >= days.today THEN "today"
  ELSE IF item[1] >= days.yesterday THEN "yesterday" ELSE "earlier"

\* Mutants: the probe row is counted as shown; the offset is that of the last row, also
\* when there is none.
NextOffsetProbed(offset, page) == offset + Cardinality(page) + 1
NextOffsetShort(offset, page) == offset + Cardinality(page) - IF page = {} THEN 0 ELSE 1
NextOffsetLast(offset, page) == offset + Cardinality(page) - 1

NextOffset(offset, page) == offset + Cardinality(page)

\* The slug that opens the page (also a mutant of NextCont).
FirstSlug(page) == IF page = {} THEN "" ELSE Slug(CHOOSE x \in page : \A y \in page : x[1] >= y[1])

\* The slug of the bucket that ended the page.
NextCont(page) == IF page = {} THEN "" ELSE Slug(CHOOSE x \in page : \A y \in page : x[1] <= y[1])

\* One header per bucket of the page, but none for a first bucket that continues the
\* page before.
Headers(page) ==
  {Slug(x) : x \in page} \ IF FirstSlug(page) = scroll.cont THEN {scroll.cont} ELSE {}

\* The reader's notes; the first query is where a reading begins.
Noted(page) ==
  LET begun == IF scroll.step = "idle" THEN [seen EXCEPT !.throughout = Listed] ELSE seen IN
    [begun EXCEPT !.shown = @ \cup page,
                  !.repeats = @ + Cardinality(page \cap begun.shown),
                  !.headers = @ \cup Headers(page),
                  !.headerAgain = @ + Cardinality(Headers(page) \cap begun.headers)]

Render(page, more) ==
  /\ scroll' = [scroll EXCEPT !.step = IF more THEN "more" ELSE "done",
                              !.offset = NextOffset(scroll.offset, page),
                              !.cont = NextCont(page)]
  /\ seen' = Noted(page)
  /\ UNCHANGED <<clock, rows, events, days>>

\* The twins of which the page would hold one.
Straddling ==
  LET page == Window(PageSize, {}) IN
    {x[1] : x \in {y \in page : <<y[1], 3 - y[2]>> \in Listed \ page}}

\* Mutant: the activity log asks for no row more than it shows.
MoreInFeed(flipped) ==
  LET probe == IF scroll.surface = "activity" THEN 0 ELSE 1 IN
    Cardinality(Window(PageSize + probe, flipped)) > PageSize

\* The feed and the activity log ask for one row more than they show.
More(flipped) == Cardinality(Window(PageSize + 1, flipped)) > PageSize

LoadProbed ==
  /\ scroll.surface \in {"feed", "activity"} /\ scroll.step \in {"idle", "more"}
  /\ \E flipped \in SUBSET Straddling :
       Render(Window(PageSize, flipped), More(flipped))

\* The mentions of an entity are counted by one statement ...
LoadCount ==
  /\ scroll.surface = "mentions" /\ scroll.step \in {"idle", "more"}
  /\ scroll' = [scroll EXCEPT !.step = "counted", !.count = Cardinality(Listed)]
  /\ seen' = IF scroll.step = "idle" THEN [seen EXCEPT !.throughout = Listed] ELSE seen
  /\ UNCHANGED <<clock, rows, events, days>>

\* ... and read by another.
LoadMentions ==
  /\ scroll.step = "counted"
  /\ LET page == Window(PageSize, {}) IN
       Render(page, NextOffset(scroll.offset, page) < scroll.count)

Load == LoadProbed \/ LoadCount \/ LoadMentions

Write ==
  /\ Reading
  /\ \/ \E shared, mention \in BOOLEAN : BeginCapture(shared, mention)
     \/ \E t \in Stamps :
          CommitCapture(t) \/ Toggle(t) \/ Rebind(t) \/ Supersede(t) \/ Delete(t)
     \/ Midnight

Next == Write \/ Load

Spec == Init /\ [][Next]_vars

-----------------------------------------------------------------------------
(***************************************************************************)
(* Properties.                                                             *)
(***************************************************************************)
\* A reader who scrolls to the end has seen every row that was listed throughout, but
\* for one per row that left the list meanwhile and, in the mentions, one per row that
\* came between a page's count and its rows.  (Two events of one transaction may stand
\* in for each other: the next property.)
MissesAreRemovals ==
  scroll.step = "done" /\ scroll.surface # "activity" =>
    Cardinality(seen.throughout \ seen.shown) <= seen.removals + seen.racing

\* A row is shown again only because another came before it.
RepeatsAreArrivals ==
  scroll.surface # "activity" => seen.repeats <= seen.arrivals

\* activity.py: "explaining every autonomous change".  Equal timestamps let the same
\* event end one page and open the next, and hide its twin; but no transaction that was
\* logged when the reading began is missed altogether.
EveryTransactionIsShown ==
  scroll.step = "done" /\ scroll.surface = "activity" =>
    {x[1] : x \in seen.throughout} \subseteq {x[1] : x \in seen.shown}

\* A day's header is rendered twice only if at least two rows came in during the
\* reading; rows that leave, and midnight between two pages, never cause it.
HeadersNeedTwoArrivals ==
  scroll.surface = "feed" /\ seen.headerAgain > 0 => seen.arrivals >= 2
=============================================================================
