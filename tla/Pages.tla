------------------------------- MODULE Pages -------------------------------
(* Lists read page by page while they change: the operations log, events and  *)
(* documents by a keyset cursor (_pagination.py), pull requests by an offset, *)
(* and the activity of a user, merged from several sources (user_activity.py).*)
EXTENDS Naturals, FiniteSets, FiniteSetsExt

CONSTANTS
  Items,      \* what is listed, each added at most once: numbers, as its id
  Times,      \* the instants they may bear
  Sources,    \* the sources of a user's activity, numbers
  Limits,     \* page sizes
  Styles,     \* the ways of paging
  MaxChanges  \* bound: items added or removed while a client reads

\* The instant 0 stands for the cursor of a first page.
ASSUME PagesAssumption == /\ Items \subseteq Nat /\ IsFiniteSet(Items)
                          /\ Times \subseteq Nat \ {0} /\ Limits \subseteq Nat \ {0}

VARIABLES
  item,       \* what is listed now
  walk        \* one client that reads page after page

pageVars == <<item, walk>>

Absent == [there |-> FALSE, time |-> 0, src |-> 0]
Listed == {i \in Items : item[i].there}

\* ORDER BY time DESC, id DESC: j comes after the place (t, i).
After(t, i, j) == item[j].time < t \/ (item[j].time = t /\ j < i)
Before(S, j) == {i \in S : After(item[i].time, i, j)}
\* The first n of S, in order.
First(S, n) == {j \in S : Cardinality(Before(S, j)) < n}
Last(S) == CHOOSE j \in S : Before(S, j) = S \ {j}

AddItem == \E i \in Items, t \in Times, s \in Sources :
  /\ i \notin walk.ever /\ walk.changes < MaxChanges
  /\ walk.style # "activity" => s = Min(Sources)
  /\ item' = [item EXCEPT ![i] = [there |-> TRUE, time |-> t, src |-> s]]
  /\ walk' = [walk EXCEPT !.ever = @ \cup {i}, !.changes = @ + 1]

\* Entries and documents are deleted; pull requests leave a list that is
\* filtered by their state.
RemoveItem == \E i \in Listed :
  /\ walk.changes < MaxChanges
  /\ item' = [item EXCEPT ![i].there = FALSE]
  /\ walk' = [walk EXCEPT !.stayed = @ \ {i}, !.left = TRUE, !.changes = @ + 1]

\* The client asks for the first page, and then for what the answer links to.
Beyond == IF walk.time = 0 THEN Listed ELSE {j \in Listed : After(walk.time, walk.id, j)}

\* The page `page` of what was found; `next` where the following one begins.
Answer(page, more, next) ==
  walk' = [walk EXCEPT
    !.at = IF more THEN "page" ELSE "end",
    !.got = @ \cup page, !.twice = @ \cup (walk.got \cap page),
    !.offset = @ + walk.limit, !.legs = {}, !.found = {},
    !.time = IF more THEN item[next].time ELSE @,
    !.id = IF more THEN next ELSE @]

\* limit + 1 rows past the cursor; the one too many only says that there are
\* more, and the next cursor is the last row shown.
NextFromExtra(rows, n) == Last(rows)
NextFrom(rows, n) == Last(First(rows, n))

KeysetPage ==
  /\ walk.at = "page" /\ walk.style = "keyset"
  /\ LET rows == First(Beyond, walk.limit + 1)
         more == Cardinality(rows) > walk.limit IN
     Answer(First(rows, walk.limit), more, IF more THEN NextFrom(rows, walk.limit) ELSE 0)
  /\ UNCHANGED item

\* LIMIT and OFFSET; a full page is followed by the next.
OffsetPage ==
  /\ walk.at = "page" /\ walk.style = "offset"
  /\ LET rows == First(Listed, walk.offset + walk.limit) \ First(Listed, walk.offset)
         more == Cardinality(rows) = walk.limit IN
     Answer(rows, more, IF more THEN Last(rows) ELSE 0)
  /\ UNCHANGED item

\* Each source is asked on its own for limit + 1 rows up to the cursor's instant,
\* that instant included.
ActivityLeg == \E s \in Sources \ walk.legs :
  /\ walk.at = "page" /\ walk.style = "activity"
  /\ LET upTo == {j \in Listed : item[j].src = s /\ (walk.time = 0 \/ item[j].time <= walk.time)} IN
     walk' = [walk EXCEPT !.legs = @ \cup {s}, !.found = @ \cup First(upTo, walk.limit + 1)]
  /\ UNCHANGED item

\* They are merged; what is not past the cursor is dropped; there is a next page
\* when more than a page is left.
ActivityPage ==
  /\ walk.at = "page" /\ walk.style = "activity" /\ walk.legs = Sources
  /\ LET left == IF walk.time = 0 THEN walk.found
                 ELSE {j \in walk.found : After(walk.time, walk.id, j)}
         more == Cardinality(left) > walk.limit IN
     Answer(First(left, walk.limit), more, IF more THEN NextFrom(left, walk.limit) ELSE 0)
  /\ UNCHANGED item

NoWalk == [at |-> "end", style |-> "none", limit |-> 0, time |-> 0, id |-> 0, offset |-> 0, changes |-> 0,
           ever |-> {}, stayed |-> {}, left |-> FALSE, got |-> {}, twice |-> {}, legs |-> {}, found |-> {}]
NoPages == item = [i \in Items |-> Absent] /\ walk = NoWalk

\* A list of any contents, and a client that has asked for its first page.
PagesInit == \E style \in Styles, n \in Limits, S \in SUBSET Items :
  \E t \in [S -> Times], s \in [S -> IF style = "activity" THEN Sources ELSE {Min(Sources)}] :
    /\ item = [i \in Items |-> IF i \in S THEN [there |-> TRUE, time |-> t[i], src |-> s[i]] ELSE Absent]
    /\ walk = [NoWalk EXCEPT !.at = "page", !.style = style, !.limit = n, !.ever = S, !.stayed = S]

PagesNext == AddItem \/ RemoveItem \/ KeysetPage \/ OffsetPage \/ ActivityLeg \/ ActivityPage

-----------------------------------------------------------------------------
\* Properties

\* What was listed when the client began and stayed is shown by the end of a
\* walk, and by keyset nothing is shown twice, whatever is added or removed in
\* between; by offset as long as nothing leaves the list
\* (operations_log.py:396-426, pull_requests.py:164-178).
WalksComplete ==
  /\ walk.style # "offset" => walk.twice = {}
  /\ walk.at = "end" /\ (walk.style = "keyset" \/ (walk.style = "offset" /\ ~walk.left)) =>
       walk.stayed \subseteq walk.got

\* The same of a user's activity: without a next page nothing more is available.
ActivityComplete ==
  walk.at = "end" /\ walk.style = "activity" => walk.stayed \subseteq walk.got
=============================================================================
