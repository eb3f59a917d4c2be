------------------------------- MODULE TopBar -------------------------------
(***************************************************************************)
(* The search box of the top bar (scripts/app/topbar.js): an index of the  *)
(* clusters' pages, keyspaces and tables, fetched on focus and kept for a  *)
(* minute, and a list of results that follows the input.                   *)
(*                                                                         *)
(* A query is abstracted to the items it matches, and among them those it  *)
(* is a prefix of.  NoQuery is the empty input.                            *)
(***************************************************************************)
EXTENDS Naturals, Sequences, SequencesExt, FiniteSets, Subsequences

CONSTANTS
    Clusters,        \* cluster names, a sequence in the order of /cluster-keys
    CurrentCluster,  \* the cluster of the page, or NoCluster
    NoCluster,
    Queries,
    NoQuery,
    Matches(_, _),   \* whether a query is found in the text of an item
    Prefix(_, _),    \* whether the text of an item starts with a query
    Cap              \* for each type of item, how many results are shown

VARIABLES
    input,           \* searchInput.value
    searchIndex,
    fresh,           \* the index is younger than CACHE_TTL
    fetches,         \* index requests in flight; fetchPromise is one of them
    waiting,         \* a focus handler awaits the index
    dropdown,        \* null, hidden or shown
    results,         \* what the dropdown lists
    activeIndex      \* of the highlighted result, 0 for -1

searchVars == <<input, searchIndex, fresh, fetches, waiting, dropdown, results, activeIndex>>

Types == {"page", "keyspace", "table"}

ASSUME SearchAssumption == Clusters \in Seq(Range(Clusters)) /\ Cap \in [Types -> Nat]

Item == [type: Types, cluster: Range(Clusters) \cup {NoCluster}]

SearchTypeOK ==
    /\ input \in Queries \cup {NoQuery}
    /\ searchIndex \in Seq(Item) /\ results \in Seq(Item)
    /\ fresh \in BOOLEAN /\ waiting \in BOOLEAN
    /\ fetches \in Nat
    /\ dropdown \in {"null", "hidden", "shown"}
    /\ activeIndex \in Nat

(***************************************************************************)
(* buildSearchIndex: the pages of no cluster, then for each cluster its    *)
(* pages and, where its schema could be read, its keyspaces and tables.    *)
(* One of each stands for all.                                             *)
(***************************************************************************)
Items ==
    [n \in 1..3 * Len(Clusters) |->
        [type |-> <<"page", "keyspace", "table">>[((n - 1) % 3) + 1],
         cluster |-> Clusters[((n - 1) \div 3) + 1]]]

buildSearchIndex(schemas) ==
    <<[type |-> "page", cluster |-> NoCluster]>>
        \o Subsequence(Items, {n \in DOMAIN Items :
                                   Items[n].type = "page" \/ Items[n].cluster \in schemas})

(***************************************************************************)
(* filterResults: the sort is stable, so its result is four runs, each in  *)
(* the order of the index; then each type is cut to its cap.               *)
(***************************************************************************)
Visible(item) == CurrentCluster = NoCluster => item.type # "page" \/ item.cluster = NoCluster

Ranked(matched, q) ==
    LET Run(current, prefix) == Subsequence(matched, {i \in DOMAIN matched :
            /\ (matched[i].cluster = CurrentCluster) <=> current
            /\ Prefix(q, matched[i]) <=> prefix})
    IN Run(TRUE, TRUE) \o Run(TRUE, FALSE) \o Run(FALSE, TRUE) \o Run(FALSE, FALSE)

Capped(type, items) ==
    LET ofType == Subsequence(items, {i \in DOMAIN items : items[i].type = type})
    IN SubSeq(ofType, 1, IF Len(ofType) < Cap[type] THEN Len(ofType) ELSE Cap[type])

filterResults(index, q) ==
    IF q = NoQuery THEN <<>>
    ELSE LET matched == Subsequence(index, {i \in DOMAIN index :
                            Matches(q, index[i]) /\ Visible(index[i])})
             ranked == Ranked(matched, q)
         IN Capped("page", ranked) \o Capped("keyspace", ranked) \o Capped("table", ranked)

renderResults(found) ==
    /\ results' = found
    /\ dropdown' = "shown"
    /\ activeIndex' = 0

closeDropdown ==
    /\ dropdown' = IF dropdown = "null" THEN "null" ELSE "hidden"
    /\ activeIndex' = 0

SearchInit ==
    /\ input = NoQuery
    /\ searchIndex = <<>> /\ results = <<>>
    /\ fresh = FALSE /\ waiting = FALSE
    /\ fetches = 0
    /\ dropdown = "null"
    /\ activeIndex = 0

\* The page is loaded again; no answer is read.
LoadSearch ==
    /\ input' = NoQuery
    /\ searchIndex' = <<>> /\ results' = <<>>
    /\ fresh' = FALSE /\ waiting' = FALSE
    /\ fetches' = 0
    /\ dropdown' = "null"
    /\ activeIndex' = 0

\* focus, where fetchSearchData must wait: for a new request, or for the one
\* already out.
Focus ==
    /\ ~(searchIndex # <<>> /\ fresh)
    /\ fetches' = IF fetches = 0 THEN 1 ELSE fetches
    /\ waiting' = TRUE
    /\ UNCHANGED <<input, searchIndex, fresh, dropdown, results, activeIndex>>

\* focus, with an index that is young enough.
FocusCached ==
    /\ searchIndex # <<>> /\ fresh
    /\ renderResults(filterResults(searchIndex, input))
    /\ UNCHANGED <<input, searchIndex, fresh, fetches, waiting>>

\* As IndexArrives, the list being drawn as on an empty input.
IndexArrivesLate ==
    /\ fetches > 0
    /\ fetches' = fetches - 1
    /\ \E schemas \in SUBSET Range(Clusters) : searchIndex' = buildSearchIndex(schemas)
    /\ fresh' = TRUE
    /\ waiting' = FALSE
    /\ renderResults(filterResults(searchIndex', NoQuery))
    /\ UNCHANGED input

\* The index arrives, with the schemas that could be read, or the request fails
\* and the index stays; whoever waited reads the input and lists what it finds,
\* wherever the user has gone meanwhile.
IndexArrives ==
    /\ fetches > 0
    /\ fetches' = fetches - 1
    /\ \/ /\ \E schemas \in SUBSET Range(Clusters) : searchIndex' = buildSearchIndex(schemas)
          /\ fresh' = TRUE
       \/ UNCHANGED <<searchIndex, fresh>>
    /\ waiting' = FALSE
    /\ IF waiting
       THEN renderResults(filterResults(searchIndex', input))
       ELSE UNCHANGED <<dropdown, results, activeIndex>>
    /\ UNCHANGED input

IndexExpires ==
    /\ fresh
    /\ fresh' = FALSE
    /\ UNCHANGED <<input, searchIndex, fetches, waiting, dropdown, results, activeIndex>>

Type(q) ==
    /\ q # input
    /\ input' = q
    /\ renderResults(filterResults(searchIndex, q))
    /\ UNCHANGED <<searchIndex, fresh, fetches, waiting>>

\* As setActive, without going around the list.
setActiveUnwrapped(up) ==
    /\ dropdown = "shown" /\ results # <<>>
    /\ activeIndex' = IF up THEN activeIndex - 1 ELSE activeIndex + 1
    /\ UNCHANGED <<input, searchIndex, fresh, fetches, waiting, dropdown, results>>

\* ArrowDown and ArrowUp, around the list.
setActive(up) ==
    LET n == Len(results) IN
    /\ dropdown = "shown" /\ n > 0
    /\ activeIndex' = (IF up THEN (activeIndex + 2 * n - 2) % n ELSE activeIndex % n) + 1
    /\ UNCHANGED <<input, searchIndex, fresh, fetches, waiting, dropdown, results>>

Escape ==
    /\ dropdown = "shown"
    /\ closeDropdown
    /\ input' = NoQuery
    /\ UNCHANGED <<searchIndex, fresh, fetches, waiting, results>>

ClickOutside ==
    /\ dropdown = "shown"
    /\ closeDropdown
    /\ UNCHANGED <<input, searchIndex, fresh, fetches, waiting, results>>

SearchUser ==
    \/ Focus \/ FocusCached
    \/ \E q \in Queries \cup {NoQuery} : Type(q)
    \/ \E up \in BOOLEAN : setActive(up)
    \/ Escape \/ ClickOutside

SearchNext == IndexArrives \/ IndexExpires

\* The list is the answer to what the input holds, with the index there is,
\* although the index is asked for at one time and arrives at another.
ResultsFollowInput == dropdown = "shown" => results = filterResults(searchIndex, input)

\* Enter opens the highlighted result of the list on display, or nothing.
HighlightInList == activeIndex <= Len(results) /\ (activeIndex > 0 => dropdown = "shown")

\* However often the box is focused, one request for the index is out.
OneIndexRequest == fetches <= 1

\* A result of the page's own cluster is never cut, nor listed after another
\* cluster's of its type, in favour of that one.
OwnClusterFirst ==
    dropdown = "shown" => \A i \in DOMAIN searchIndex :
        LET item == searchIndex[i] IN
        item.cluster = CurrentCluster /\ input # NoQuery /\ Matches(input, item) /\ Visible(item) =>
            \A j \in DOMAIN results :
                results[j].type = item.type /\ results[j].cluster # CurrentCluster =>
                    \E k \in 1..j : results[k] = item

\* The list, its highlight, its ranking and the request behind it agree with the
\* input, whatever the order of keys, focus and the index's arrival (topbar.js).
SearchAgrees == ResultsFollowInput /\ HighlightInList /\ OneIndexRequest /\ OwnClusterFirst

=============================================================================
