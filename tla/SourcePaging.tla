---------------------------- MODULE SourcePaging ----------------------------
(***************************************************************************)
(* Reading a source page by page and indexing what was read: the paging    *)
(* loop of the analysis workflow (_fetch_all), the adapters for the JIRA   *)
(* and Confluence services, for exported files and restricted email        *)
(* exports, the retry of a failed request, and the masking and chunking of *)
(* the artifacts into the retrieval index.                                 *)
(*                                                                         *)
(* A page is named by its offset, so the source may change between two     *)
(* pages: an item is edited, which moves it behind the others (the         *)
(* requests order by the time of the last update), added or deleted.  A    *)
(* service may answer with fewer items than asked for, with none, without  *)
(* the total, with something else than a list, or with an error; an item   *)
(* may be one the adapter cannot convert (for the email export: one it may *)
(* not use).  The fixtures of a local run are an export that never changes *)
(* and has no such item.  One analysis reads at a time, and each starts at *)
(* the first page: the cursor an analysis stores is not read again.        *)
(***************************************************************************)
EXTENDS Naturals, FiniteSets, Sequences

CONSTANTS
  Item,        \* external identifiers
  Unusable,    \* items no artifact is made of
  Starts,      \* bound: what the source has at first, in its order
  Shapes,      \* bound: the lengths and leaks an edited text may have
  Limit,       \* items asked for on a page
  Retries,     \* attempts after the first (2 in the code)
  MaxRuns,     \* bound: analyses
  MaxChanges,  \* bound: changes of the source
  MaxFaults,   \* bound: failed requests, missing files, misshapen answers
  MaxBlanks    \* bound: empty pages of a source that has more to give

In(seq) == {seq[k] : k \in DOMAIN seq}

(* No item is in the source twice.                                         *)
ASSUME PagingAssumption ==
  /\ IsFiniteSet(Item) /\ Unusable \subseteq Item
  /\ \A s \in Starts : s \in Seq(Item) /\ Len(s) = Cardinality(In(s))
  /\ Shapes \subseteq [parts : 1..2, leaks : BOOLEAN]
  /\ Limit \in Nat \ {0} /\ Retries \in Nat
  /\ MaxRuns \in Nat /\ MaxChanges \in Nat /\ MaxFaults \in Nat /\ MaxBlanks \in Nat

Service == {"jira", "confluence"}
File == {"export", "email"}
Kind == Service \cup File

(* A text has a revision, some parts of a chunk's length, and leaks when a *)
(* forbidden pattern is left in it after masking.                          *)
Part == 1..2
Text == [rev : 0..MaxChanges, parts : Part, leaks : BOOLEAN]
NoText == [rev |-> 0, parts |-> 0, leaks |-> FALSE]
First == [rev |-> 0, parts |-> 2, leaks |-> FALSE]

VARIABLES
  kind,     \* the configured adapter
  order,    \* the items of the source, the last edited one last
  text,     \* what the items say
  fetch,    \* the analysis in progress
  cursor,   \* the stored cursor of the last one
  index,    \* the parts of the texts in the retrieval index
  present,  \* history: items in the source ever since the first page
  moves,    \* history: edits and deletions since the first page
  untold,   \* history: a page came without the total
  runs, changes, faults, blanks

pagingVars == <<kind, order, text, fetch, cursor, index, present, moves, untold,
                runs, changes, faults, blanks>>
source == <<kind, order, text>>
history == <<present, moves, untold>>

Artifact == [item : Item, text : Text]

Idle == [pc |-> "idle", offset |-> 0, retries |-> 0, warned |-> FALSE,
         got |-> <<>>, partial |-> FALSE]

PagingTypeOK ==
  /\ kind \in Kind
  /\ order \in Seq(Item) /\ Len(order) = Cardinality(In(order))
  /\ text \in [Item -> Text]
  /\ fetch.pc \in {"idle", "ask", "fetched"}
  /\ fetch.offset \in 0..Cardinality(Item) + MaxChanges
  /\ fetch.retries \in 0..Retries
  /\ fetch.warned \in BOOLEAN /\ fetch.partial \in BOOLEAN
  /\ fetch.got \in Seq(Artifact) /\ Len(fetch.got) <= fetch.offset
  /\ cursor \in [offset : Nat, partial : BOOLEAN]
  /\ index \in [Item \X Part -> Text \cup {NoText}]
  /\ present \subseteq In(order) /\ moves \in 0..MaxChanges /\ untold \in BOOLEAN
  /\ runs \in 0..MaxRuns /\ changes \in 0..MaxChanges
  /\ faults \in 0..MaxFaults /\ blanks \in 0..MaxBlanks

PagingInit ==
  /\ kind \in Kind
  /\ order \in Starts
  /\ text = [i \in Item |-> First]
  /\ fetch = Idle
  /\ cursor = [offset |-> 0, partial |-> FALSE]
  /\ index = [c \in Item \X Part |-> NoText]
  /\ present = {} /\ moves = 0 /\ untold = FALSE
  /\ runs = 0 /\ changes = 0 /\ faults = 0 /\ blanks = 0

-----------------------------------------------------------------------------
(* The pages                                                               *)

Least(m, n) == IF m < n THEN m ELSE n

(* The window of a list at the offset.                                     *)
Window(list, n) == SubSeq(list, fetch.offset + 1, Least(fetch.offset + n, Len(list)))

(* What is left of a list in its order if only items of S are kept: the    *)
(* n-th place that is kept is the one with n of them up to it.             *)
Places(list, S) == {k \in DOMAIN list : list[k] \in S}
Kept(list, S) ==
  [n \in 1..Cardinality(Places(list, S)) |->
     list[CHOOSE k \in Places(list, S) :
            Cardinality({j \in Places(list, S) : j <= k}) = n]]

Usable(list) == Kept(list, Item \ Unusable)

Artifacts(list) == [k \in DOMAIN list |-> [item |-> list[k], text |-> text[list[k]]]]

Asking(k) == fetch.pc = "ask" /\ kind \in k

(* Mutant: the warnings of the last page are those of the fetch.           *)
Turn_LastPage(read, length, total, warned) ==
  fetch' = [fetch EXCEPT
              !.pc = IF fetch.offset + length < total THEN "ask" ELSE "fetched",
              !.offset = @ + length, !.retries = 0, !.warned = FALSE,
              !.got = @ \o read, !.partial = warned]

(* Mutant: the offset counts the artifacts and not the items of the page.  *)
Turn_Artifacts(read, length, total, warned) ==
  fetch' = [fetch EXCEPT
              !.pc = IF fetch.offset + Len(read) < total THEN "ask" ELSE "fetched",
              !.offset = @ + Len(read), !.retries = 0, !.warned = FALSE,
              !.got = @ \o read, !.partial = @ \/ warned]

(* Mutant: the page is kept although its request is made again.            *)
Turn_Twice(read, length, total, warned) ==
  fetch' = [fetch EXCEPT
              !.pc = IF fetch.offset + length < total THEN "ask" ELSE "fetched",
              !.offset = @ + length, !.retries = 0, !.warned = FALSE,
              !.got = @ \o read \o read, !.partial = @ \/ warned]

(* The result of a page goes into that of the fetch: what was read of it,  *)
(* its length, and the total that says whether another page is asked for.  *)
Turn(read, length, total, warned) ==
  fetch' = [fetch EXCEPT
              !.pc = IF fetch.offset + length < total THEN "ask" ELSE "fetched",
              !.offset = @ + length, !.retries = 0, !.warned = FALSE,
              !.got = @ \o read, !.partial = @ \/ warned]

(* No further page whatever the source has.                                *)
Stop ==
  fetch' = [fetch EXCEPT !.pc = "fetched", !.retries = 0, !.warned = FALSE,
                         !.partial = TRUE]

EndFetch == fetch' = Idle /\ present' = {} /\ moves' = 0 /\ untold' = FALSE

Fault == faults < MaxFaults /\ faults' = faults + 1

(* A service answers with at most n items and, perhaps, how many there     *)
(* are; without it the page is taken for the last one.  Items that cannot  *)
(* be converted are left out with a warning, and a warning of an earlier   *)
(* attempt counts too.                                                     *)
Answered(page, read, told) ==
  /\ Turn(read, Len(page), IF told THEN Len(order) ELSE fetch.offset + Len(page),
          fetch.warned \/ Len(read) < Len(page))
  /\ untold' = (untold \/ ~told)
  /\ UNCHANGED <<source, cursor, index, present, moves, runs, changes, faults, blanks>>

(* An issue needs a key, fields and dates; its texts, links, comments and  *)
(* history are optional.                                                   *)
IssueArtifacts(page) == Artifacts(Usable(page))

JiraPage(n, told) ==
  /\ Asking({"jira"})
  /\ Answered(Window(order, n), IssueArtifacts(Window(order, n)), told)

(* A page of content needs an id, a title and a version; the rest of its   *)
(* markup is text.                                                         *)
ContentArtifacts(page) == Artifacts(Usable(page))

ConfluencePage(n, told) ==
  /\ Asking({"confluence"})
  /\ Answered(Window(order, n), ContentArtifacts(Window(order, n)), told)

(* A service answers with an empty page although there is more.            *)
BlankPage ==
  /\ Asking(Service)
  /\ fetch.offset < Len(order) /\ blanks < MaxBlanks
  /\ blanks' = blanks + 1
  /\ Turn(<<>>, 0, Len(order), fetch.warned)
  /\ UNCHANGED <<source, cursor, index, history, runs, changes, faults>>

(* An answer that has no list of items.                                    *)
Misshapen ==
  /\ Asking(Service)
  /\ Fault /\ Stop
  /\ UNCHANGED <<source, cursor, index, history, runs, changes, blanks>>

(* A timeout, a lost connection, or a status that may pass.                *)
Retry ==
  /\ Asking(Service)
  /\ fetch.retries < Retries
  /\ Fault
  /\ fetch' = [fetch EXCEPT !.retries = @ + 1, !.warned = TRUE]
  /\ UNCHANGED <<source, cursor, index, history, runs, changes, blanks>>

(* The last attempt failed too, access is denied, or the error is one that *)
(* does not pass.                                                          *)
GiveUp ==
  /\ Asking(Service)
  /\ Fault /\ Stop
  /\ UNCHANGED <<source, cursor, index, history, runs, changes, blanks>>

(* The file is read again for each page, all of it.                        *)
ExportPage ==
  /\ Asking({"export"})
  /\ In(order) \cap Unusable = {}
  /\ Turn(Artifacts(Window(order, Limit)), Len(Window(order, Limit)), Len(order), FALSE)
  /\ UNCHANGED <<source, cursor, index, history, runs, changes, faults, blanks>>

(* An email export leaves out, with a warning on each page, what needs a   *)
(* review or is no decision, before it counts.                             *)
Decisions == Usable(order)

EmailPage ==
  /\ Asking({"email"})
  /\ Turn(Artifacts(Window(Decisions, Limit)), Len(Window(Decisions, Limit)),
          Len(Decisions), Len(Decisions) < Len(order))
  /\ UNCHANGED <<source, cursor, index, history, runs, changes, faults, blanks>>

FileMissing ==
  /\ Asking(File)
  /\ Fault
  /\ Turn(<<>>, 0, 0, TRUE)
  /\ UNCHANGED <<source, cursor, index, history, runs, changes, blanks>>

(* An answer that is no JSON object fails the analysis.                    *)
BadAnswer ==
  /\ Asking(Service)
  /\ Fault /\ EndFetch
  /\ UNCHANGED <<source, cursor, index, runs, changes, blanks>>

(* So does a file with anything that is no artifact in it.                 *)
BadFile ==
  /\ Asking(File)
  /\ \/ Fault
     \/ kind = "export" /\ In(order) \cap Unusable # {} /\ UNCHANGED faults
  /\ EndFetch
  /\ UNCHANGED <<source, cursor, index, runs, changes, blanks>>

FetchPage ==
  \/ \E n \in 1..Limit, told \in BOOLEAN : JiraPage(n, told) \/ ConfluencePage(n, told)
  \/ BlankPage \/ Misshapen \/ Retry \/ GiveUp \/ BadAnswer
  \/ ExportPage \/ EmailPage \/ FileMissing \/ BadFile

-----------------------------------------------------------------------------
(* The analysis around the pages                                           *)

Begin ==
  /\ fetch.pc = "idle" /\ runs < MaxRuns
  /\ runs' = runs + 1
  /\ fetch' = [Idle EXCEPT !.pc = "ask"]
  /\ present' = In(order)
  /\ UNCHANGED <<source, moves, untold, cursor, index, changes, faults, blanks>>

Last(i) ==
  LET S == {k \in DOMAIN fetch.got : fetch.got[k].item = i}
  IN  fetch.got[CHOOSE k \in S : \A l \in S : l <= k].text

(* Mutant: a chunk that is in the index already stays.                     *)
Upserted_Keeps ==
  [c \in Item \X Part |->
     LET S == {k \in DOMAIN fetch.got :
                 fetch.got[k].item = c[1] /\ c[2] <= fetch.got[k].text.parts}
     IN  IF S = {} \/ index[c] # NoText THEN index[c]
         ELSE fetch.got[CHOOSE k \in S : \A l \in S : l <= k].text]

(* The chunks are put into the index by item and part, in the order of the *)
(* artifacts; parts a text has no more stay.                               *)
Upserted ==
  [c \in Item \X Part |->
     LET S == {k \in DOMAIN fetch.got :
                 fetch.got[k].item = c[1] /\ c[2] <= fetch.got[k].text.parts}
     IN  IF S = {} THEN index[c]
         ELSE fetch.got[CHOOSE k \in S : \A l \in S : l <= k].text]

(* The stored cursor counts the artifacts; nothing reads its offset.       *)
SyncState == [offset |-> Len(fetch.got), partial |-> fetch.partial]

(* Every text is masked and checked before any chunk goes into the index;  *)
(* a text that leaks fails the analysis, and no cursor is stored.          *)
Ingest ==
  /\ fetch.pc = "fetched"
  /\ IF \E k \in DOMAIN fetch.got : fetch.got[k].text.leaks
       THEN UNCHANGED <<index, cursor>>
       ELSE index' = Upserted /\ cursor' = SyncState
  /\ EndFetch
  /\ UNCHANGED <<source, runs, changes, faults, blanks>>

-----------------------------------------------------------------------------
(* The source                                                              *)

Change == changes < MaxChanges /\ changes' = changes + 1
Without(i) == Kept(order, Item \ {i})

(* An edit moves the item to the end; a file may be written anew with it.  *)
Edit(i) ==
  /\ i \in In(order) /\ Change
  /\ order' = Append(Without(i), i)
  /\ \E s \in Shapes :
        text' = [text EXCEPT ![i] = [rev |-> changes', parts |-> s.parts, leaks |-> s.leaks]]
  /\ moves' = IF fetch.pc = "ask" THEN moves + 1 ELSE moves
  /\ UNCHANGED <<kind, fetch, cursor, index, present, untold, runs, faults, blanks>>

Add(i) ==
  /\ i \notin In(order) /\ Change
  /\ order' = Append(order, i)
  /\ UNCHANGED <<kind, text, fetch, cursor, index, history, runs, faults, blanks>>

Delete(i) ==
  /\ i \in In(order) /\ Change
  /\ order' = Without(i)
  /\ present' = present \ {i}
  /\ moves' = IF fetch.pc = "ask" THEN moves + 1 ELSE moves
  /\ UNCHANGED <<kind, text, fetch, cursor, index, untold, runs, faults, blanks>>

PagingNext ==
  \/ Begin \/ FetchPage \/ Ingest
  \/ \E i \in Item : Edit(i) \/ Add(i) \/ Delete(i)

(* The workflow goes on as long as the source answers it; a request has a  *)
(* time limit, after which it failed.                                      *)
PagingSpec ==
  PagingInit /\ [][PagingNext]_pagingVars /\ WF_pagingVars(FetchPage) /\ WF_pagingVars(Ingest)

-----------------------------------------------------------------------------
(* A fetch that reports no partial failure, from a source that told its    *)
(* totals, lost at most one item for each edit or deletion that happened   *)
(* between its pages, of those that were there all the time, and read at   *)
(* most one item twice for each: reading by offset is as good as that, and *)
(* a fetch that says nothing went wrong of a source at rest is complete.   *)
LossBounded ==
  fetch.pc = "fetched" /\ ~fetch.partial /\ ~untold =>
    LET read == {fetch.got[k].item : k \in DOMAIN fetch.got}
    IN  /\ Cardinality(present \ read) <= moves
        /\ Len(fetch.got) - Cardinality(read) <= moves

(* Once a fetch is ingested the index has every part of the newest text it *)
(* read of each item, and never a text that fails the masking check, also  *)
(* when the analysis failed over another artifact.                         *)
IndexFaithful ==
  [][/\ Ingest /\ (\A k \in DOMAIN fetch.got : ~fetch.got[k].text.leaks) =>
          \A k \in DOMAIN fetch.got :
             LET newest == Last(fetch.got[k].item)
             IN  \A p \in 1..newest.parts : index'[fetch.got[k].item, p] = newest
     /\ \A c \in Item \X Part : ~index'[c].leaks]_pagingVars

(* Every analysis is done with its source at some point, if the source     *)
(* gives only so many empty pages: a page that has items is never asked    *)
(* for again, and a failing request is not repeated for ever.              *)
Ends == fetch.pc # "idle" ~> fetch.pc = "idle"
=============================================================================
