---------------------------- MODULE GitHubPages -----------------------------
(***************************************************************************)
(* How the GitHub REST client reads a list that is longer than a page, and *)
(* what the loader may conclude from it: _paginate_list for milestone      *)
(* items and timelines, _paginate_keyed_list for check runs and, with the  *)
(* same checks, compare_commits.                                           *)
(*                                                                         *)
(* Every page is a request of its own, and the list may change between two *)
(* of them: an element added before the place that was reached moves one   *)
(* that was read to the next page, an element removed moves one that was   *)
(* not read to the page before.  The loader reads every list twice and     *)
(* accepts it when both readings are equal once sorted.                    *)
(***************************************************************************)
EXTENDS Naturals, Sequences, FiniteSets, SequencesExt

CONSTANTS
  Things,      \* what the list may hold: an identity each
  Beginnings,  \* the lists a reading may start with
  PageSize,    \* per_page
  MaxPages,    \* MAX_PAGES
  MaxChanges   \* bound on the changes of the list

ASSUME PagesAssumption ==
  /\ \A s \in Beginnings : s \in Seq(Things) /\ IsInjective(s)
  /\ PageSize \in Nat \ {0} /\ MaxPages \in Nat \ {0} /\ MaxChanges \in Nat

VARIABLES
  list,     \* the list on GitHub
  keyed,    \* it is read by _paginate_keyed_list
  stage,    \* "reading", "complete", "partial", "accepted" or "inconsistent"
  reading,  \* the first or the second
  page,     \* the page to request
  total,    \* the total count of the first page
  result,   \* what the pages so far hold
  earlier,  \* the result of the first reading
  changes,  \* the kinds of the changes, in their order
  during    \* history: the list at every instant since the reading began

pagesVars == <<list, keyed, stage, reading, page, total, result, earlier, changes, during>>

PagesInit ==
  /\ list \in Beginnings
  /\ keyed \in BOOLEAN
  /\ stage = "reading" /\ reading = 1
  /\ page = 1 /\ total = 0 /\ result = <<>> /\ earlier = <<>>
  /\ changes = <<>>
  /\ during = {list}

-----------------------------------------------------------------------------
(***************************************************************************)
(* The list on GitHub.                                                     *)
(***************************************************************************)
Become(new, kind) ==
  /\ Len(changes) < MaxChanges
  /\ list' = new
  /\ changes' = Append(changes, kind)
  /\ during' = during \cup {new}
  /\ UNCHANGED <<keyed, stage, reading, page, total, result, earlier>>

Put(x, k) ==
  /\ x \notin ToSet(list)
  /\ Become(InsertAt(list, k, x), IF k = Len(list) + 1 THEN "append" ELSE "add")

Drop(k) == Become(RemoveAt(list, k), "remove")

PageOf(k) == SubSeq(list, (k - 1) * PageSize + 1,
                    IF k * PageSize > Len(list) THEN Len(list) ELSE k * PageSize)

HasNext(k) == k * PageSize < Len(list)

-----------------------------------------------------------------------------
(***************************************************************************)
(* One page.                                                               *)
(***************************************************************************)
Total == IF page = 1 THEN Len(list) ELSE total

AllRead == result \o PageOf(page)

SomeTwice == TRUE

NoneTwice == IsInjective(AllRead)

(* The counts of a list that has them: the same on every page, not less    *)
(* than what was read and, at the end, what was read.                      *)
CountsAgree ==
  /\ Total = Len(list)
  /\ Len(AllRead) <= Total
  /\ ~HasNext(page) => Len(AllRead) = Total

Trusted == keyed => NoneTwice /\ CountsAgree

LastAllowed == ~HasNext(page) \/ page = MaxPages

LastPage == ~HasNext(page)

(* There is a next page, but no more pages may be requested.               *)
AtLimit == page = MaxPages

ReadPage ==
  /\ stage = "reading"
  /\ total' = Total
  /\ \/ ~Trusted /\ stage' = "partial" /\ UNCHANGED <<page, result>>
     \/ /\ Trusted
        /\ result' = AllRead
        /\ \/ LastPage /\ stage' = "complete" /\ UNCHANGED page
           \/ ~LastPage /\ AtLimit /\ stage' = "partial" /\ UNCHANGED page
           \/ ~LastPage /\ ~AtLimit /\ page' = page + 1 /\ UNCHANGED stage
  /\ UNCHANGED <<list, keyed, reading, earlier, changes, during>>

(* _request: anything but a page of the list ends the reading, and nothing *)
(* of what was read is returned.                                           *)
RequestFails ==
  /\ stage = "reading"
  /\ stage' = "partial"
  /\ UNCHANGED <<list, keyed, reading, page, total, result, earlier, changes, during>>

-----------------------------------------------------------------------------
(***************************************************************************)
(* The two readings of the loader.                                         *)
(***************************************************************************)
ReadAgain ==
  /\ stage = "complete" /\ reading = 1
  /\ earlier' = result
  /\ stage' = "reading" /\ reading' = 2
  /\ page' = 1 /\ result' = <<>> /\ total' = 0
  /\ UNCHANGED <<list, keyed, changes, during>>

SameSize == Len(earlier) = Len(result)

Times(x, s) == Cardinality({k \in DOMAIN s : s[k] = x})

(* Equal once sorted: every element as often.                              *)
SameEvidence ==
  \A x \in ToSet(earlier) \cup ToSet(result) : Times(x, earlier) = Times(x, result)

Compare ==
  /\ stage = "complete" /\ reading = 2
  /\ stage' = IF SameEvidence THEN "accepted" ELSE "inconsistent"
  /\ UNCHANGED <<list, keyed, reading, page, total, result, earlier, changes, during>>

PagesNext ==
  \/ \E x \in Things, k \in 1..Len(list) + 1 : Put(x, k)
  \/ \E k \in DOMAIN list : Drop(k)
  \/ ReadPage \/ RequestFails \/ ReadAgain \/ Compare

PagesSpec == PagesInit /\ [][PagesNext]_pagesVars

-----------------------------------------------------------------------------
(***************************************************************************)
(* Properties.                                                             *)
(***************************************************************************)
Kinds == ToSet(changes)

(* The list has only grown, or has only shrunk.                            *)
OneWay == Kinds \subseteq {"add", "append"} \/ Kinds \subseteq {"remove"}

(* A list with counts that is returned holds no element twice, none that   *)
(* was never there, and as many as the list had at some instant of the     *)
(* reading, whatever changed between two pages.                            *)
KeyedIsProper ==
  keyed /\ stage = "complete" =>
    /\ IsInjective(result)
    /\ \A k \in DOMAIN result : \E l \in during : result[k] \in ToSet(l)
    /\ \E l \in during : Len(l) = Len(result)

(* What is used was the list at one instant.  A list that is left alone,   *)
(* however long, a list with counts that changes one way only, and a list  *)
(* that only grows at its end, is returned so, and never cut off; and two  *)
(* readings of a list that changes one way only agree on nothing else,     *)
(* though either may lose or double elements.                              *)
TrueOnce ==
  /\ stage = "complete" /\ (during = {list} \/ (keyed /\ OneWay) \/ Kinds \subseteq {"append"}) =>
       result \in during
  /\ stage = "accepted" /\ OneWay => {earlier, result} \subseteq during
=============================================================================
