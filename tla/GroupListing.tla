---------------------------- MODULE GroupListing ----------------------------
(***************************************************************************)
(* The collection of the groups (groups in source.py), page by page through *)
(* RequestRetry.  Expanded group pages are expensive: when the first one    *)
(* keeps timing out the listing starts again with a smaller page size.      *)
(***************************************************************************)
EXTENDS RequestRetry, Sequences

CONSTANTS
  PageSize,  \* groups_page_size
  Divisors,  \* GROUPS_PAGE_SIZE_FALLBACK_DIVISORS
  Total      \* the number of groups that Okta has

\* source rejects a page size below one.  The divisors are (1, 2, 4), so the
\* sizes come out largest first.
ASSUME PagesAssumption ==
  /\ PageSize \in Nat \ {0}
  /\ Divisors \in Seq(Nat \ {0}) \ {<<>>}
  /\ Divisors[1] = 1
  /\ \A i \in 2..Len(Divisors) : Divisors[i - 1] < Divisors[i]

ASSUME TotalAssumption == Total \in Nat

VARIABLES
  limit,      \* the page size in use
  streaming,  \* the first page has come: the generator is past next(pages)
  cursor,     \* the number of groups before the page that is asked for next
  rows,       \* the groups yielded so far
  outcome     \* of the listing

pageVars == <<limit, streaming, cursor, rows, outcome>>
vars == <<retryVars, pageVars>>

-----------------------------------------------------------------------------
\* Wrong: a size may be zero (GroupsTypeOK).
PageSizesUnclamped == {PageSize \div Divisors[i] : i \in DOMAIN Divisors}

\* The page sizes that _group_page_sizes returns: dict.fromkeys removes
\* duplicates.
PageSizes == {Greatest(PageSize \div Divisors[i], 1) : i \in DOMAIN Divisors}

\* Wrong: the size in use is among them (ListingEnds).
SmallerOrSame == {s \in PageSizes : s <= limit}

\* The sizes left to fall back to, largest first.
Smaller == {s \in PageSizes : s < limit}

GroupsInit ==
  /\ Idle("fresh")
  /\ limit = PageSize
  /\ streaming = FALSE
  /\ cursor = 0
  /\ rows = <<>>
  /\ outcome = "running"

\* paginate sends the request for a page, always with the same budget object.
RequestPage ==
  /\ outcome = "running"
  /\ ~streaming \/ cursor < Total
  /\ StartRequest
  /\ UNCHANGED pageVars

Attempt ==
  /\ AttemptStep \/ Tick
  /\ UNCHANGED pageVars

PageLength == Least(limit, Total - cursor)

\* A page is yielded, group by group.
PageArrives ==
  /\ status = "returned"
  /\ outcome = "running"
  /\ rows' = rows \o [i \in 1..PageLength |-> cursor + i]
  /\ cursor' = cursor + PageLength
  /\ streaming' = TRUE
  /\ status' = "idle"
  /\ UNCHANGED <<budget, timeoutLimit, elapsed, wait, attempt, countVars, cause,
                 firstLimited, limit, outcome>>

\* The latest page had no link to a next one.
LastPage ==
  /\ outcome = "running"
  /\ status = "idle"
  /\ streaming
  /\ cursor = Total
  /\ outcome' = "complete"
  /\ UNCHANGED <<retryVars, limit, streaming, cursor, rows>>

\* Wrong: the listing starts again after some groups were yielded
\* (ListsEveryGroupOnce), only once (SmallestSizeIsTried).
MayFallBackAnyTime ==
  /\ status = "exhausted"
  /\ cause = "read_timeout"
  /\ Smaller # {}

MayFallBackOnce ==
  /\ status = "exhausted"
  /\ cause = "read_timeout"
  /\ ~streaming
  /\ limit = PageSize

\* The first page exhausted its retries by timing out, and a smaller page size
\* is left: the listing starts from scratch, with a budget of its own.
MayFallBack ==
  /\ status = "exhausted"
  /\ cause = "read_timeout"
  /\ ~streaming
  /\ Smaller # {}

FallBack ==
  /\ outcome = "running"
  /\ MayFallBack
  /\ limit' \in Smaller
  /\ \A s \in Smaller : s <= limit'
  /\ cursor' = 0
  /\ budget' = "fresh"
  /\ status' = "idle"
  /\ UNCHANGED <<timeoutLimit, elapsed, wait, attempt, countVars, cause,
                 firstLimited, streaming, rows, outcome>>

\* Any other failure leaves the generator: the resource has OpenHound's wrapper,
\* which ends it with the rows that were yielded.
GiveUp ==
  /\ outcome = "running"
  /\ status \in {"raised", "exhausted"}
  /\ ~MayFallBack
  /\ outcome' = "failed"
  /\ UNCHANGED <<retryVars, limit, streaming, cursor, rows>>

Finished ==
  /\ outcome # "running"
  /\ UNCHANGED vars

ListingStep == RequestPage \/ PageArrives \/ LastPage \/ FallBack \/ GiveUp

GroupsNext == ListingStep \/ Attempt \/ Finished

\* The throttle lets a request start in the end (Throttle, RequestsFinish),
\* requests have timeouts, pauses are slept, and the pipeline pulls the rows.
GroupsFairness == /\ WF_vars(ListingStep)
                  /\ WF_vars(AttemptStep /\ UNCHANGED pageVars)
                  /\ WF_vars(Tick /\ UNCHANGED pageVars)

GroupsSpec == GroupsInit /\ [][GroupsNext]_vars

GroupsFairSpec == GroupsSpec /\ GroupsFairness

-----------------------------------------------------------------------------
GroupsTypeOK ==
  /\ TypeOK
  /\ limit \in Nat \ {0}
  /\ streaming \in BOOLEAN
  /\ cursor \in 0..Total
  /\ rows \in Seq(1..Total)
  /\ outcome \in {"running", "complete", "failed"}

\* Timeouts, fallbacks and retries neither lose nor repeat a group, and the
\* listing is only complete with all of them.
Abstract == INSTANCE Listing WITH Total <- Total, rows <- rows,
                                 outcome <- outcome

ListsEveryGroupOnce == Abstract!Spec

\* The listing starts again only before it has yielded a group, and asks for
\* less each time, so there are finitely many restarts.
RestartsShrink ==
  [][ status = "exhausted" /\ status' = "idle" => rows = <<>> /\ limit' < limit ]_vars

\* The small budget of read timeouts is for the first page alone: no later
\* page is given up before it has timed out as often as any other request.
BudgetSparesLaterPages ==
  streaming /\ cause = "read_timeout" => timeouts = MaxAttempts

\* A page size that works is found if there is one: the listing fails on read
\* timeouts of the first page only once the smallest size has been tried.
SmallestSizeIsTried ==
  outcome = "failed" /\ cause = "read_timeout" /\ ~streaming
    => \A s \in PageSizes : limit <= s

\* The listing ends.
ListingEnds == <>(outcome # "running")
=============================================================================
