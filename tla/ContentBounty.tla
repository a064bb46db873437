---------------------------- MODULE ContentBounty ----------------------------
(***************************************************************************)
(* The content bounty tracker (indexer/bounty.js).  A poller in the worker *)
(* finds posts and refreshes their metrics; the web service fetches the    *)
(* posts that users submit.  The provider charges both for what they read, *)
(* and a governor keeps the reads of a month within a budget.              *)
(*                                                                         *)
(* Each call is three steps, since others run at every await: the check of *)
(* what is left, the provider's charge, and the entry in bounty_budget.    *)
(* Metrics, scores and the tiers that make a post due are left out: any    *)
(* tracked post may be due at any tick, and discovery may be.              *)
(***************************************************************************)
EXTENDS Integers, FiniteSets, FiniteSetsExt

CONSTANTS
    Posts,              \* that mention the program, in the contest's window
    Submitters,         \* requests to /bounty/submit under way
    MonthlyBudget,      \* in reads
    GovPause,           \* reads from which discovery is paused
    PageSize,           \* the most posts a page of the search returns
    BatchSize, MaxDiscoveryPages,
    MaxMonths,          \* bound
    MaxMissed           \* bound: the reads that failures leave out of the budget

ASSUME BountyAssumption ==
    /\ IsFiniteSet(Posts) /\ IsFiniteSet(Submitters)
    /\ {PageSize, BatchSize, MaxDiscoveryPages, MaxMonths} \subseteq Nat \ {0}
    /\ {MonthlyBudget, MaxMissed} \subseteq Nat /\ GovPause \in 0 .. MonthlyBudget

VARIABLES
    month,
    charged,            \* the reads the provider has charged this month
    billed,             \* the reads of bounty_budget this month
    missed,             \* of charged, those that are not in billed
    beside,             \* of billed, those the web service added during a tick
    tracked,            \* bounty_posts
    disqualified,       \* by an administrator
    tick,               \* the poller
    submit              \* the requests

budgetVars == <<charged, billed, missed, beside>>
bountyVars == <<month, budgetVars, tracked, disqualified, tick, submit>>

Idle == [at |-> "sleep", month |-> 0, ledger |-> 0, cost |-> 0, pages |-> 0,
         covered |-> {}, due |-> {}]
NoRequest == [at |-> "none", post |-> "none", month |-> 0]

BountyInit ==
    /\ month = 1
    /\ charged = 0 /\ billed = 0 /\ missed = 0 /\ beside = 0
    /\ tracked = {} /\ disqualified = {}
    /\ tick = Idle /\ submit = [r \in Submitters |-> NoRequest]

Frozen == billed >= MonthlyBudget

---------------------------------------------------------------------------
(* The poller *)

Ticking == tick.at # "sleep"

\* the posts that are due, of those the search did not just cover
Refreshing(covered) == SUBSET (tracked \ (disqualified \cup covered))

\* the month's reads are looked up once; what is left of the budget is the
\* tick's ledger
TickStarts ==
    /\ ~Ticking /\ ~Frozen
    /\ \E at \in {"search", "refresh"}, due \in Refreshing({}) :
          /\ at = "search" => billed < GovPause /\ due = {}
          /\ tick' = [Idle EXCEPT !.at = at, !.month = month, !.due = due,
                                  !.ledger = MonthlyBudget - billed]
    /\ UNCHANGED <<month, budgetVars, tracked, disqualified, submit>>

\* a call of n posts costs n reads, and one if it is none
Charge(cost) == charged' = charged + cost

\* what a failure keeps out of the budget table
Miss(cost) == (cost = 0 \/ missed + cost <= MaxMissed) /\ missed' = missed + cost

Searches(found) ==
    LET cost == Max({1, Cardinality(found)})
    IN  /\ tick.at = "search" /\ tick.ledger > 0 /\ tick.pages < MaxDiscoveryPages
        /\ Cardinality(found) <= PageSize
        /\ Charge(cost)
        /\ tick' = [tick EXCEPT !.at = "bill-search", !.cost = cost, !.pages = @ + 1,
                                !.covered = @ \cup found]
        /\ UNCHANGED <<month, billed, missed, beside, tracked, disqualified, submit>>

Ledger_mut(cost) == tick.ledger

Ledger(cost) == Max({0, tick.ledger - cost})

\* bill writes to the month in which the tick, or the request, began
Bill(began, cost) ==
    IF began = month THEN billed' = billed + cost /\ UNCHANGED missed
    ELSE missed' = missed + cost /\ UNCHANGED billed

\* ON CONFLICT DO NOTHING: a post stays disqualified
BillsSearch ==
    /\ tick.at = "bill-search"
    /\ Bill(tick.month, tick.cost)
    /\ tracked' = tracked \cup tick.covered
    /\ tick' = [tick EXCEPT !.at = "search", !.cost = 0,
                            !.ledger = Ledger(tick.cost)]
    /\ UNCHANGED <<month, charged, beside, disqualified, submit>>

\* no more pages, nothing left, or the search threw
StopsSearching ==
    /\ tick.at = "search"
    /\ \E due \in Refreshing(tick.covered) :
          tick' = [tick EXCEPT !.at = "refresh", !.due = due, !.covered = {}, !.pages = 0]
    /\ UNCHANGED <<month, budgetVars, tracked, disqualified, submit>>

Batch == CHOOSE b \in SUBSET tick.due :
            Cardinality(b) = Min({BatchSize, Cardinality(tick.due)})

\* some of the posts of a batch may be gone
Refreshes(found) ==
    LET cost == Max({1, Cardinality(found)})
    IN  /\ tick.at = "refresh" /\ tick.due # {} /\ tick.ledger > 0
        /\ found \subseteq Batch
        /\ Charge(cost)
        /\ tick' = [tick EXCEPT !.at = "bill-refresh", !.cost = cost, !.due = @ \ Batch]
        /\ UNCHANGED <<month, billed, missed, beside, tracked, disqualified, submit>>

BillsRefresh ==
    /\ tick.at = "bill-refresh"
    /\ Bill(tick.month, tick.cost)
    /\ tick' = [tick EXCEPT !.at = "refresh", !.cost = 0,
                            !.ledger = Ledger(tick.cost)]
    /\ UNCHANGED <<month, charged, beside, tracked, disqualified, submit>>

\* a batch that throws is skipped, charged for or not
SkipsBatch ==
    /\ tick.at = "refresh" /\ tick.due # {} /\ tick.ledger > 0
    /\ tick' = [tick EXCEPT !.due = @ \ Batch]
    /\ \/ UNCHANGED budgetVars
       \/ Miss(1) /\ Charge(1) /\ UNCHANGED <<billed, beside>>
    /\ UNCHANGED <<month, tracked, disqualified, submit>>

TickEnds ==
    /\ tick.at = "refresh" /\ (tick.due = {} \/ tick.ledger <= 0)
    /\ tick' = Idle
    /\ UNCHANGED <<month, budgetVars, tracked, disqualified, submit>>

\* the database throws out of the tick, or the worker dies: what was charged
\* and not yet entered is entered by nobody
TickDies ==
    /\ Ticking
    /\ Miss(IF tick.at \in {"bill-search", "bill-refresh"} THEN tick.cost ELSE 0)
    /\ tick' = Idle
    /\ UNCHANGED <<month, charged, billed, beside, tracked, disqualified, submit>>

---------------------------------------------------------------------------
(* The web service, the administrator and the calendar *)

SubmitChecks(r, p) ==
    /\ submit[r].at = "none"
    /\ p \notin tracked /\ ~Frozen
    /\ submit' = [submit EXCEPT ![r] = [at |-> "fetch", post |-> p, month |-> month]]
    /\ UNCHANGED <<month, budgetVars, tracked, disqualified, tick>>

SubmitFetches(r) ==
    /\ submit[r].at = "fetch"
    /\ Charge(1)
    /\ submit' = [submit EXCEPT ![r].at = "bill"]
    /\ UNCHANGED <<month, billed, missed, beside, tracked, disqualified, tick>>

\* and the post is kept if it is in the window and mentions the program
SubmitBills(r) ==
    /\ submit[r].at = "bill"
    /\ Bill(submit[r].month, 1)
    /\ beside' = IF Ticking THEN beside + (billed' - billed) ELSE beside
    /\ tracked' \in {tracked, tracked \cup {submit[r].post}}
    /\ submit' = [submit EXCEPT ![r] = NoRequest]
    /\ UNCHANGED <<month, charged, disqualified, tick>>

\* the provider or the database throws, or the service dies
SubmitFails(r) ==
    /\ submit[r].at # "none"
    /\ Miss(IF submit[r].at = "bill" THEN 1 ELSE 0)
    /\ submit' = [submit EXCEPT ![r] = NoRequest]
    /\ UNCHANGED <<month, charged, billed, beside, tracked, disqualified, tick>>

Disqualify(p) ==
    /\ p \in tracked \ disqualified
    /\ disqualified' = disqualified \cup {p}
    /\ UNCHANGED <<month, budgetVars, tracked, tick, submit>>

\* a tick and a request may go on into the next month; what the provider has
\* charged in a month is entered before it ends
NewMonth ==
    /\ month < MaxMonths /\ month' = month + 1
    /\ tick.at \notin {"bill-search", "bill-refresh"}
    /\ \A r \in Submitters : submit[r].at # "bill"
    /\ charged' = 0 /\ billed' = 0 /\ missed' = 0 /\ beside' = 0
    /\ UNCHANGED <<tracked, disqualified, tick, submit>>

BountyNext ==
    \/ TickStarts \/ BillsSearch \/ StopsSearching \/ BillsRefresh \/ SkipsBatch
    \/ TickEnds \/ TickDies
    \/ \E found \in SUBSET Posts : Searches(found) \/ Refreshes(found)
    \/ \E r \in Submitters, p \in Posts : SubmitChecks(r, p)
    \/ \E r \in Submitters : SubmitFetches(r) \/ SubmitBills(r) \/ SubmitFails(r)
    \/ \E p \in Posts : Disqualify(p)
    \/ NewMonth

BountySpec == BountyInit /\ [][BountyNext]_bountyVars

---------------------------------------------------------------------------
(* Properties *)

\* "we can stop mid-tick the instant we would cross the monthly ceiling"
\* (bounty.js:260).  What the provider charges in a month exceeds the budget by
\* less than one call of the poller and the requests that were past their check,
\* and by what the ledger can not see: reads that were charged and never
\* entered, and those the web service enters while a tick is under way.
BudgetHeld ==
    charged < MonthlyBudget + Max({PageSize, BatchSize}) + Cardinality(Submitters)
              + missed + beside
=============================================================================
