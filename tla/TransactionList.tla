--------------------------- MODULE TransactionList ---------------------------
(***************************************************************************)
(* The list of transactions on the dashboard: useTransactions, which       *)
(* fetches it page by page and follows the table by realtime events, and   *)
(* the mutations of useTransactionSync, which ask for a refresh.           *)
(*                                                                         *)
(* React runs the effect of useTransactions again whenever the tenant, the *)
(* month or the refresh token changes.  A fetch belongs to the run that    *)
(* started it and nothing cancels it: it lands when its last page arrives. *)
(***************************************************************************)
EXTENDS Naturals, FiniteSets

CONSTANTS
  MaxRow,     \* the transactions are 1..MaxRow
  SortKey,    \* where date and created_at, by which the list is sorted, put each row
  Selections, \* the tenants and months a user can look at
  Window,     \* the rows each selection's query is about
  SignedOut,  \* no tenant
  Loads,      \* the fetches that can be under way at once
  PageSize,   \* 1000 in the code
  MaxChanges, \* bound on the changes of the table and of the selection
  MaxFailures \* bound on the calls that fail

Rows == 1..MaxRow

ASSUME ListAssumption ==
  /\ MaxRow \in Nat /\ PageSize \in Nat \ {0}
  /\ SortKey \in [Rows -> Nat]
  /\ Window \in [Selections -> SUBSET Rows]
  /\ SignedOut \notin Selections
  /\ {MaxChanges, MaxFailures} \subseteq Nat

VARIABLES
  live,      \* the rows of transactions that are not deleted
  selection, \* the tenant and month looked at, or SignedOut
  channel,   \* the realtime subscription: "none", "joining" or "joined"
  events,    \* whether events of this subscription are on their way
  timer,     \* the debounce timer of this run of the effect
  load,      \* each fetch: what it asks for, its page, the rows it has, its answer;
             \* and as history, whether it is fresh (the last one started, and no change
             \* was missed since) and the orders in which a fresh one read its pages
  shown,     \* how often each row is in the list on the screen, up to twice
  mutation,  \* this user's mutation: the row, whether it deletes it, and "none", "sent"
             \* or "committed"
  undisturbed, \* history: the fetch started last has filled the list, with every page
             \* and all in one order, and missed no change; or the list was emptied since.
             \* No older fetch has landed and no deletion has failed after it
  changes, failures

screen == <<selection, channel, timer>>
list == <<load, shown, undisturbed>>
listVars == <<live, screen, events, list, mutation, changes, failures>>

Nothing == [r \in Rows |-> 0]
NoLoad == [on |-> SignedOut, page |-> 0, rows |-> Nothing, answer |-> {}, orders |-> {},
           state |-> "idle", fresh |-> FALSE]
NoMutation == [row |-> 0, deletes |-> FALSE, state |-> "none"]
Under(f) == load[f].state # "idle"

-----------------------------------------------------------------------------
ListInit ==
  /\ live \in SUBSET Rows
  /\ selection = SignedOut
  /\ channel = "none"
  /\ events = FALSE
  /\ timer = FALSE
  /\ load = [f \in Loads |-> NoLoad]
  /\ shown = Nothing
  /\ mutation = NoMutation
  /\ undisturbed = TRUE
  /\ changes = 0
  /\ failures = 0

Changing == changes < MaxChanges /\ changes' = changes + 1
Failing == failures < MaxFailures /\ failures' = failures + 1

NewLoad(s) ==
  [on |-> s, page |-> 0, rows |-> Nothing, answer |-> {}, orders |-> {},
   state |-> "asking", fresh |-> TRUE]

Stale(l) == [l EXCEPT !.fresh = FALSE, !.orders = {}]
AllStale == [f \in Loads |-> Stale(load[f])]

\* fetchTransactions of a run of the effect that looks at s.
StartFetch(s) ==
  /\ \E f \in Loads : ~Under(f)
  /\ LET f == CHOOSE f \in Loads : ~Under(f) IN load' = [AllStale EXCEPT ![f] = NewLoad(s)]
  /\ undisturbed' = FALSE

Empty == shown' = Nothing /\ load' = AllStale /\ undisturbed' = TRUE

\* The cleanup of the last run, then the effect: signed out it empties the list, else
\* it fetches and subscribes.
RunEffect(s) ==
  /\ selection' = s
  /\ timer' = FALSE
  /\ events' = FALSE
  /\ channel' = IF s = SignedOut THEN "none" ELSE "joining"
  /\ IF s = SignedOut THEN Empty ELSE StartFetch(s) /\ UNCHANGED shown

\* The user signs in or out, or picks another tenant or month.
Select(s) ==
  /\ s # selection
  /\ Changing
  /\ RunEffect(s)
  /\ UNCHANGED <<live, mutation, failures>>

\* The subscription is confirmed; what changed before it is not told.
Join ==
  /\ channel = "joining"
  /\ channel' = "joined"
  /\ UNCHANGED <<live, selection, timer, events, list, mutation, changes, failures>>

Missed == load' = AllStale /\ undisturbed' = FALSE

\* The channel drops, with the events on their way, and joins again.
Drop ==
  /\ channel = "joined"
  /\ Failing
  /\ channel' = "joining"
  /\ events' = FALSE
  /\ IF events THEN Missed ELSE UNCHANGED <<load, undisturbed>>
  /\ UNCHANGED <<live, selection, timer, shown, mutation, changes>>

\* A change of the table: an event to a subscription that is joined, missed by one that
\* is not.
Signal ==
  /\ events' = (events \/ channel = "joined")
  /\ IF channel = "joining" THEN Missed ELSE UNCHANGED <<load, undisturbed>>

\* Another user adds or deletes a row.
Change(r) ==
  /\ Changing
  /\ live' = IF r \in live THEN live \ {r} ELSE live \cup {r}
  /\ Signal
  /\ UNCHANGED <<screen, shown, mutation, failures>>

\* Faulty variant of Deliver: used by no action.
DeliverUnlessFetching ==
  /\ events
  /\ events' = FALSE
  /\ timer' = (timer \/ \A f \in Loads : ~Under(f))
  /\ UNCHANGED <<live, selection, channel, list, mutation, changes, failures>>

\* The events that have come set the timer, or set it anew.
Deliver ==
  /\ events
  /\ events' = FALSE
  /\ timer' = TRUE
  /\ UNCHANGED <<live, selection, channel, list, mutation, changes, failures>>

TimerFires ==
  /\ timer
  /\ timer' = FALSE
  /\ StartFetch(selection)
  /\ UNCHANGED <<live, selection, channel, events, shown, mutation, changes, failures>>

\* The rows the query of s is about, as the table is now.
Asked(s) == IF s = SignedOut THEN {} ELSE Window[s] \cap live

\* The orders the database can give the rows: nothing orders those of one date and
\* created_at, and each query may order them anew.
Orders ==
  {o \in [Rows -> Rows] : /\ \A q, r \in Rows : q # r => o[q] # o[r]
                         /\ \A q, r \in Rows : SortKey[q] < SortKey[r] => o[q] < o[r]}

\* The rows of a page: by how many stand before them.
Before(asked, r, o) == Cardinality({q \in asked : o[q] < o[r]})
Page(asked, page, o) == {r \in asked : Before(asked, r, o) \div PageSize = page}

\* The database runs the query of a page.
Read(f) ==
  /\ load[f].state = "asking"
  /\ \E o \in Orders :
       load' = [load EXCEPT ![f].state = "answered",
                            ![f].answer = Page(Asked(load[f].on), load[f].page, o),
                            ![f].orders = IF load[f].fresh THEN @ \cup {o} ELSE {}]
  /\ UNCHANGED <<live, screen, events, shown, undisturbed, mutation, changes, failures>>

\* allData with a page more; no property tells twice from more often.
With(rows, answer) == [r \in Rows |-> rows[r] + IF r \in answer /\ rows[r] < 2 THEN 1 ELSE 0]

\* The pages of a fetch were read in one order.
InOneOrder(f) == \E o \in Orders : load[f].orders \subseteq {o}

\* setTransactions with what the pages brought.
Land(f, rows, complete) ==
  /\ shown' = rows
  /\ load' = [load EXCEPT ![f] = NoLoad]
  /\ undisturbed' = (complete /\ load[f].fresh)

\* Faulty variant of NextPage: used by no action.
SamePage(n) == n

NextPage(n) == n + 1

\* An answer arrives: a full page is followed by the next one.
Arrive(f) ==
  /\ load[f].state = "answered"
  /\ LET rows == With(load[f].rows, load[f].answer) IN
     IF Cardinality(load[f].answer) = PageSize
     THEN /\ load' = [load EXCEPT ![f].state = "asking", ![f].answer = {}, ![f].rows = rows,
                                    ![f].page = NextPage(@)]
          /\ UNCHANGED <<shown, undisturbed>>
     ELSE Land(f, rows, InOneOrder(f))
  /\ UNCHANGED <<live, screen, events, mutation, changes, failures>>

\* A page that fails ends the loop like an empty one: the list is what came before.
PageFails(f) ==
  /\ load[f].state \in {"asking", "answered"}
  /\ Failing
  /\ Land(f, load[f].rows, FALSE)
  /\ UNCHANGED <<live, screen, events, mutation, changes>>

-----------------------------------------------------------------------------
\* handleDelete takes the row off the list, then deletes it; another mutation only
\* changes the table.
Mutate(r, deletes) ==
  /\ selection # SignedOut
  /\ mutation = NoMutation
  /\ deletes => shown[r] > 0
  /\ Changing
  /\ mutation' = [row |-> r, deletes |-> deletes, state |-> "sent"]
  /\ shown' = IF deletes THEN [shown EXCEPT ![r] = 0] ELSE shown
  /\ UNCHANGED <<live, screen, events, load, undisturbed, failures>>

\* The call commits ...
Commit ==
  /\ mutation.state = "sent"
  /\ live' = IF mutation.deletes THEN live \ {mutation.row} ELSE live \cup {mutation.row}
  /\ Signal
  /\ mutation' = [mutation EXCEPT !.state = "committed"]
  /\ UNCHANGED <<screen, shown, changes, failures>>

\* ... and its answer makes triggerRefresh run the effect again,
Refresh ==
  /\ mutation.state = "committed"
  /\ mutation' = NoMutation
  /\ RunEffect(selection)
  /\ UNCHANGED <<live, changes, failures>>

\* or its answer is lost: an error like any other, and no refresh;
LoseAnswer ==
  /\ mutation.state = "committed"
  /\ Failing
  /\ mutation' = NoMutation
  /\ UNCHANGED <<live, screen, events, list, changes>>

\* or it fails, and nothing puts the row back.
MutationFails ==
  /\ mutation.state = "sent"
  /\ Failing
  /\ mutation' = NoMutation
  /\ undisturbed' = (undisturbed /\ ~mutation.deletes)
  /\ UNCHANGED <<live, screen, events, load, shown, changes>>

\* What is under way: the browser's timer, its calls and what awaits them, and the
\* realtime client, which joins its channel again.
GoOn ==
  \/ \E f \in Loads : Read(f) \/ Arrive(f)
  \/ Join \/ Deliver \/ TimerFires \/ Commit \/ Refresh

ListNext ==
  \/ \E s \in Selections \cup {SignedOut} : Select(s)
  \/ \E r \in Rows : Change(r) \/ Mutate(r, TRUE) \/ Mutate(r, FALSE)
  \/ \E f \in Loads : PageFails(f)
  \/ GoOn \/ Drop \/ LoseAnswer \/ MutationFails

\* While anything is under way something of it goes on; nothing says what.
ListSpec == ListInit /\ [][ListNext]_listVars /\ WF_listVars(GoOn)

-----------------------------------------------------------------------------
\* Nothing is under way that could still change the list.
Settled ==
  /\ \A f \in Loads : ~Under(f)
  /\ ~timer /\ ~events /\ channel # "joining"
  /\ mutation = NoMutation

Once(rows) == [r \in Rows |-> IF r \in rows THEN 1 ELSE 0]

\* Once the screen has settled it shows the rows of the tenant and month looked at,
\* each once, whatever changed while pages were read, because every change makes
\* another fetch; unless it was disturbed in one of five ways: a fetch landed after a
\* newer one, a page failed, two pages ordered tied rows differently, a change fell while
\* the subscription was not joined, or a deletion failed.
SettledIsCurrentUnlessDisturbed ==
  Settled /\ undisturbed => shown = Once(Asked(selection))

\* The screen always comes to rest: no fetch pages for ever and no refresh sets off
\* another.
ComesToRest == <>[]Settled
-----------------------------------------------------------------------------
(* The strengthening of SettledIsCurrentUnlessDisturbed, proved in DashboardProofs. *)

Load == [on : Selections \cup {SignedOut}, page : Nat, rows : [Rows -> 0..2],
          answer : SUBSET Rows, orders : SUBSET Orders,
          state : {"idle", "asking", "answered"}, fresh : BOOLEAN]

ListTypeOK ==
  /\ live \in SUBSET Rows
  /\ selection \in Selections \cup {SignedOut}
  /\ channel \in {"none", "joining", "joined"}
  /\ {events, timer, undisturbed} \subseteq BOOLEAN
  /\ load \in [Loads -> Load]
  /\ shown \in [Rows -> 0..2]
  /\ mutation \in {NoMutation} \cup
                  [row : Rows, deletes : BOOLEAN, state : {"sent", "committed"}]

\* Only a tenant's run of the effect is subscribed, and fetches anew.
Subscribed ==
  /\ channel = "none" <=> selection = SignedOut
  /\ events \/ timer => selection # SignedOut

PagesBefore(asked, page, o) == {r \in asked : Before(asked, r, o) \div PageSize < page}

\* What fetch f has read in one order, each page when its turn came, is what it would read
\* now.
Abreast(f) ==
  /\ load[f].on = selection
  /\ \A o \in Orders : load[f].orders \subseteq {o} =>
       /\ load[f].rows = Once(PagesBefore(Asked(selection), load[f].page, o))
       /\ load[f].state = "answered" =>
            load[f].answer = Page(Asked(selection), load[f].page, o)

\* Something is on its way that makes another fetch.
FetchDue == events \/ timer

\* A row is off the list that the database still has.
Deleting == mutation.state = "sent" /\ mutation.deletes

\* When no fetch is due, the last one started has read what it would read now, unless it
\* missed a change, and the list it has filled is what the table holds.
NewestIsAbreast ==
  ~FetchDue =>
    /\ \A f \in Loads : Under(f) /\ load[f].fresh => Abreast(f)
    /\ undisturbed /\ (selection = SignedOut \/ ~Deleting) => shown = Once(Asked(selection))

\* A fetch under way is a tenant's.
FetchIsATenants == \A f \in Loads : Under(f) => load[f].on \in Selections

ListIInv == ListTypeOK /\ FetchIsATenants /\ Subscribed /\ NewestIsAbreast
=============================================================================
