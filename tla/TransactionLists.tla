-------------------------- MODULE TransactionLists --------------------------
(***************************************************************************)
(* A client turns the pages of a list of transactions (api_gateway.ts:     *)
(* getTransactions, getLatest5TXN) while sessions start and stop.  A page  *)
(* is two queries, the number of rows and the rows, and no transaction     *)
(* holds them or the pages together.  Sorting is the default one, newest   *)
(* first; times are the ones the station gives.  A search only narrows the *)
(* list.  The client asks for the next page while the last answer says     *)
(* there is one.                                                           *)
(***************************************************************************)
EXTENDS Integers, FiniteSets, FiniteSetsExt

CONSTANTS
    Transactions,
    Times,
    PageSize,      \* limit
    Never          \* null

ASSUME TransactionsAssumption == IsFiniteSet(Transactions)
ASSUME PageSizeAssumption == PageSize \in Nat \ {0}
ASSUME TimesAssumption == Times \subseteq Nat
ASSUME NeverAssumption ==
    Never \notin Nat /\ \A s \in SUBSET Transactions : Never # s

VARIABLES
    startTime,  \* transaction -> startTimestamp, or Never if it has no row
    stopTime,   \* transaction -> stopTimestamp
    list,       \* the list the client reads: "all" or "latest"
    turn,       \* where the client is: "idle", "asked", "ended", "failed"
    page,       \* the page it asks for
    total,      \* the answer of the count query of that page, or Never
    found,      \* the answer of its list query, or Never
    shown,      \* history: transactions on the pages it got
    due,        \* history: transactions it must come upon
    outdated    \* history: rows came into the list after it was counted
                \* for the last page and before its rows were read

listVars == <<startTime, stopTime, list, turn, page, total, found, shown, due,
              outdated>>

ListsInit ==
    /\ startTime \in [Transactions -> Times \cup {Never}]
    /\ stopTime \in [Transactions -> Times \cup {Never}]
    /\ \A t \in Transactions : stopTime[t] # Never => startTime[t] # Never
    /\ list \in {"all", "latest"}
    /\ turn = "idle"
    /\ page = 0
    /\ total = Never
    /\ found = Never
    /\ shown = {}
    /\ due = {}
    /\ outdated = FALSE

-----------------------------------------------------------------------------
(* The column a list is sorted by, and the rows it has: every transaction, *)
(* or those that were stopped.                                             *)
SortKey == IF list = "all" THEN startTime ELSE stopTime
InList == {t \in Transactions : SortKey[t] # Never}

(* Mutation of PageSkip: pages are counted from 0. *)
PageSkipFromZero(n) == n * PageSize
PageSkip(n) == (n - 1) * PageSize

(* The n rows that come first among rows: the order of ties is open. *)
IsHead(head, rows, n) ==
    /\ Cardinality(head) = Min({n, Cardinality(rows)})
    /\ \A t \in head, u \in rows \ head : SortKey[t] >= SortKey[u]

(* getTransactions of database.ts: skip, take and orderBy. *)
Pages ==
    LET Skipped == {s \in SUBSET InList : IsHead(s, InList, PageSkip(page))}
        After(s) == InList \ s
    IN UNION {{p \in SUBSET After(s) : IsHead(p, After(s), PageSize)} :
                s \in Skipped}

-----------------------------------------------------------------------------
(* The client *)

Tied(t) == \E u \in InList \ {t} : SortKey[u] = SortKey[t]

AskFirst ==
    /\ turn = "idle"
    /\ turn' = "asked"
    /\ page' = 1
    /\ due' = {t \in InList : ~Tied(t)}
    /\ UNCHANGED <<startTime, stopTime, list, total, found, shown, outdated>>

CountQuery ==
    /\ turn = "asked" /\ total = Never
    /\ total' = Cardinality(InList)
    /\ UNCHANGED <<startTime, stopTime, list, turn, page, found, shown, due,
                   outdated>>

ListQuery ==
    /\ turn = "asked" /\ found = Never
    /\ found' \in Pages
    /\ UNCHANGED <<startTime, stopTime, list, turn, page, total, shown, due,
                   outdated>>

(* An empty page is answered with 404.  The next page is asked for if the  *)
(* number of pages, total / PageSize rounded up, says that there is one.   *)
Answered ==
    /\ turn = "asked" /\ total # Never /\ found # Never
    /\ shown' = shown \cup found
    /\ IF found # {} /\ page * PageSize < total
       THEN /\ page' = page + 1
            /\ total' = Never
            /\ found' = Never
            /\ outdated' = FALSE
            /\ UNCHANGED turn
       ELSE /\ turn' = "ended"
            /\ UNCHANGED <<page, total, found, outdated>>
    /\ UNCHANGED <<startTime, stopTime, list, due>>

QueryFails ==
    /\ turn = "asked"
    /\ \/ total = Never
       \/ found = Never
    /\ turn' = "failed"
    /\ UNCHANGED <<startTime, stopTime, list, page, total, found, shown, due,
                   outdated>>

-----------------------------------------------------------------------------
(* The station.  What the client must come upon: not what is tied, nor     *)
(* what moves in the list, nor what an other row leaps from before to      *)
(* behind it.                                                              *)
ListWritten(t) ==
    /\ due' = {d \in due \ {u \in {t} : SortKey'[u] # SortKey[u]} :
                 /\ ~Tied(d)'
                 /\ ~(t # d /\ t \in InList /\ SortKey[t] > SortKey[d]
                        /\ SortKey'[t] < SortKey[d])}
    /\ outdated' = (outdated \/ (turn = "asked" /\ total # Never
                                 /\ found = Never /\ InList' # InList))

(* createTransaction *)
TransactionStarts(t, time) ==
    /\ startTime[t] = Never
    /\ startTime' = [startTime EXCEPT ![t] = time]
    /\ UNCHANGED <<stopTime, list, turn, page, total, found, shown>>
    /\ ListWritten(t)

(* stopTransaction; a repeated one writes again. *)
TransactionStops(t, time) ==
    /\ startTime[t] # Never
    /\ stopTime' = [stopTime EXCEPT ![t] = time]
    /\ UNCHANGED <<startTime, list, turn, page, total, found, shown>>
    /\ ListWritten(t)

ListsNext ==
    \/ AskFirst
    \/ CountQuery
    \/ ListQuery
    \/ Answered
    \/ QueryFails
    \/ \E t \in Transactions, time \in Times :
         \/ TransactionStarts(t, time)
         \/ TransactionStops(t, time)

ListsSpec == ListsInit /\ [][ListsNext]_listVars

-----------------------------------------------------------------------------
ListsTypeOK ==
    /\ startTime \in [Transactions -> Times \cup {Never}]
    /\ stopTime \in [Transactions -> Times \cup {Never}]
    /\ list \in {"all", "latest"}
    /\ turn \in {"idle", "asked", "ended", "failed"}
    /\ page \in 0..(Cardinality(Transactions) + 1)
    /\ total \in (0..Cardinality(Transactions)) \cup {Never}
    /\ found \in (SUBSET Transactions) \cup {Never}
    /\ shown \subseteq Transactions
    /\ due \subseteq Transactions
    /\ outdated \in BOOLEAN

(* A client that turns the pages to the end comes upon every transaction   *)
(* of the beginning, though others start and stop between the pages and    *)
(* push it back: unless the list was counted for the last page before rows *)
(* came into it and read after, another transaction has the same time, or  *)
(* a repeated stop moved the row or a row before it (1068-1104, 1125-1180, *)
(* stopTransaction of database.ts).                                        *)
EveryRowIsShown == turn = "ended" /\ ~outdated => due \subseteq shown

=============================================================================
