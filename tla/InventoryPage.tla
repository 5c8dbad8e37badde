---------------------------- MODULE InventoryPage ----------------------------
(***************************************************************************)
(* VirtualInventoryEditPage (app/(admin)/admin/inventories/[id]/virtual/   *)
(* page.tsx, lines 142-1105) against the stock rows and the saved          *)
(* inventory on the server.                                                *)
(*                                                                         *)
(* The page keeps two React Query queries: the inventory (form and stat    *)
(* cards) and the stock list, keyed by [id, page, limit, statusFilter].    *)
(* Every mutation (reserve, release, delete, import, manual create, save)  *)
(* calls refetchStocks and/or refetchInventory in onSuccess.  A static     *)
(* inventory shows the stock table; a script inventory shows the script    *)
(* editor with its ConfigEditor instead; the type never changes on the     *)
(* page.                                                                   *)
(*                                                                         *)
(* A query fetch is three steps: started (or restarted by refetch, which   *)
(* cancels the one in flight), answered by the server, and stored in the   *)
(* cache.  Orders (allocation, delivery, release) change rows behind the   *)
(* page.  The import and manual dialogs are opened and submitted in one    *)
(* step: their open state only gates the submit button.                    *)
(***************************************************************************)
EXTENDS Naturals, FiniteSets

CONSTANTS
    Stocks,       \* row ids, a finite set of naturals (the list is ordered by id)
    Limit,        \* const [limit] = useState(20)
    Filters,      \* values of the status Select offered to the admin
    Configs, Invalid, None, Empty,   \* script_config contents, see ConfigEditor
    MaxMoves,     \* bound on the order steps behind the page
    MaxOps        \* bound on the admin's requests: mutations and refreshes

ASSUME Limit \in Nat \ {0} /\ MaxOps \in Nat /\ MaxMoves \in Nat /\ Empty \in Configs
ASSUME Filters \subseteq {"all", "available", "reserved", "sold", "invalid"}

Statuses == {"available", "reserved", "sold", "invalid"}

VARIABLES
    srv,          \* [Stocks -> Statuses \cup {"absent"}]: the server's rows
    srvConfig,    \* script_config saved on the server
    itype,        \* editForm.type, "static" or "script", fixed once loaded
    page, statusFilter,
    cache,        \* [Keys -> None | answer]: the stock list query cache
    fetch,        \* [Keys -> Idle | Sent | Served(answer, post)]: fetch in flight
    need,         \* history: [Keys -> the list misses a write made from it]
    invFetch,     \* inventory query fetch: Idle | Sent | Served
    invNeed,      \* history: the inventory data misses a write of the page
    rowReq,       \* [{"reserve", "release"} -> None | row]: reserve/releaseMutation
    deleteReqs,   \* [Stocks -> count of deleteMutation calls in flight]
    importReq, manualReq,   \* importMutation / manualCreateMutation pending
    updateReq,    \* updateMutation in flight: None | the script_config sent
    testReq,      \* testMutation in flight: None | the config object sent
    ops,          \* admin requests made
    moves,        \* order steps taken
    value, entries, rawMode, rawValue, skipSync, pending, lastEdit

cvars == <<value, entries, rawMode, rawValue, skipSync, pending, lastEdit>>
CE == INSTANCE ConfigEditor

server == <<srv, srvConfig>>
view   == <<page, statusFilter>>
stockQ == <<cache, fetch, need>>
invQ   == <<invFetch, invNeed>>
reqs   == <<rowReq, deleteReqs, importReq, manualReq, updateReq, testReq>>
pvars  == <<server, itype, view, stockQ, invQ, reqs, ops, moves>>
vars   == <<pvars, cvars>>

Keys == (1..Cardinality(Stocks)) \X Filters
Cur  == <<page, statusFilter>>

-----------------------------------------------------------------------------
(* The stock list endpoint: rows of the filter, in id order, page by page. *)

Match(f) == {s \in Stocks : srv[s] # "absent" /\ (f = "all" \/ srv[s] = f)}

PageRows(k) ==
    LET m == Match(k[2])
    IN  {s \in m : Cardinality({t \in m : t < s}) \in ((k[1] - 1) * Limit)..(k[1] * Limit - 1)}

Answer(k) == [rows |-> [s \in PageRows(k) |-> srv[s]], total |-> Cardinality(Match(k[2]))]

\* const totalPages = Math.ceil(total / limit)
TotalPages(a) == (a.total + Limit - 1) \div Limit

\* What the table shows for the current key: the rows of the cached answer;
\* loading or an empty list shows no rows and no pagination bar.
Shown    == IF cache[Cur] = None THEN [s \in {} |-> "none"] ELSE cache[Cur].rows
ShowsBar == cache[Cur] # None /\ cache[Cur].total > 0 /\ DOMAIN Shown # {}

\* States of a fetch: none in flight, sent, answered by the server (post:
\* answered after the write the history variable waits for).
Idle         == [st |-> "idle"]
Sent         == [st |-> "sent"]
Served(a, p) == [st |-> "served", ans |-> a, post |-> p]

\* useQuery on a new key: a fetch starts unless one is in flight (dedup).
Observe(k) == fetch' = [fetch EXCEPT ![k] = IF @ = Idle THEN Sent ELSE @]

\* Mutant: refetch joins the fetch in flight, as a new key's fetch does.
RefetchStocksJoin == fetch' = [fetch EXCEPT ![Cur] = IF @ = Idle THEN Sent ELSE @]

\* refetch(): cancels the fetch in flight for the current key and restarts.
RefetchStocks == fetch' = [fetch EXCEPT ![Cur] = Sent]

RefetchInventory == invFetch' = Sent

\* onSuccess of a stock mutation: refetchStocks() and refetchInventory().
StockWriteDone ==
    /\ need' = [need EXCEPT ![Cur] = TRUE] /\ invNeed' = TRUE
    /\ RefetchStocks /\ RefetchInventory

Static == itype = "static"

TypeOK ==
    /\ srv \in [Stocks -> Statuses \cup {"absent"}]
    /\ itype \in {"static", "script"}
    /\ page \in 1..Cardinality(Stocks) /\ statusFilter \in Filters
    /\ \A k \in Keys : cache[k] = None \/ DOMAIN cache[k].rows \subseteq Stocks
    /\ \A k \in Keys : fetch[k] \in {Idle, Sent} \/ fetch[k].st = "served"
    /\ need \in [Keys -> BOOLEAN] /\ invNeed \in BOOLEAN
    /\ ops <= MaxOps /\ moves <= MaxMoves
    /\ rowReq \in [{"reserve", "release"} -> Stocks \cup {None}]
    /\ deleteReqs \in [Stocks -> 0..MaxOps]
    /\ importReq \in BOOLEAN /\ manualReq \in BOOLEAN
    /\ updateReq \in CE!Texts \cup {None} /\ testReq \in Configs \cup {None}
    /\ CE!CTypeOK

\* The page renders once the inventory query has loaded; the form takes the
\* inventory's fields once (isFormLoaded); the stock query of the first key
\* is in flight.  A static inventory starts with its rows available, a
\* script inventory has none and any saved script_config.
Init ==
    /\ itype \in {"static", "script"}
    /\ srv = [s \in Stocks |-> IF itype = "static" THEN "available" ELSE "absent"]
    /\ srvConfig \in IF itype = "static" THEN {Empty} ELSE CE!Texts
    /\ ops = 0 /\ moves = 0
    /\ page = 1 /\ statusFilter = "all"
    /\ cache = [k \in Keys |-> None]
    /\ fetch = [k \in Keys |-> IF k = <<1, "all">> THEN Sent ELSE Idle]
    /\ need = [k \in Keys |-> FALSE]
    /\ invFetch = Idle /\ invNeed = FALSE
    /\ rowReq = [r \in {"reserve", "release"} |-> None]
    /\ deleteReqs = [s \in Stocks |-> 0]
    /\ importReq = FALSE /\ manualReq = FALSE
    /\ updateReq = None /\ testReq = None
    /\ CE!CInit(srvConfig, Empty)

-----------------------------------------------------------------------------
(* The stock table and its pagination bar (static inventories).            *)

\* Buttons of the bar: first and previous are disabled on page 1, next and
\* last from page totalPages on.  Every key change starts a fetch.
GoToPage(p) ==
    /\ Static /\ ShowsBar
    /\ page' = p
    /\ Observe(<<p, statusFilter>>)
    /\ UNCHANGED <<server, itype, statusFilter, cache, need, invQ, reqs, ops, moves, cvars>>

FirstPage == page > 1 /\ GoToPage(1)
PrevPage  == page > 1 /\ GoToPage(page - 1)
\* Mutant: next without disabled={page >= totalPages}.
NextPageNoBound == cache[Cur] # None /\ GoToPage(page + 1)

NextPage  == cache[Cur] # None /\ page < TotalPages(cache[Cur]) /\ GoToPage(page + 1)
LastPage  == cache[Cur] # None /\ page < TotalPages(cache[Cur])
             /\ GoToPage(TotalPages(cache[Cur]))

\* <Select value={statusFilter} onValueChange={setStatusFilter}>: the page
\* number is kept.
SetFilter(f) ==
    /\ Static /\ f # statusFilter
    /\ statusFilter' = f
    /\ Observe(<<page, f>>)
    /\ UNCHANGED <<server, itype, page, cache, need, invQ, reqs, ops, moves, cvars>>

\* The refresh button: refetchStocks().
Refresh ==
    /\ Static /\ ops < MaxOps
    /\ RefetchStocks
    /\ ops' = ops + 1
    /\ UNCHANGED <<server, itype, view, cache, need, invQ, reqs, moves, cvars>>

\* The server answers a stock list request with the rows it has now.
FetchServe(k) ==
    /\ fetch[k] = Sent
    /\ fetch' = [fetch EXCEPT ![k] = Served(Answer(k), need[k])]
    /\ UNCHANGED <<server, itype, view, cache, need, invQ, reqs, ops, moves, cvars>>

\* The answer reaches the query cache of its key.
FetchStore(k) ==
    /\ fetch[k].st = "served"
    /\ cache' = [cache EXCEPT ![k] = fetch[k].ans]
    /\ fetch' = [fetch EXCEPT ![k] = Idle]
    /\ need' = [need EXCEPT ![k] = @ /\ ~fetch[k].post]
    /\ UNCHANGED <<server, itype, view, invQ, reqs, ops, moves, cvars>>

InvServe ==
    /\ invFetch = Sent
    /\ invFetch' = Served(<<>>, invNeed)
    /\ UNCHANGED <<server, itype, view, stockQ, invNeed, reqs, ops, moves, cvars>>

InvStore ==
    /\ invFetch.st = "served"
    /\ invFetch' = Idle
    /\ invNeed' = (invNeed /\ ~invFetch.post)
    /\ UNCHANGED <<server, itype, view, stockQ, reqs, ops, moves, cvars>>

-----------------------------------------------------------------------------
(* Row buttons and their mutations.                                        *)

From(r) == IF r = "reserve" THEN "available" ELSE "reserved"
To(r)   == IF r = "reserve" THEN "reserved" ELSE "available"

\* An available row offers reserve and delete, a reserved row release and
\* delete; reserve and release are disabled while their mutation is pending,
\* delete (an AlertDialog confirmation) never is.
RowAction(r, s) ==
    /\ Static /\ ops < MaxOps
    /\ s \in DOMAIN Shown /\ Shown[s] = From(r)
    /\ rowReq[r] = None
    /\ rowReq' = [rowReq EXCEPT ![r] = s]
    /\ ops' = ops + 1
    /\ UNCHANGED <<server, itype, view, stockQ, invQ, deleteReqs, importReq, manualReq,
                   updateReq, testReq, moves, cvars>>

Delete(s) ==
    /\ Static /\ ops < MaxOps
    /\ s \in DOMAIN Shown /\ Shown[s] \in {"available", "reserved"}
    /\ deleteReqs' = [deleteReqs EXCEPT ![s] = @ + 1]
    /\ ops' = ops + 1
    /\ UNCHANGED <<server, itype, view, stockQ, invQ, rowReq, importReq, manualReq,
                   updateReq, testReq, moves, cvars>>

\* The server flips the row if it still has the status the button showed;
\* onSuccess refetches both queries, onError only toasts.
RowRespond(r) ==
    /\ rowReq[r] # None
    /\ LET s == rowReq[r] IN
         IF srv[s] = From(r)
         THEN srv' = [srv EXCEPT ![s] = To(r)] /\ StockWriteDone
         ELSE UNCHANGED <<srv, fetch, need, invQ>>
    /\ rowReq' = [rowReq EXCEPT ![r] = None]
    /\ UNCHANGED <<srvConfig, itype, view, cache, deleteReqs, importReq, manualReq,
                   updateReq, testReq, ops, moves, cvars>>

DeleteRespond(s) ==
    /\ deleteReqs[s] > 0
    /\ IF srv[s] \in {"available", "reserved"}
       THEN srv' = [srv EXCEPT ![s] = "absent"] /\ StockWriteDone
       ELSE UNCHANGED <<srv, fetch, need, invQ>>
    /\ deleteReqs' = [deleteReqs EXCEPT ![s] = @ - 1]
    /\ UNCHANGED <<srvConfig, itype, view, cache, rowReq, importReq, manualReq,
                   updateReq, testReq, ops, moves, cvars>>

-----------------------------------------------------------------------------
(* The batch import and manual add dialogs (static inventories).           *)

\* A header button opens the dialog and handleImport / handleManualCreate
\* submits content (empty text, no file or a rejected extension only
\* toast); the submit button is disabled while the mutation is pending.
SubmitImport ==
    /\ Static /\ ops < MaxOps /\ ~importReq
    /\ importReq' = TRUE
    /\ ops' = ops + 1
    /\ UNCHANGED <<server, itype, view, stockQ, invQ, rowReq, deleteReqs, manualReq,
                   updateReq, testReq, moves, cvars>>

SubmitManual ==
    /\ Static /\ ops < MaxOps /\ ~manualReq
    /\ manualReq' = TRUE
    /\ ops' = ops + 1
    /\ UNCHANGED <<server, itype, view, stockQ, invQ, rowReq, deleteReqs, importReq,
                   updateReq, testReq, moves, cvars>>

\* The server adds available rows (an import any number, a manual add one);
\* onSuccess closes the dialog, clears its input and refetches both queries.
Add(new) ==
    /\ srv' = [s \in Stocks |-> IF s \in new THEN "available" ELSE srv[s]]
    /\ StockWriteDone

ImportRespond ==
    /\ importReq
    /\ importReq' = FALSE
    /\ \/ \E new \in SUBSET {s \in Stocks : srv[s] = "absent"} : Add(new)
       \/ UNCHANGED <<srv, fetch, need, invQ>>
    /\ UNCHANGED <<srvConfig, itype, view, cache, rowReq, deleteReqs, manualReq,
                   updateReq, testReq, ops, moves, cvars>>

ManualRespond ==
    /\ manualReq
    /\ manualReq' = FALSE
    /\ \/ \E s \in Stocks : srv[s] = "absent" /\ Add({s})
       \/ UNCHANGED <<srv, fetch, need, invQ>>
    /\ UNCHANGED <<srvConfig, itype, view, cache, rowReq, deleteReqs, importReq,
                   updateReq, testReq, ops, moves, cvars>>

-----------------------------------------------------------------------------
(* The form: save and test (the script card), with the ConfigEditor.       *)

\* The config handleSave and handleTest read: what flushRef returns, or the
\* form's script_config when nothing was pending.
FlushedConfig == IF pending # None THEN pending ELSE value

\* handleSave with a name (and, for a script inventory, a script) given:
\* flush the editor, then updateMutation.mutate(formToSave).  Without an
\* editor mounted (static) configFlushRef.current is null.
Save ==
    /\ updateReq = None /\ ops < MaxOps
    /\ CE!Flush
    /\ updateReq' = FlushedConfig
    /\ ops' = ops + 1
    /\ UNCHANGED <<server, itype, view, stockQ, invQ, rowReq, deleteReqs, importReq,
                   manualReq, testReq, moves>>

\* onSuccess: refetchInventory(); the form is not reloaded (isFormLoaded).
SaveRespond ==
    /\ updateReq # None
    /\ updateReq' = None
    /\ \/ srvConfig' = updateReq /\ invNeed' = TRUE /\ RefetchInventory
       \/ UNCHANGED <<srvConfig, invQ>>
    /\ UNCHANGED <<srv, itype, view, stockQ, rowReq, deleteReqs, importReq, manualReq,
                   testReq, ops, moves, cvars>>

\* handleTest with a script: flush, JSON.parse(flushed || script_config),
\* {} when it does not parse; the button is disabled while pending.
Test ==
    /\ itype = "script" /\ testReq = None /\ ops < MaxOps
    /\ CE!Flush
    /\ testReq' = IF FlushedConfig \in Configs THEN FlushedConfig ELSE Empty
    /\ ops' = ops + 1
    /\ UNCHANGED <<server, itype, view, stockQ, invQ, rowReq, deleteReqs, importReq,
                   manualReq, updateReq, moves>>

\* setTestResult(data or error): the result panel only.
TestRespond ==
    /\ testReq # None
    /\ testReq' = None
    /\ UNCHANGED <<server, itype, view, stockQ, invQ, rowReq, deleteReqs, importReq,
                   manualReq, updateReq, ops, moves, cvars>>

\* The admin works in the ConfigEditor of a script inventory.
EditConfig ==
    /\ itype = "script"
    /\ CE!CNext
    /\ UNCHANGED pvars

-----------------------------------------------------------------------------
(* Orders allocate, deliver and release rows behind the page.              *)

OrderMoves == {<<"available", "reserved">>, <<"reserved", "sold">>, <<"reserved", "available">>}

OrderStep(s, a, b) ==
    /\ srv[s] = a /\ moves < MaxMoves
    /\ srv' = [srv EXCEPT ![s] = b]
    /\ moves' = moves + 1
    /\ UNCHANGED <<srvConfig, itype, view, stockQ, invQ, reqs, ops, cvars>>

-----------------------------------------------------------------------------

Next ==
    \/ FirstPage \/ PrevPage \/ NextPage \/ LastPage \/ Refresh
    \/ \E f \in Filters : SetFilter(f)
    \/ \E k \in Keys : FetchServe(k) \/ FetchStore(k)
    \/ InvServe \/ InvStore
    \/ \E r \in {"reserve", "release"} : RowRespond(r) \/ \E s \in Stocks : RowAction(r, s)
    \/ \E s \in Stocks : Delete(s) \/ DeleteRespond(s)
    \/ SubmitImport \/ SubmitManual \/ ImportRespond \/ ManualRespond
    \/ Save \/ SaveRespond \/ Test \/ TestRespond \/ EditConfig
    \/ \E s \in Stocks, m \in OrderMoves : OrderStep(s, m[1], m[2])

Spec == Init /\ [][Next]_vars

-----------------------------------------------------------------------------
(* Properties.                                                             *)

\* A fetch that will bring a missed write: sent, or answered after it.
Brings(f) == f = Sent \/ (f.st = "served" /\ f.post)

\* While a stock list lacks a successful reserve, release, delete, import or
\* manual add made from it, or the inventory data lacks a write of the
\* page, a fetch that will bring it is in flight: onSuccess refetches, and
\* the refetch cancels an answer in flight that predates the write.  Since
\* requests complete and answers are stored without further input, every
\* own change shows up without the refresh button.
OwnChangesRefetched ==
    /\ \A k \in Keys : need[k] => Brings(fetch[k])
    /\ invNeed => Brings(invFetch)

\* handleSave sends the configuration the admin last produced in the
\* editor, visual or raw.
SaveSendsLastEdit ==
    [][updateReq = None /\ updateReq' # None => updateReq' = lastEdit]_vars

=============================================================================
