# TLA+ models of the virtual-stock shop backend

These modules model the concurrent and failure-prone parts of the backend
under `src/backend/internal/service/` and the admin pages of the frontend
under `src/frontend/` that keep server state in a cache. They are checked
with TLC. Each module
is a translation of the Go code. Collaborators whose code is not under `src/`
are modelled from `spec.md`, and `PROJECT.json` marks those definitions
`spec_modelled`.

## 1. The system's parts

| Part | Source | State | Operations | Interacts with |
|---|---|---|---|---|
| Order auto-cancel sweep (Lifecycle Reconciler) | `order_cancel_service.go` 1-195 | orders.status, inventory reserved_quantity, virtual stock rows, promo reservations, serials; the goroutine's ticker and stopChan | Start, Stop, cancelLoop (select tick / stop), cancelExpiredOrders (query of at most 100 due orders), cancelOrder (conditional UPDATE, then four independent releases) | payment (MarkAsPaid), user cancellation, virtual-stock delivery, other instances of itself |
| Ticket auto-close sweep (Lifecycle Reconciler) | `ticket_auto_close_service.go` 1-188 | tickets.status, last_message_at, unread_count_user, system messages; AutoCloseHours (hot-reloaded); ticker and stopChan | Start, Stop, closeLoop, closeInactiveTickets, closeTicket (one transaction) | user replies, admin status changes, the settings page |
| Stock Ledger | not under src/ (spec §4.1, `src/unnamed/part_002`) | virtual_inventory_stocks rows: available / reserved / sold, order binding | Reserve, ReleaseStock, deliver, CreateSold, Invalidate | allocation, auto-cancel |
| Binding Tracker and Allocation | not under src/ (spec §4.2-4.3, `part_002`) | product_virtual_bindings, pending delivery quantity | allocate on pay, dual-path pending | ledger, script delivery |
| Script Delivery Sandbox | `script_delivery_service.go` 1-430 | goja VM, 10 s timer, host HTTP client | ExecuteDeliveryScript, parseDeliveryResult, doHTTPRequest | allocation |
| SMS sending | `script_delivery_service.go` 431-778 | Redis rate-limit counters, delayed sorted set | SendVerificationCode, ProcessDelayedSMS | providers (I/O) |
| User order handler, invoice tokens | `order_cancel_service.go` 196-1056 | Redis token keys | Create/List/Get/Complete order, GetInvoiceToken, ViewInvoiceByToken, GetVirtualProducts | order service, cache |
| Error / response / log types | `bizerr`, `models/log.go` | none | bizerr.New / WithParams, HandleError into BizError (code 40010, data {error_key, params}) or InternalServerError (code 50001, userMessage only) | every handler; the pages' error toasts |
| Virtual inventory page | `app/(admin)/admin/inventories/[id]/virtual/page.tsx` 142-1105 | React Query caches of the inventory and the stock list, pagination, filter, mutations in flight | refresh, paging, filter, reserve, release, delete, import, manual add, save and test of the script | stock endpoints; orders changing rows behind the page |
| ConfigEditor | `components/admin/config-editor.tsx` | entries, raw text, raw mode, skipSync, pendingJsonRef with its 300 ms timer | sync, raw edit, mode switches, flush, the [value] effect | its parent (inventory page, payment dialog) |
| Payment methods page | `page.tsx` 1106-1819 | the list query cache, the optimistic toggle, the drag order, the form's pending state | toggle, reorder, create, update, delete, built-in init | payment method endpoints |
| MarkdownEditor | `components/ui/markdown-editor.tsx` | the CodeMirror document and selection | typing, toolbar markers, colour picker, remove colour | its parent's value |
| Order detail page | `page.tsx` 1820-2090 | the polled order query, paymentMethodSelected, the shipping form token and info, invoiceLoading | poll, stop polling, select payment, load and submit the form, download the invoice | GetOrder, GetOrRefreshFormToken, GetInvoiceToken, ViewInvoiceByToken |
| User nav, phone codes, i18n | `user-nav.tsx`, `phone-codes.ts`, `lib/i18n` | none | display, lookup; `translateBizError` turns a business error into the toast text | the response types |

In the backend, the two sweeps are the places where code in this
repository runs concurrently with the rest of the system. Each is a goroutine driven by a
`time.Ticker`. The ticker's channel buffers one tick and drops the others.
Each sweep works on a database that request handlers and other instances
change at the same time. Neither sweep takes a lock. The only thing that
guards them is a conditional UPDATE.

In the frontend, concurrency comes from React Query: a mutation's answer, a
refetch's answer and a focus refetch can arrive in any order, and the
server's rows change behind the page. The pages' correctness is that the
cache ends up showing what the server holds.

## 2. Modules

### OrderAutoCancel (`OrderAutoCancel.tla`, instantiated by `MCOrderAutoCancel.tla`)

State, mapped to the code:
- `status[o]` is orders.status.
- `expired[o]` is `created_at < now - hours`.
- `reserved[i]` is inventories.reserved_quantity.
- `held[o]` is the order items whose reservation is not yet released.
- `vstock[v]` is a virtual stock row with status and order.
- `promoHeld`, `promoReserved` and `serials` are the promo and serial state.
- `sweeper[s]` is the cancelLoop goroutine. Its `pc` is one of query, cas, inventory, virtual, promo, serials, idle, exited. It also holds the batch, the current order and the item index.
- `tickReady[s]` is the one-slot ticker channel, and `stopClosed[s]` is stopChan.
- `paid` and `faulted` are history variables.

Actions:
- `QueryExpired` is the query at lines 107-117. Its outcomes are an error or a batch of `min(BatchLimit, |due|)` orders in any order; the query has no ORDER BY.
- `CancelOrderCAS` is lines 141-153: success, zero rows (return) or an error (return).
- `ReleaseInventory`, `ReleaseVirtual`, `ReleasePromo` and `DeleteSerials` are lines 155-186. `ReleaseInventory` takes one binding per step, following the loop. `ReleaseFails` is the logged error of any of them; the cascade goes on after it.
- `TickerFires`, `SelectTick`, `SelectStop` and `Stop` are the loop.
- `Crash` stops a goroutine between steps.

The environment: `Pay` (MarkAsPaid's conditional update), `UserCancel` (cancellation with the release of everything), `DeliverVirtual` and `Expire`. These are spec-modelled.

### OrderLifecycle (`OrderLifecycle.tla`): the abstract specification

This module states what spec 4.5 promises about one order, with no sweeps, ticks or statements:
- An order awaiting payment is either paid or cancelled, once.
- Only a cancelled order gives back what it holds. It may do so in any number of steps, and some steps may never happen: a failed release is a logged leak, not a rollback.
- Only a paid order's reserved units become sold, and sold is terminal.

`OrderAutoCancel` instantiates it as `Lifecycle` through a refinement mapping:
- `pending` maps to `paid`.
- The claims are the unreleased item reservations, the promo reservation and the serials (`ClaimsOf`).
- The units are the order's reserved rows (`UnitsOf`).
- `sold` is the set of rows in status sold.

The run order_cancel checks `ImplementsLifecycle == Lifecycle!Spec` as a PROPERTY. Every sweep step, tick, crash and failed statement must be a stutter or one abstract step. Two mutants break it:
- a conditional update that ignores zero rows, so a paid order's stock is released;
- a delivery without the paid check. This mutant breaks no other property of the run.

### TicketAutoClose (`TicketAutoClose.tla`, instantiated by `MCTicketAutoClose.tla`)

State, mapped to the code:
- `status` is tickets.status.
- `stale[t]` is `last_message_at < cutoff`.
- `unread` is unread_count_user.
- `notices[t]` is the number of auto-close system messages.
- `closedBy` is a history variable.
- `enabled` is `AutoCloseHours > 0`, re-read on every tick.
- `sweeper`, `tickReady` and `stopClosed` are as in the order module.

Actions:
- `QueryInactive` is lines 73-104.
- `CloseTicket` is the transaction at lines 125-174: commit, zero rows, or rollback.
- The environment (spec-modelled): `UserReply`, `AdminSetStatus`, `ConfigChange` and `TimePasses`.

### InvoiceToken (`InvoiceToken.tla`, instantiated by `OrderDetailPage.tla`)

It models one user and one completed order.

State:
- `dl[t]` is whether `invoice_dl:<t>` exists.
- `pending` is the value of `invoice_pending:<user>:<order>`.
- `issued` and `known` are the tokens drawn and the tokens handed to the client.
- `renders[t]` is how many invoices a token rendered, saturated at 2.
- `enabled` is `Order.Invoice.Enabled`.
- `pc[p]` and `tok[p]` are each handler goroutine's position and token.

Each Redis round trip is one step, so concurrent handlers interleave between them:
- `GetInvoiceToken` is `StartGet` (the request checks and Get of the pending key), `GetCheck`, `GetNew` (crand plus Set of the download key) and `GetSetPending`.
- `ViewInvoiceByToken` is `ViewGet`, `ViewDel` and `ViewFinish` (Del of the pending key, the enabled, order and template checks, render).
- The environment: both keys expire. The pending key expires after the download key, because it is set later with the same TTL. `CacheFaults` lets every Redis call fail: an error on Get counts as a miss, a Set error of the download key answers 500, and the other errors are ignored.

### OrderDetailPage (`OrderDetailPage.tla`, instantiated by `MCOrderDetailPage.tla`)

The user's order detail page (`page.tsx` 1820-2090) against the order on the server and the invoice handlers. An order is abstracted to its status; "paid" stands for the statuses between payment and completion.

State, mapped to the code:
- `srv` is the order's status; `cache` the status in the order query's data; `fetch` the fetch in flight (`"sent"`, or the status the server answered).
- `selected` is paymentMethodSelected, which turns the 5 s `refetchInterval` on.
- `effDeps` are the form effect's dependencies when it last ran; `formReq` the effect's promise chain in flight; `formToken`, `formData` and `formLoading` are the page's state.
- `invoiceLoading`, and `tabTok`/`opened`: the tabs `window.open` started, each holding the token of its download URL.
- InvoiceToken's variables, through `Inv == INSTANCE InvoiceToken` with the page's request and the tabs as its handlers and Redis healthy.

Actions:
- `FetchServe` (GetOrder answers the current status), `FetchStore`, `Poll` and `Focus` (both join the fetch in flight), `StopPolling` (the effect at line 1891), `RefreshParam`, and `SelectPayment` (onPaymentSelected: set the flag and refetch).
- `FormEffect`, `FormTokenRespond` (GetOrRefreshFormToken: a token while draft or need_resubmit, otherwise 400 or 500, logged, never retried), `FormInfoRespond`, and `SubmitForm` (the order becomes pending_payment; handleFormSuccess clears the form and refetches).
- `Download` (the invoice button of a completed order, guarded by invoiceLoading; a 400 answers at once), `PageGetStep` (the request's steps in `GetInvoiceToken`; on a token, a tab is opened), `TabView` and `TabStep` (the tab's `ViewInvoiceByToken`).
- The environment (spec-modelled): `ServerStep` (payment, cancellation by the sweep or the user, completion) and `InvoiceEnv` (TTLs and the invoice setting).

### DeliveryResult (`DeliveryResult.tla`, checked by `MCScriptSandbox.tla`)

`ParseDeliveryResult` translates `parseDeliveryResult`; `CountKept` is its RECURSIVE items loop. A JavaScript value is abstracted to what the Go type assertions tell apart:
- its kind: undefined, null, scalar or object;
- for an object, the kind of `success` (true, false, another value, absent), of `message` (non-empty string, empty, non-string, absent) and of `items` (absent, a non-array, an array);
- for each array entry, scalar or object, with the kind of its `content`.

`Contract` is spec 4.4 step 5 written independently: it uses sets, not the loop. `ClassOf` maps the code's errors onto the spec's taxonomy. `MCScriptSandbox` checks `ParseMatchesContract` whenever onDeliver runs: every value with arrays of up to three entries is classified as the contract says.

### ScriptSandbox (`ScriptSandbox.tla`, instantiated by `MCScriptSandbox.tla`)

`ExecuteDeliveryScript` in time, counted in units of 10 s.

Actions:
- `Start` is the empty-script check, goja.New, the timer and registerAPIs.
- `TopLevelStep` is RunString: http calls, a throw, or completion, followed by the onDeliver lookup.
- `OnDeliverStep` is onDeliver: http calls, a throw, or a return value validated by `ParseDeliveryResult`.
- `CallHttp` / `HttpReturns` are doHTTPRequest's blocking `client.Do`.
- `TimerFires` is the AfterFunc goroutine calling `vm.Interrupt`. `Interrupted` is the next JS instruction throwing.
- `Tick` advances time.

The script's own steps get no fairness, because a script may loop forever. The clock, the timer, goja's interrupt check and the HTTP client timeout are weakly fair.

### SmsDelayQueue (`SmsDelayQueue.tla`, instantiated by `MCSmsDelayQueue.tla`)

`SMSService.SendVerificationCode` and `ProcessDelayedSMS` for one recipient. Each code is a distinct payload, so a distinct member of `sms:delayed`.

State:
- `counter` stands for the rate counter. `checkMessageRateLimit` and `incrMessageRateCounters` are not under src/, so they are modelled as a read and an increment of that counter.
- `exceedAction` is hot-reloaded and read on every call.
- `delayed` holds the members of the sorted set.
- `expired` holds the codes older than 10 minutes.
- `sends` counts provider calls per code.
- Per drainer: its batch, and `stale`, the codes that were expired at the `now` read before the range.

Actions:
- `CheckRateLimit` is the check, then ZAdd (delay) or refuse (cancel).
- `IncrAndSend` is the increment and `sendDirect`.
- `ZRange` is the 30 s wake-up and `ZRangeByScore` with Count: an error or an empty result continues.
- `Handle` is one member: ZRem with its result ignored, the expiry test against the stale `now`, then send.
- `DrainerExit` is `ctx.Done`.
- The environment: `Expire`, `ConfigChange` and `Shutdown`.

Fairness is weak for `Handle` and `DrainerExit`. A successful range is strongly fair, because Redis errors are transient and the loop retries every 30 s.

### InventoryPage (`InventoryPage.tla`, instantiated by `MCInventoryPage.tla`)

The virtual inventory page (`page.tsx` 142-1105) against the server's stock rows and saved script configuration.

State, mapped to the code:
- `srv` and `srvConfig` are the server's rows and `script_config`.
- `cache[k]` is the stock list query's data for the key `[page, statusFilter]`; `fetch[k]` is its fetch in flight: `Idle`, `Sent`, or `Served(answer, post)`, where `post` says the answer was computed after the page's last write.
- `invFetch` is the inventory query's fetch.
- `need` and `invNeed` are history: the cached data misses a write the page made.
- `rowReq`, `deleteReqs`, `importReq`, `manualReq`, `updateReq`, `testReq` are the mutations in flight.
- The ConfigEditor's variables, composed through `CE == INSTANCE ConfigEditor`.

Actions: `FetchServe`/`FetchStore` (a fetch answered, then stored), the paging and filter buttons, `Refresh`, `RowAction`/`RowRespond` (reserve, release), `Delete`, import and manual add, `Save` (which flushes the ConfigEditor) and `Test`, each `...Respond` with the refetches its `onSuccess` calls, `EditConfig` (an admin step in the ConfigEditor), and `OrderStep` (allocation, delivery and release changing rows behind the page). A refetch cancels the fetch in flight and sends a new one (`RefetchStocks`).

### ConfigEditor (`ConfigEditor.tla`)

All of `config-editor.tsx`. A configuration is abstracted to its parsed content: a member of `Configs`, or `Invalid` for text that does not parse. `Sync` is the visual edit (entries, raw text, `pendingJsonRef` and the re-armed 300 ms timer, `skipSync`); `TimerFires` and `Flush` deliver the pending JSON; `ToRaw`, `RawEdit` and `ToVisual` are raw mode; `Deliver` folds in the `[value]` effect, which React runs before the next input.

### PaymentMethodsPage (`PaymentMethodsPage.tla`, instantiated by `MCPaymentMethodsPage.tla`)

The payment method list (`page.tsx` 1106-1819). The server's order (`srvOrder`) and enabled flags (`srvEn`), the `['paymentMethods']` cache and its fetch, the mutations in flight (`reqs`), and the form's pending flag.

Actions:
- `FetchServe`, `FetchStore` and `Focus` (a window focus refetch, which joins the fetch in flight).
- `Toggle` (onMutate: cancel the fetch, snapshot, flip the row) and `ToggleRespond` (success, or rollback to the snapshot; invalidate either way).
- `DragEnd` (write the moved list into the cache and send it) and `ReorderRespond` (no invalidation on success).
- `SubmitCreate`, `SubmitUpdate`, `ConfirmDelete`, `InitBuiltin` and `WriteRespond` (invalidate on success). The server's effect, `Applied`, is spec-modelled.
- Every error branch also runs the mutation's `onError` (`ShowError`): the server's error, one of `Failures`, goes through `HandleError` and the page's toast text (`toast`) is what `ApiResponse!ErrorToast` makes of the response.

### ApiResponse (`ApiResponse.tla`, instantiated by `PaymentMethodsPage.tla`)

The path of a failed request to the admin's screen, as pure operators. `New` and `WithParams` build a `*bizerr.Error` (`bizerr.go`). `HandleError`, `BizError` and `InternalServerError` (`models/log.go` 271-302) turn an error into the response body: a business error keeps its key, message and params; any other error is logged and the client gets only the fallback message. `TranslateBizError` (`lib/i18n/index.ts` 22-35) looks the key up in the templates, falls back to the message or the key, returns the template as it is when params is null, and otherwise fills every `{name}` the params define (`Interpolate`, the `/g` replace). `ErrorToast` is the onError branch of the page (`page.tsx` 1239-1245). A string is abstracted to what a toast can show: a literal, a filled value, a placeholder left as `{name}`, or a raw message or key.

### MarkdownEditor (`MarkdownEditor.tla`, instantiated by `MCMarkdownEditor.tla`)

`markdown-editor.tsx` holds two versions of the component: a plain one (lines 1-141) and one with a colour picker (144-537). A document is a sequence of tokens: a character, an opening `<span style="color: c">` or the closing `</span>`. Markdown markers are one token `*`. `Select`, `Type`, `HandleAction` (wrap, line and block markers), `HandleColorSelect` and `HandleRemoveColor` rewrite the document and selection as the code's `view.dispatch` does. `DetectColorSpan` is the two cases of `detectColorSpan`. `Next` is the editor with the picker; `PlainNext` the plain version, whose handlers are a subset.

## 3. Runs

| Run | cfg | Expect | Checks |
|---|---|---|---|
| order_cancel | `MCOrderAutoCancel.cfg` | pass | `PaidOrderKeepsAllocation`: a paid order keeps its reservations, stock rows, promo and serials. `ReservationConservation`: each inventory's reserved quantity equals the quantity held by its orders, so nothing is released twice. `ExpiredOrderLeavesPending`: an expired unpaid order is eventually cancelled or paid, even with batches smaller than the backlog. `CancelledOrderReleased`: a cancelled order eventually releases everything unless a release statement failed or the goroutine crashed. `StopDrains`: after Stop the goroutine exits. `ImplementsLifecycle`: the whole model refines `OrderLifecycle` (see below). |
| ticket_close | `MCTicketAutoClose.cfg` | pass | `NoticeMatchesAutoClose`: the auto-close notice is written exactly once, and only for tickets the sweep closed; an admin close inside the batch gets none. `IdleTicketEventuallyClosed`: an idle active ticket is eventually closed while the sweep is enabled and running. |
| ticket_close_stale | `MCTicketAutoClose_stale.cfg` | violation | `ClosesOnlyIdleTickets`: the sweep closes only tickets still idle. TLC finds a trace in which the query picks t1, the user replies, and closeTicket closes t1 anyway. |
| order_detail | `MCOrderDetailPage.cfg` | pass | `PaymentResultShown`: once the user has picked a payment method and the order has left pending_payment on the server, the page eventually shows the new status (assuming the user eventually stops re-selecting methods, each of which restarts the fetch). |
| invoice_double_download | `MCOrderDetailPage_replay.cfg` | violation | `SingleUse`: each download token renders the invoice once. TLC finds two clicks on the invoice button, the second after the first request returned and before its tab's view: GetInvoiceToken hands back the same live token, and the two tabs both pass `cache.Get` before either deletes the key. |
| script_sandbox | `MCScriptSandbox.cfg` | pass | `ExecutionTerminates`: every execution returns, even with an http call blocked past the budget. `TypeOK` bounds the elapsed time by budget plus one HTTP timeout. `ParseMatchesContract`: for every onDeliver value with up to three entries, parseDeliveryResult accepts, fails or rejects as spec 4.4 step 5 says, keeping exactly the items with non-empty content. |
| sms_drain | `MCSmsDelayQueue.cfg` | pass | One drainer, three codes, limit 1. `DelayedDrained`: every delayed code eventually leaves the set unless the process shuts down. |
| sms_limit | `MCSmsDelayQueue_limit.cfg` | violation | `DirectSendsWithinLimit`: two concurrent requests both pass the check before either increments, and two codes go out under a limit of 1. |
| inventory_page | `MCInventoryPage.cfg` | pass | `OwnChangesRefetched`: after every successful write of the page (reserve, release, delete, import, manual add, save), a fetch that will bring it is in flight for the key shown, whatever other answers and order steps interleave. |
| config_lost_edit | `MCInventoryPageLost.cfg` | violation | `SaveSendsLastEdit`: Save sends the configuration the admin last produced. TLC finds a visual edit, a switch to raw mode and a raw edit within 300 ms: the flush sends the older visual JSON. |
| payment_methods | `MCPaymentMethodsPage.cfg` | pass | `ToastExplainsError`: every error toast the page shows comes from the server's error as the contract says: an internal error's text never reaches the admin, a translated business error with params leaves no placeholder unfilled, and a raw key is shown only for an untranslated key without a message. `EnabledConverges`: once the admin stops, the list eventually shows exactly the server's methods with the server's enabled flags, after concurrent toggles, rollbacks, creates, deletes, initialisations, reorders and focus refetches. |
| markdown_remove_color | `MCMarkdownEditor.cfg` | violation | `ColorKeepsTagsNested`: a colour command keeps the span tags nested. TLC finds `<red></><red></>` with a selection from inside the first span to inside the second: remove colour leaves `</><red>`. |

The mutants in `PROJECT.json` show that each passing property catches a plausible bug in the code it is about. Among the bugs are:
- the CAS without its status guard;
- the zero-rows return dropped;
- the query selecting the wrong status;
- the binding loop stopping one item early;
- the stop case not returning;
- the hours guard inverted;
- parseDeliveryResult counting every object entry, content or not;
- a refetch that joins the fetch in flight instead of restarting it;
- the next-page button without its bound;
- a toggle that does not invalidate when it settles;
- a drag that inserts the moved item without removing it;
- the order page's stop-polling effect without its status test;
- the order data taken before the answer arrived;
- translateBizError's replace without the `g` flag, which fills only the first placeholder.

### Bounds

**Order model:**
- Two orders. o1 has an inventory item, a non-inventory item and a promo code. o2 has one item on the same inventory, so two orders share `reserved[i1]`.
- Two virtual stock rows: one static-kind and one script-kind.
- One sweeper, `BatchLimit = 1`, so the backlog (2 orders) exceeds a batch.
- `MaxCrashes = 1`.

These bounds produce every interleaving the properties are about:
- payment between query and CAS;
- user cancel between query and CAS;
- a failed release in each of the four statements;
- a crash inside the cascade;
- a tick buffered during a sweep.

**Ticket model:**
- Two tickets, one sweeper, `BatchLimit = 1`.
- At most two user replies, which bounds the otherwise unbounded reply/idle cycle.

### Fairness

`FairSpec` assumes the following:
- **Weak fairness of every sweeper step and of the ticker.** The goroutine runs, and `time.Ticker` keeps sending.
- **Strong fairness of `SelectStop`.** Go's `select` chooses uniformly among ready cases, so a stop case that is ready infinitely often is eventually taken.
- **Strong fairness of a successful query and of a successful conditional update per order or ticket.** Database errors are transient; an operation retried on every tick eventually succeeds.

No fairness is assumed for the environment (payments, replies, admins).

`CHECK_DEADLOCK FALSE` is set because after `Stop` and the exit of the goroutine the service may legitimately do nothing more.

The payment methods page's `FairSpec` assumes weak fairness of the list fetch being answered and stored, and of the answer to each request (one fairness condition per request id): the browser delivers responses, and React Query stores them. The admin's clicks and window focus get no fairness; `EnabledConverges` is about the page after the admin stops. The page may then sit idle, so that run does not check deadlock. The order detail page's `FairSpec` assumes weak fairness of the fetch, the 5 s interval, the two effects, the form requests, the page's token request and each tab's request: the browser runs timers, effects and requests to completion. The user's clicks, window focus, the server's status changes and Redis expiry get none. The inventory page and the markdown editor runs check safety only and use `Spec`.

**Frontend bounds:**
- Inventory page: two rows with a page size of 1, so the list has a second page; two filters; one order step behind the page and one admin request (`MaxMoves = MaxOps = 1`). One request is enough for `OwnChangesRefetched`, whose violations need one write racing one fetch already in flight.
- Payment methods: two methods and three requests (`MaxOps = 3`), enough for a toggle to overlap a second toggle, a reorder or a delete, each with a fetch in flight. Three server failures: a translated business error with two params (the template has two placeholders, so a replace that stops after the first is seen), an untranslated business error with a message, and a database error whose text must stay in the log.
- Markdown editor: documents of up to six tokens with two colours, the smallest size that holds two adjacent spans with text in each.

## 4. Findings

1. **Sweep after Stop (spec/code divergence, hazard only).** Spec §5 says the shutdown signal only prevents new ticks. `cancelLoop` (and `closeLoop`) can still start a sweep after Stop when a tick was buffered. `NoSweepAfterStop` states the rule and fails under `Spec`. The only effect is one more sweep before `wg.Wait` returns, and `StopDrains` shows that the loop still exits, so this is not a standing run.
2. **Auto-close of a ticket just replied to (code bug).** The conditional update of `closeTicket` does not re-check `last_message_at`.

3. **Invoice token replay from the page's own button (code bug, run invoice_double_download).** `ViewInvoiceByToken` reads and deletes the token in two Redis calls, and ignores the result of the Del. `GetInvoiceToken` hands out the pending token again while its key exists, and the order page's `invoiceLoading` covers only the token request, not the tab it opens. Two clicks, the second before the first tab has loaded, give two tabs one token, and both render the invoice.
4. **Duplicate invoice tokens (code bug, hazard only).** The de-duplication in `GetInvoiceToken` is check-then-set, the Set of the pending key has its error ignored, and `ViewInvoiceByToken` deletes the pending key whatever token it names. From the order page alone, three downloads give two live download keys (`OneLiveToken` fails with `Tabs = {x1, x2, x3}`). This is not a standing run.

5. **Script budget is not a hard limit (spec/code divergence, hazard only).** `vm.Interrupt` cannot stop a host function. A script in `AuraLogic.http` when the 10 s timer fires holds the delivery path until the call returns, which can take up to 40 s.
6. **SMS rate limit is check-then-increment (code bug).** Concurrent `SendVerificationCode` calls for one recipient all pass `checkMessageRateLimit` before any increments the counter.
7. **Delayed SMS sent twice (code bug, multi-instance).** `ProcessDelayedSMS` ignores `ZRem`'s result. Two backend processes sharing Redis both send a member they both ranged: `DelayedSentOnce` fails with `Drainers = {d1, d2}`. With a single loop it holds by `Handle`'s ZRem alone, so no run checks it. The multi-instance deployment is an assumption, so this is a hazard, not a standing run.
8. **Virtual products of a cancelled order (code bug, hazard only).** `GetVirtualProducts`' guard (line 550) omits `cancelled`, against its own comment. After the sweep's conditional update, the never-paid order's reserved rows would be answered to its owner. This depends on `GetStockByOrderNo`, which is not under src/, returning rows whatever their status, so it is listed as a hazard and not modelled.
9. **Save after a raw edit sends an older configuration (code bug, run config_lost_edit).** The raw editor's onChange (`config-editor.tsx` 163) clears neither the debounce timer nor `pendingJsonRef`. A visual edit followed within 300 ms by a raw edit is overwritten by the timer, or sent by Save's flush.
10. **Remove colour breaks the span tags (code bug, run markdown_remove_color).** `detectColorSpan` case 2 (line 252) takes any opening tag before the selection and any closing tag after it as one span, and case 1's greedy regex does the same inside the selection. Remove colour then leaves a stray `</span>` and an unclosed span in the saved markdown.

Bounds of the script models:
- Results are arrays of up to three entries, which covers mixes of kept and filtered entries.
- Time is counted in units of 10 s: the budget is 1 and the HTTP timeout 3.
- A script makes at most two http calls.
- onDeliver's answers are three values: an accepted one, a failed one and an invalid one.

Bounds of the order page and invoice model:
- Every status the page can open on; three invoice tokens (the start of a Get is guarded so that every Get in flight still has a fresh token); two tabs, so two downloads, which is the smallest number for the replay.
- `PaymentResultShown` needs no bound on the server: the status only moves forward.

Bounds of the SMS model:
- Three codes against a limit of 1: one code is sent directly and two are delayed, so the batch limit (`Batch = 1`) is smaller than the backlog.
- One drainer. Two drainers only serve the duplicate-send trace of finding 7.

## 5. Not modelled (yet) and plan

Modules planned, in order:
1. (done) **InvoiceToken**.
2. (done) **DeliveryResult, ScriptSandbox**.
3. (partly done: `OrderLifecycle` with its refinement) **StockLedger and VirtualAllocation** (spec-modelled). Still open: a pool-count view of the ledger. Dual-path pending delivery quantity. Overage against total_limit.
4. (done) **SmsDelayQueue.** Still open: the ignored ZAdd error (a delayed code silently lost), and the stale `now` in the expiry check.
5. (done) **Frontend admin pages**: the virtual inventory page with its ConfigEditor, the payment methods list, the markdown editor.
6. (done) **OrderDetailPage**, composed with InvoiceToken. Still open: a run for the form that is never retried after a failed token request (hazard at `page.tsx` 1942).
7. Open: the payment dialog (`page.tsx` 1408-1795) composed with its ConfigEditor; `handleTest` sends the config without flushing the editor.

Left out:
- Presentation: the invoice HTML, currency formatting, `user-nav.tsx`, `phone-codes.ts` and the message tables of `lib/i18n` (a menu, a lookup table and message lookup, with no state a property could tell apart; only `translateBizError` is modelled), and the layout of the pages.
- Runs dropped to keep one run per question: the invoice model run on its own (now driven by the order page), the invoice model under failing Redis (`CacheFaults` stays a constant; the runs set it FALSE), the script budget overrun (finding 5) and GetVirtualProducts (finding 8).
- `OrderConverges` in `PaymentMethodsPage`: the list's order need not converge to the server's: TLC finds three drags answered in reverse order, and reorder success never refetches. It is stated but not checked by a run (see the hazard at `page.tsx` 1502).
- `ListOrders` and `Paginated`: the handler does not clamp `limit` from below, so `?limit=0` divides by zero in the page count (hazard at `order_cancel_service.go` 304). It is arithmetic on one request, with no interleaving, and every run slot is taken by a question about concurrency.
- The log structs and the response helpers other than the error path (`MaskContent` is unused).
- Provider I/O: Aliyun, Twilio and custom HTTP are abstracted to success or failure.
- Start/Stop called twice: the callers in main are not under src/.
