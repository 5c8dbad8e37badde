--------------------------- MODULE OrderDetailPage ---------------------------
(***************************************************************************)
(* The user's order detail page (OrderDetailContent, the last component    *)
(* concatenated into app/(admin)/admin/inventories/[id]/virtual/page.tsx,  *)
(* lines 1820-2090) against the order on the server and the invoice token  *)
(* handlers of InvoiceToken.                                               *)
(*                                                                         *)
(* The order query (useOrderDetail) polls every 5 s while                  *)
(* paymentMethodSelected, and an effect turns that flag off once the page  *)
(* shows a status other than pending_payment.  A draft or need_resubmit    *)
(* order with physical items loads a shipping form token and the form's    *)
(* info in an effect; submitting the form moves the order to               *)
(* pending_payment.  The invoice button of a completed order calls         *)
(* GetInvoiceToken, guarded by invoiceLoading, and opens a new tab on the  *)
(* download URL: every tab is one ViewInvoiceByToken request.              *)
(*                                                                         *)
(* An order is abstracted to its status.  "paid" stands for the statuses   *)
(* after payment and before completion.  Status changes other than the     *)
(* form submission are made by the payment callback, the auto-cancel sweep *)
(* or the user's cancel, and delivery: none of them is under this page.    *)
(***************************************************************************)
EXTENDS Naturals, FiniteSets

CONSTANTS
    Page,         \* the page's own GetInvoiceToken request (invoiceLoading)
    Tabs,         \* the tabs window.open can open: one per download, a bound
    Tokens, NoToken, None

Statuses == {"draft", "need_resubmit", "pending_payment", "paid", "completed", "cancelled"}

VARIABLES
    srv,          \* the order's status on the server
    cache,        \* None | the status in the order query's data
    fetch,        \* "idle" | "sent" | a status: the order fetch in flight
    selected,     \* paymentMethodSelected
    refresh,      \* searchParams refresh=true, not yet acted on
    virtualOnly,  \* isVirtualOnly: every item is virtual
    effDeps,      \* the form effect's deps when it last ran: [needs, status]
    formReq,      \* "none" | "token" | "info": the form effect's chain in flight
    formToken, formData, formLoading,
    invoiceCfg,   \* publicConfig.invoice_enabled, as the page loaded it
    invoiceLoading,
    tabTok,       \* [Tabs -> the token of a tab not yet requested, or NoToken]
    opened,       \* tabs opened so far
    dl, pending, issued, known, renders, enabled, pc, tok

ivars == <<dl, pending, issued, known, renders, enabled, pc, tok>>
Inv == INSTANCE InvoiceToken WITH Procs <- {Page} \cup Tabs, CacheFaults <- FALSE

server == <<srv, virtualOnly, invoiceCfg>>
query  == <<cache, fetch, selected, refresh>>
form   == <<effDeps, formReq, formToken, formData, formLoading>>
inv    == <<invoiceLoading, tabTok, opened>>
vars   == <<server, query, form, inv, ivars>>

\* isDraft || isNeedResubmit, && !isVirtualOnly
NeedsShippingForm == cache \in {"draft", "need_resubmit"} /\ ~virtualOnly
\* shippingFormNode: the form, once its token and info are loaded
FormShown == NeedsShippingForm /\ formToken /\ formData

TypeOK ==
    /\ srv \in Statuses /\ cache \in Statuses \cup {None}
    /\ fetch \in {"idle", "sent"} \cup Statuses
    /\ selected \in BOOLEAN /\ refresh \in BOOLEAN /\ virtualOnly \in BOOLEAN
    /\ formReq \in {"none", "token", "info"}
    /\ formToken \in BOOLEAN /\ formData \in BOOLEAN /\ formLoading \in BOOLEAN
    /\ invoiceCfg \in BOOLEAN /\ invoiceLoading \in BOOLEAN
    /\ tabTok \in [Tabs -> Tokens \cup {NoToken}] /\ opened \subseteq Tabs
    /\ Inv!TypeOK

\* Mount: the order query's first fetch is in flight.
Init ==
    /\ srv \in Statuses /\ virtualOnly \in BOOLEAN /\ invoiceCfg \in BOOLEAN
    /\ cache = None /\ fetch = "sent" /\ selected = FALSE /\ refresh \in BOOLEAN
    /\ effDeps = <<FALSE, None>> /\ formReq = "none"
    /\ formToken = FALSE /\ formData = FALSE /\ formLoading = FALSE
    /\ invoiceLoading = FALSE /\ tabTok = [x \in Tabs |-> NoToken] /\ opened = {}
    /\ Inv!Init

\* refetch(): cancels the fetch in flight and starts another.
Refetch == fetch' = "sent"

-----------------------------------------------------------------------------
(* The order query.                                                        *)

\* The server answers GET /orders/:no with the status it holds now.
FetchServe ==
    /\ fetch = "sent"
    /\ fetch' = srv
    /\ UNCHANGED <<server, cache, selected, refresh, form, inv, ivars>>

\* Mutant: the data is taken before the answer has arrived.
FetchStoreEarly ==
    /\ fetch # "idle"
    /\ cache' = fetch /\ fetch' = "idle"
    /\ UNCHANGED <<server, selected, refresh, form, inv, ivars>>

FetchStore ==
    /\ fetch \in Statuses
    /\ cache' = fetch /\ fetch' = "idle"
    /\ UNCHANGED <<server, selected, refresh, form, inv, ivars>>

\* refetchInterval: paymentMethodSelected ? 5000 : false.  An interval
\* fetch, like a window focus refetch, joins the fetch in flight.
Poll ==
    /\ selected /\ fetch = "idle" /\ fetch' = "sent"
    /\ UNCHANGED <<server, cache, selected, refresh, form, inv, ivars>>

Focus ==
    /\ fetch = "idle" /\ fetch' = "sent"
    /\ UNCHANGED <<server, cache, selected, refresh, form, inv, ivars>>

\* Mutant: the effect turns polling off whatever the status.
StopPollingNoStatus ==
    /\ cache # None /\ selected
    /\ selected' = FALSE
    /\ UNCHANGED <<server, cache, fetch, refresh, form, inv, ivars>>

\* The effect: order && status !== 'pending_payment' && paymentMethodSelected.
StopPolling ==
    /\ cache # None /\ cache # "pending_payment" /\ selected
    /\ selected' = FALSE
    /\ UNCHANGED <<server, cache, fetch, refresh, form, inv, ivars>>

\* The refresh=true effect, after a return from the form page.
RefreshParam ==
    /\ refresh /\ refresh' = FALSE /\ Refetch
    /\ UNCHANGED <<server, cache, selected, form, inv, ivars>>

\* PaymentMethodCard's onPaymentSelected, offered while pending_payment shows.
SelectPayment ==
    /\ cache = "pending_payment"
    /\ selected' = TRUE /\ Refetch
    /\ UNCHANGED <<server, cache, refresh, form, inv, ivars>>

-----------------------------------------------------------------------------
(* The shipping form.                                                      *)

\* The form effect, run when [needsShippingForm, order?.status] changed:
\* with the form needed and the order loaded, setFormLoading(true) and
\* getOrRefreshFormToken.  At most one chain is in flight: the order leaves
\* draft and need_resubmit only through the form.
FormEffect ==
    /\ <<NeedsShippingForm, cache>> # effDeps
    /\ effDeps' = <<NeedsShippingForm, cache>>
    /\ IF NeedsShippingForm
       THEN formLoading' = TRUE /\ formReq' = "token"
       ELSE UNCHANGED <<formLoading, formReq>>
    /\ UNCHANGED <<server, query, formToken, formData, inv, ivars>>

\* GetOrRefreshFormToken answers: a token while the order is draft or
\* need_resubmit (then setFormToken and getFormInfo), or 400/500, which the
\* catch logs; finally setFormLoading(false).  Nothing retries.
FormTokenRespond ==
    /\ formReq = "token"
    /\ \/ /\ srv \in {"draft", "need_resubmit"}
          /\ formToken' = TRUE /\ formReq' = "info"
          /\ UNCHANGED formLoading
       \/ /\ formReq' = "none" /\ formLoading' = FALSE
          /\ UNCHANGED formToken
    /\ UNCHANGED <<server, query, effDeps, formData, inv, ivars>>

\* getFormInfo answers: setFormData, or the error is logged.
FormInfoRespond ==
    /\ formReq = "info"
    /\ formData' \in {formData, TRUE}
    /\ formReq' = "none" /\ formLoading' = FALSE
    /\ UNCHANGED <<server, query, effDeps, formToken, inv, ivars>>

\* ShippingForm submitted (the order becomes pending_payment), then
\* handleFormSuccess: setFormToken(null), setFormData(null), refetch().
SubmitForm ==
    /\ FormShown /\ srv \in {"draft", "need_resubmit"}
    /\ srv' = "pending_payment"
    /\ formToken' = FALSE /\ formData' = FALSE /\ Refetch
    /\ UNCHANGED <<virtualOnly, invoiceCfg, cache, selected, refresh,
                   effDeps, formReq, formLoading, inv, ivars>>

-----------------------------------------------------------------------------
(* The invoice button and the tabs it opens.                               *)

\* handleDownloadInvoice, offered when invoice_enabled and completed:
\* return if invoiceLoading; setInvoiceLoading(true); getInvoiceToken.  A
\* 400 (invoices disabled) is answered at once and the finally clears
\* invoiceLoading.  Every tab is taken once (the bound on downloads).
Download ==
    /\ invoiceCfg /\ cache = "completed" /\ ~invoiceLoading /\ opened # Tabs
    /\ Inv!StartGet(Page)
    /\ invoiceLoading' = enabled
    /\ UNCHANGED <<server, query, form, tabTok, opened>>

\* A step of the page's GetInvoiceToken request.  When it answers: with a
\* token, window.open on the download URL; finally setInvoiceLoading(false).
PageGetStep ==
    /\ invoiceLoading
    /\ Inv!GetCheck(Page) \/ Inv!GetNew(Page) \/ Inv!GetSetPending(Page)
    /\ IF pc'[Page] = "idle"
       THEN /\ invoiceLoading' = FALSE
            /\ IF pc[Page] \in {"g_check", "g_pending"}
               THEN \E x \in Tabs \ opened :
                      /\ opened' = opened \cup {x}
                      /\ tabTok' = [tabTok EXCEPT ![x] = tok'[Page]]
               ELSE UNCHANGED <<tabTok, opened>>
       ELSE UNCHANGED <<invoiceLoading, tabTok, opened>>
    /\ UNCHANGED <<server, query, form>>

\* The new tab requests /api/user/invoice/<token>: ViewInvoiceByToken.
TabView(x) ==
    /\ tabTok[x] # NoToken
    /\ Inv!ViewGet(x)
    /\ IF dl[tabTok[x]] THEN pc'[x] = "v_del" /\ tok'[x] = tabTok[x] ELSE pc'[x] = "idle"
    /\ tabTok' = [tabTok EXCEPT ![x] = NoToken]
    /\ UNCHANGED <<server, query, form, invoiceLoading, opened>>

TabStep(x) ==
    /\ Inv!ViewDel(x) \/ Inv!ViewFinish(x)
    /\ UNCHANGED <<server, query, form, inv>>

-----------------------------------------------------------------------------
(* The rest of the system.                                                 *)

\* The payment callback, the auto-cancel sweep or the user's cancel, and
\* delivery change the order's status.
ServerStep ==
    /\ \E t \in {<<"pending_payment", "paid">>, <<"pending_payment", "cancelled">>,
                 <<"paid", "completed">>} :
         srv = t[1] /\ srv' = t[2]
    /\ UNCHANGED <<virtualOnly, invoiceCfg, query, form, inv, ivars>>

\* Redis TTLs and the invoice setting.
InvoiceEnv ==
    /\ (\E t \in Tokens : Inv!ExpireDl(t)) \/ Inv!ExpirePending \/ Inv!ConfigChange
    /\ UNCHANGED <<server, query, form, inv>>

Next ==
    \/ FetchServe \/ FetchStore \/ Poll \/ Focus \/ StopPolling
    \/ RefreshParam \/ SelectPayment
    \/ FormEffect \/ FormTokenRespond \/ FormInfoRespond \/ SubmitForm
    \/ Download \/ PageGetStep
    \/ \E x \in Tabs : TabView(x) \/ TabStep(x)
    \/ ServerStep \/ InvoiceEnv

Spec == Init /\ [][Next]_vars

\* The browser runs the interval, the effects and the requests; the server
\* answers.  The user, the rest of the system and Redis get no fairness.
FairSpec ==
    /\ Spec
    /\ WF_vars(FetchServe) /\ WF_vars(FetchStore) /\ WF_vars(Poll)
    /\ WF_vars(StopPolling) /\ WF_vars(FormEffect)
    /\ WF_vars(FormTokenRespond) /\ WF_vars(FormInfoRespond) /\ WF_vars(PageGetStep)
    /\ \A x \in Tabs : WF_vars(TabView(x)) /\ WF_vars(TabStep(x))

-----------------------------------------------------------------------------
(* Properties.                                                             *)

\* Once the user has picked a payment method and the order has left
\* pending_payment on the server (paid, or cancelled by the sweep), the page
\* eventually shows a status other than pending_payment: the 5 s polling
\* stops only after the page has seen the change.  Each onPaymentSelected
\* restarts the fetch (refetch), so the user is taken to stop picking
\* methods at some point.
PaymentResultShown ==
    <>[][~SelectPayment]_vars =>
        [](selected /\ srv # "pending_payment" => <>(cache \notin {None, "pending_payment"}))

=============================================================================
