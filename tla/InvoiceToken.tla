---------------------------- MODULE InvoiceToken ----------------------------
(***************************************************************************)
(* One-time invoice download tokens (OrderHandler.GetInvoiceToken and      *)
(* ViewInvoiceByToken, order_cancel_service.go).  For one user and one     *)
(* completed order, GetInvoiceToken reads invoice_pending:<user>:<order>   *)
(* and returns that token if invoice_dl:<token> still exists; otherwise it *)
(* draws a fresh random token and sets invoice_dl:<token> then the pending *)
(* key, both with a 60 s TTL.  ViewInvoiceByToken reads invoice_dl:<token>,*)
(* deletes it, deletes the pending key, and renders the invoice.  Every    *)
(* Redis call is a separate round trip: handler goroutines interleave      *)
(* between them.                                                           *)
(***************************************************************************)
EXTENDS Naturals, FiniteSets

CONSTANTS
    Procs,        \* concurrent HTTP handler goroutines
    Tokens,       \* the random tokens crand can produce in a run (fresh each time)
    NoToken,      \* the empty string / a missing key
    CacheFaults   \* whether a Redis call may fail

ASSUME CacheFaults \in BOOLEAN /\ NoToken \notin Tokens

VARIABLES
    dl,           \* [Tokens -> BOOLEAN]: invoice_dl:<token> exists
    pending,      \* value of invoice_pending:<user>:<order>, or NoToken
    issued,       \* tokens drawn so far
    known,        \* tokens returned to the client
    renders,      \* [Tokens -> Nat]: invoices rendered with the token
    enabled,      \* cfg.Order.Invoice.Enabled
    pc,           \* [Procs -> step of the handler the goroutine is in]
    tok           \* [Procs -> the token the handler is working on]

vars == <<dl, pending, issued, known, renders, enabled, pc, tok>>

GetPCs  == {"g_check", "g_new", "g_pending"}
ViewPCs == {"v_del", "v_finish"}

\* A Redis call's outcome: success, or (with faults) an error.
Outcomes == IF CacheFaults THEN {TRUE, FALSE} ELSE {TRUE}

\* Render counts are kept up to RenderCap: the properties tell 0, 1 and
\* "more than once" apart.
RenderCap == 2
Saturate(n) == IF n > RenderCap THEN RenderCap ELSE n

TypeOK ==
    /\ dl \in [Tokens -> BOOLEAN]
    /\ pending \in Tokens \cup {NoToken}
    /\ issued \subseteq Tokens /\ known \subseteq issued
    /\ renders \in [Tokens -> 0..RenderCap]
    /\ enabled \in BOOLEAN
    /\ pc \in [Procs -> {"idle"} \cup GetPCs \cup ViewPCs]
    /\ \A p \in Procs : pc[p] \in {"g_check", "g_pending"} \cup ViewPCs => tok[p] \in Tokens

Init ==
    /\ dl = [t \in Tokens |-> FALSE]
    /\ pending = NoToken
    /\ issued = {}
    /\ known = {}
    /\ renders = [t \in Tokens |-> 0]
    /\ enabled \in BOOLEAN
    /\ pc = [p \in Procs |-> "idle"]
    /\ tok = [p \in Procs |-> NoToken]

Respond(p) == pc' = [pc EXCEPT ![p] = "idle"]
Goto(p, l) == pc' = [pc EXCEPT ![p] = l]

-----------------------------------------------------------------------------
(* GetInvoiceToken.                                                        *)

\* Mutant: the existingToken != "" test dropped.
StartGetNoEmptyCheck(p) ==
    /\ pc[p] = "idle"
    /\ Cardinality(issued) + Cardinality({q \in Procs : pc[q] \in GetPCs}) < Cardinality(Tokens)
    /\ \/ /\ ~enabled
          /\ UNCHANGED <<pc, tok>>
       \/ /\ enabled
          /\ tok' = [tok EXCEPT ![p] = pending]
          /\ Goto(p, "g_check")
    /\ UNCHANGED <<dl, pending, issued, known, renders, enabled>>

\* The request checks (enabled, owner, completed), then Get(pendingKey);
\* a miss, an error or an empty value goes on to draw a new token.  The
\* token supply bound keeps a fresh token available to every Get in flight.
StartGet(p) ==
    /\ pc[p] = "idle"
    /\ Cardinality(issued) + Cardinality({q \in Procs : pc[q] \in GetPCs}) < Cardinality(Tokens)
    /\ \/ /\ ~enabled
          /\ UNCHANGED <<pc, tok>>                   \* 400, not enabled
       \/ /\ enabled
          /\ \E ok \in Outcomes :
               IF ok /\ pending # NoToken
               THEN /\ tok' = [tok EXCEPT ![p] = pending]
                    /\ Goto(p, "g_check")
               ELSE /\ Goto(p, "g_new")
                    /\ UNCHANGED tok
    /\ UNCHANGED <<dl, pending, issued, known, renders, enabled>>

\* Mutant: the pending token is never reused.
GetCheckAlwaysNew(p) ==
    /\ pc[p] = "g_check"
    /\ Goto(p, "g_new")
    /\ UNCHANGED <<dl, pending, issued, known, renders, enabled, tok>>

\* Get("invoice_dl:" + existingToken): still there, so return it.
GetCheck(p) ==
    /\ pc[p] = "g_check"
    /\ \E ok \in Outcomes :
         IF ok /\ dl[tok[p]]
         THEN /\ known' = known \cup {tok[p]}
              /\ Respond(p)
         ELSE /\ Goto(p, "g_new")
              /\ UNCHANGED known
    /\ UNCHANGED <<dl, pending, issued, renders, enabled, tok>>

\* A fresh random token; Set(dlKey, 60 s).  An error answers 500.
GetNew(p) ==
    /\ pc[p] = "g_new"
    /\ \E t \in Tokens \ issued, ok \in Outcomes :
         /\ issued' = issued \cup {t}
         /\ tok' = [tok EXCEPT ![p] = t]
         /\ IF ok
            THEN /\ dl' = [dl EXCEPT ![t] = TRUE]
                 /\ Goto(p, "g_pending")
            ELSE /\ Respond(p)
                 /\ UNCHANGED dl
    /\ UNCHANGED <<pending, known, renders, enabled>>

\* _ = Set(pendingKey, token, 60 s): its error is ignored; the token is
\* returned either way.
GetSetPending(p) ==
    /\ pc[p] = "g_pending"
    /\ \E ok \in Outcomes : pending' = IF ok THEN tok[p] ELSE pending
    /\ known' = known \cup {tok[p]}
    /\ Respond(p)
    /\ UNCHANGED <<dl, issued, renders, enabled, tok>>

-----------------------------------------------------------------------------
(* ViewInvoiceByToken, called with any token the client holds.             *)

\* Get(key): a miss or an error answers 401.
ViewGet(p) ==
    /\ pc[p] = "idle"
    /\ \E t \in known, ok \in Outcomes :
         IF ok /\ dl[t]
         THEN /\ tok' = [tok EXCEPT ![p] = t]
              /\ Goto(p, "v_del")
         ELSE UNCHANGED <<pc, tok>>
    /\ UNCHANGED <<dl, pending, issued, known, renders, enabled>>

\* Mutant: the Del of the download key is missing.
ViewDelMissing(p) ==
    /\ pc[p] = "v_del"
    /\ Goto(p, "v_finish")
    /\ UNCHANGED <<dl, pending, issued, known, renders, enabled, tok>>

\* _ = Del(key): its error is ignored.
ViewDel(p) ==
    /\ pc[p] = "v_del"
    /\ \E ok \in Outcomes : dl' = IF ok THEN [dl EXCEPT ![tok[p]] = FALSE] ELSE dl
    /\ Goto(p, "v_finish")
    /\ UNCHANGED <<pending, issued, known, renders, enabled, tok>>

\* _ = Del(pendingKey), whichever token it names; then the enabled check,
\* the order lookup (owner, completed) and the template: an error of any of
\* them answers without an invoice.
ViewFinish(p) ==
    /\ pc[p] = "v_finish"
    /\ \E ok \in Outcomes : pending' = IF ok THEN NoToken ELSE pending
    /\ \/ /\ enabled
          /\ renders' = [renders EXCEPT ![tok[p]] = Saturate(@ + 1)]
       \/ UNCHANGED renders                           \* disabled, DB or template error
    /\ Respond(p)
    /\ UNCHANGED <<dl, issued, known, enabled, tok>>

-----------------------------------------------------------------------------
(* Redis TTLs and the configuration.                                       *)

\* invoice_dl:<token> expires 60 s after it was set.  The handler that set it
\* has answered long before.
ExpireDl(t) ==
    /\ dl[t]
    /\ \A p \in Procs : pc[p] \in {"g_pending"} => tok[p] # t
    /\ dl' = [dl EXCEPT ![t] = FALSE]
    /\ UNCHANGED <<pending, issued, known, renders, enabled, pc, tok>>

\* The pending key is set after the download key with the same TTL: it
\* expires once that key is gone.
ExpirePending ==
    /\ pending # NoToken
    /\ ~dl[pending]
    /\ pending' = NoToken
    /\ UNCHANGED <<dl, issued, known, renders, enabled, pc, tok>>

ConfigChange ==
    /\ enabled' = ~enabled
    /\ UNCHANGED <<dl, pending, issued, known, renders, pc, tok>>

Next ==
    \/ \E p \in Procs :
         \/ StartGet(p) \/ GetCheck(p) \/ GetNew(p) \/ GetSetPending(p)
         \/ ViewGet(p) \/ ViewDel(p) \/ ViewFinish(p)
    \/ \E t \in Tokens : ExpireDl(t)
    \/ ExpirePending
    \/ ConfigChange

Spec == Init /\ [][Next]_vars

-----------------------------------------------------------------------------
(* Properties.                                                             *)

\* "单次使用" (GetInvoiceToken's and ViewInvoiceByToken's comments): each
\* download token renders the invoice at most once.
SingleUse == \A t \in Tokens : renders[t] <= 1

\* "防止重复生成" (line 825): while a download token is unconsumed and
\* unexpired, GetInvoiceToken hands that one out instead of creating another,
\* so at most one download key of the order is live.
OneLiveToken == Cardinality({t \in Tokens : dl[t]}) <= 1


=============================================================================
