------------------------- MODULE PaymentMethodsPage -------------------------
(***************************************************************************)
(* PaymentMethodsPage (the payment method list concatenated into           *)
(* app/(admin)/admin/inventories/[id]/virtual/page.tsx, lines 1106-1819)   *)
(* against the payment methods on the server.                              *)
(*                                                                         *)
(* One React Query query, ['paymentMethods'], holds the list; the page     *)
(* removes it on mount and fetches it again.  The enable switch is an      *)
(* optimistic mutation (onMutate cancels the fetch in flight, snapshots    *)
(* and flips the cached row; onError rolls back; onSettled invalidates).   *)
(* A drag and drop writes the new order into the cache and sends it, with  *)
(* neither a cancel before nor an invalidation after success.  Create,     *)
(* update, delete and the built-in initialisation invalidate on success.   *)
(* invalidateQueries refetches and cancels the fetch in flight; a window   *)
(* focus refetch (React Query's default) joins it instead.                 *)
(*                                                                         *)
(* Every mutation's onError toasts the error the server's handler answered *)
(* with; ApiResponse models that encoding and its translation.             *)
(*                                                                         *)
(* A method is a model value; what the list shows of it is its position   *)
(* and its enabled flag.  Names, icons, scripts and configs are left out:  *)
(* no property tells them apart.  The server's handlers are not under src/ *)
(* and follow the API the page calls; they are assumed to answer errors   *)
(* through response.HandleError, the format onError expects.               *)
(***************************************************************************)
EXTENDS Naturals, Sequences, FiniteSets, SequencesExt

CONSTANTS
    Methods,      \* payment method ids
    None,         \* no cached data / no snapshot
    MaxOps,       \* bound on the admin's requests
    Templates, NoParams,   \* see ApiResponse
    Failures,     \* the errors a handler may fail with, as HandleError gets them
    FallbackMsg   \* the handlers' fallbackMsg for HandleError

VARIABLES
    srvOrder,     \* the server's methods by sort_order: a sequence of ids
    srvEn,        \* [Methods -> BOOLEAN]: the server's enabled flags
    cache,        \* None | the cached items: a sequence of [id, en]
    fetch,        \* Idle | Sent | Served(items): the list fetch in flight
    reqs,         \* mutation requests in flight, records tagged by kind
    formPending,  \* createMutation.isPending || updateMutation.isPending
    ops,          \* admin requests made, also the id of the next request
    toast         \* None | the last error toast: the error and what it shows

vars == <<srvOrder, srvEn, cache, fetch, reqs, formPending, ops, toast>>

Api == INSTANCE ApiResponse

Idle       == [st |-> "idle"]
Sent       == [st |-> "sent"]
Served(a)  == [st |-> "served", ans |-> a]

\* GET /payment-methods: the methods in sort order with their flags.
Answer == [i \in 1..Len(srvOrder) |-> [id |-> srvOrder[i], en |-> srvEn[srvOrder[i]]]]

Ids(items) == [i \in DOMAIN items |-> items[i].id]
Present    == ToSet(srvOrder)

\* The orders the server can hold: each present method once.
Arrangements == {s \in SeqOf(Methods, Cardinality(Methods)) : IsInjective(s)}

\* onError of every mutation: the server's handler answers the failure
\* through response.HandleError, and the page toasts what ErrorToast makes
\* of the response.
ShowError ==
    \E e \in Failures :
        toast' = [err |-> e, shown |-> Api!ErrorToast(Api!HandleError(FallbackMsg, e))]

\* queryClient.invalidateQueries: refetch, cancelling the fetch in flight.
Invalidate == fetch' = Sent

\* A mutation request of the given kind, for method m, with its data (the
\* toggle's snapshot, the reorder's ids), numbered by ops.
Request(kind, m, d) == [kind |-> kind, id |-> ops, m |-> m, data |-> d]

\* mutate(): the request goes out; the admin's budget shrinks.
Send(kind, m, d) == reqs' = reqs \cup {Request(kind, m, d)} /\ ops' = ops + 1

TypeOK ==
    /\ srvOrder \in Arrangements
    /\ srvEn \in [Methods -> BOOLEAN]
    /\ cache = None \/ ToSet(Ids(cache)) \subseteq Methods
    /\ fetch \in {Idle, Sent} \/ fetch.st = "served"
    /\ \A r \in reqs : r.kind \in {"create", "update", "delete", "init", "toggle", "reorder"}
    /\ formPending \in BOOLEAN /\ ops \in 0..MaxOps
    /\ toast = None \/ (toast.err \in Failures /\ toast.shown \in Seq([k : {"lit", "ph", "val", "raw"}, v : STRING]))

Loaded == cache # None   \* isLoading is over: the list and its buttons show

\* The page mounts: removeQueries, then the query fetches (isLoading).  The
\* server holds any methods in any order with any flags.
Init ==
    /\ srvOrder \in Arrangements
    /\ srvEn \in [Methods -> BOOLEAN]
    /\ cache = None /\ fetch = Sent
    /\ reqs = {} /\ formPending = FALSE /\ ops = 0 /\ toast = None

-----------------------------------------------------------------------------
(* The list query.                                                         *)

FetchServe ==
    /\ fetch = Sent
    /\ fetch' = Served(Answer)
    /\ UNCHANGED <<srvOrder, srvEn, cache, reqs, formPending, ops, toast>>

FetchStore ==
    /\ fetch.st = "served"
    /\ cache' = fetch.ans /\ fetch' = Idle
    /\ UNCHANGED <<srvOrder, srvEn, reqs, formPending, ops, toast>>

\* The window regains focus: the stale query refetches, joining a fetch
\* already in flight.
Focus ==
    /\ Loaded /\ fetch = Idle
    /\ fetch' = Sent
    /\ UNCHANGED <<srvOrder, srvEn, cache, reqs, formPending, ops, toast>>

-----------------------------------------------------------------------------
(* The enable switch: toggleMutation.                                      *)

Flip(items, m) == [i \in DOMAIN items |-> IF items[i].id = m
                                          THEN [items[i] EXCEPT !.en = ~@] ELSE items[i]]

\* onCheckedChange -> mutate(id); onMutate: cancelQueries, snapshot
\* previousData, setQueryData with the row flipped.
Toggle(m) ==
    /\ Loaded /\ ops < MaxOps /\ m \in ToSet(Ids(cache))
    /\ fetch' = Idle
    /\ cache' = Flip(cache, m)
    /\ Send("toggle", m, cache)
    /\ UNCHANGED <<srvOrder, srvEn, formPending, toast>>

\* Mutant: toggleMutation without onSettled: no refetch after the answer.
ToggleRespondNoSettle(r) ==
    /\ r \in reqs /\ r.kind = "toggle"
    /\ reqs' = reqs \ {r}
    /\ \/ r.m \in Present /\ srvEn' = [srvEn EXCEPT ![r.m] = ~@] /\ UNCHANGED <<cache, toast>>
       \/ UNCHANGED srvEn /\ cache' = r.data /\ ShowError
    /\ UNCHANGED <<srvOrder, fetch, formPending, ops>>

\* The server flips the flag of a method it has, or answers an error;
\* onError restores the snapshot; onSettled invalidates either way.
ToggleRespond(r) ==
    /\ r \in reqs /\ r.kind = "toggle"
    /\ reqs' = reqs \ {r}
    /\ \/ r.m \in Present /\ srvEn' = [srvEn EXCEPT ![r.m] = ~@] /\ UNCHANGED <<cache, toast>>
       \/ UNCHANGED srvEn /\ cache' = r.data /\ ShowError
    /\ Invalidate
    /\ UNCHANGED <<srvOrder, formPending, ops>>

-----------------------------------------------------------------------------
(* Drag and drop: onDragEnd and reorderMutation.                           *)

\* Mutant: the moved row is inserted without reordered.splice(from, 1).
MoveNoRemove(items, from, to) == InsertAt(items, to, items[from])

\* reordered.splice(from, 1); reordered.splice(to, 0, moved)
Move(items, from, to) == InsertAt(RemoveAt(items, from), to, items[from])

\* onDragEnd with dragIndex and overIndex set and different: the new order
\* goes into the cache and to the server; the fetch in flight is left.
DragEnd(from, to) ==
    /\ Loaded /\ ops < MaxOps
    /\ from \in DOMAIN cache /\ to \in DOMAIN cache /\ from # to
    /\ cache' = Move(cache, from, to)
    /\ Send("reorder", None, Ids(Move(cache, from, to)))
    /\ UNCHANGED <<srvOrder, srvEn, fetch, formPending, toast>>

\* The server takes the order when it names exactly its methods.  Success
\* does nothing more; onError invalidates.
ReorderRespond(r) ==
    /\ r \in reqs /\ r.kind = "reorder"
    /\ reqs' = reqs \ {r}
    /\ \/ ToSet(r.data) = Present /\ srvOrder' = r.data /\ UNCHANGED <<fetch, toast>>
       \/ UNCHANGED srvOrder /\ Invalidate /\ ShowError
    /\ UNCHANGED <<srvEn, cache, formPending, ops>>

-----------------------------------------------------------------------------
(* Create, update, delete and the built-in methods.                        *)

\* handleSubmit from the create or edit dialog (openEdit on a listed
\* method): flush the ConfigEditor, then createMutation or updateMutation;
\* the submit button is disabled while either is pending.
SubmitCreate ==
    /\ Loaded /\ ops < MaxOps /\ ~formPending
    /\ formPending' = TRUE
    /\ Send("create", None, None)
    /\ UNCHANGED <<srvOrder, srvEn, cache, fetch, toast>>

SubmitUpdate(m) ==
    /\ Loaded /\ ops < MaxOps /\ ~formPending /\ m \in ToSet(Ids(cache))
    /\ formPending' = TRUE
    /\ Send("update", m, None)
    /\ UNCHANGED <<srvOrder, srvEn, cache, fetch, toast>>

\* The trash button sets deleteId; the AlertDialog action mutates and
\* closes.  The init button is never disabled.
ConfirmDelete(m) ==
    /\ Loaded /\ ops < MaxOps /\ m \in ToSet(Ids(cache))
    /\ Send("delete", m, None)
    /\ UNCHANGED <<srvOrder, srvEn, cache, fetch, formPending, toast>>

InitBuiltin ==
    /\ Loaded /\ ops < MaxOps
    /\ Send("init", None, None)
    /\ UNCHANGED <<srvOrder, srvEn, cache, fetch, formPending, toast>>

\* What a successful write does on the server: a new method goes last,
\* enabled; a deleted one leaves the order; the built-in initialisation
\* adds the methods the server lacks; an update changes fields the list
\* does not tell apart.
Applied(r) ==
    CASE r.kind = "create" ->
           \E m \in Methods \ Present : srvOrder' = Append(srvOrder, m) /\ srvEn' = [srvEn EXCEPT ![m] = TRUE]
      [] r.kind = "delete" -> r.m \in Present /\ srvOrder' = Remove(srvOrder, r.m) /\ UNCHANGED srvEn
      [] r.kind = "update" -> r.m \in Present /\ UNCHANGED <<srvOrder, srvEn>>
      [] r.kind = "init" ->
           \E s \in Arrangements :
               /\ ToSet(s) = Methods \ Present
               /\ srvOrder' = srvOrder \o s /\ srvEn' = [m \in Methods |-> IF m \in Present THEN srvEn[m] ELSE TRUE]

\* onSuccess invalidates (and closes the dialog); onError only toasts.
WriteRespond(r) ==
    /\ r \in reqs /\ r.kind \in {"create", "update", "delete", "init"}
    /\ reqs' = reqs \ {r}
    /\ formPending' = (formPending /\ r.kind \notin {"create", "update"})
    /\ \/ Applied(r) /\ Invalidate /\ UNCHANGED toast
       \/ UNCHANGED <<srvOrder, srvEn, fetch>> /\ ShowError
    /\ UNCHANGED <<cache, ops>>

-----------------------------------------------------------------------------

Next ==
    \/ FetchServe \/ FetchStore \/ Focus
    \/ \E m \in Methods : Toggle(m) \/ SubmitUpdate(m) \/ ConfirmDelete(m)
    \/ \E from, to \in 1..Cardinality(Methods) : DragEnd(from, to)
    \/ SubmitCreate \/ InitBuiltin
    \/ \E r \in reqs : ToggleRespond(r) \/ ReorderRespond(r) \/ WriteRespond(r)

Spec == Init /\ [][Next]_vars

\* Requests complete and fetched lists reach the cache without further
\* input; the admin and the window focus owe nothing.
FairSpec ==
    /\ Spec
    /\ WF_vars(FetchServe) /\ WF_vars(FetchStore)
    /\ \A i \in 0..MaxOps :
         WF_vars(\E r \in reqs : r.id = i /\ (ToggleRespond(r) \/ ReorderRespond(r) \/ WriteRespond(r)))

-----------------------------------------------------------------------------
(* Properties.                                                             *)

\* Once the admin stops, the list the page shows settles on the server's
\* methods with the server's enabled flags, whatever order the toggle
\* answers, rollbacks, writes and fetches took: each toggle's onSettled and
\* each write's onSuccess refetch after the server changed, and the
\* toggle's cancelQueries keeps an older answer out of the cache.
EnabledConverges ==
    <>[](/\ Loaded
         /\ ToSet(Ids(cache)) = Present
         /\ \A i \in DOMAIN cache : cache[i].en = srvEn[cache[i].id])

\* A failed write's toast explains the error the handler failed with, across
\* HandleError's encoding and translateBizError's decoding: an internal
\* error's own text never reaches the page (only the log); a translated
\* business error with params shows no placeholder the params define; and
\* the raw error key shows only when the locale lacks it and the error has
\* no message.
ToastExplainsError ==
    toast # None =>
        LET e     == toast.err
            shown == {toast.shown[i] : i \in DOMAIN toast.shown}
        IN  /\ ~e.biz => Api!Raw(e.detail) \notin shown
            /\ e.biz /\ e.key \in DOMAIN Templates /\ e.params # NoParams =>
                   \A s \in shown : s.k = "ph" => s.v \notin DOMAIN e.params
            /\ e.biz /\ Api!Raw(e.key) \in shown =>
                   e.key \notin DOMAIN Templates /\ e.message = ""

\* The same for the order: the drag and drop's optimistic order is what the
\* server keeps.  A reorder that succeeds is never refetched, so a list
\* fetched before it and stored after it stays in the older order.
OrderConverges == <>[](Loaded /\ Ids(cache) = srvOrder)

====
