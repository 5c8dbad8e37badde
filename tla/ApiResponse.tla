----------------------------- MODULE ApiResponse -----------------------------
(***************************************************************************)
(* How a failed request reaches the admin as a toast: the backend's        *)
(* bizerr.Error (internal/pkg/bizerr/bizerr.go), the response package's    *)
(* HandleError, BizError and InternalServerError (concatenated into        *)
(* internal/models/log.go, lines 107-319), and the frontend's              *)
(* translateBizError (lib/i18n/index.ts) with the onError branch the       *)
(* payment methods page runs on every mutation error.                      *)
(*                                                                         *)
(* Strings are abstracted to what a toast can show: a literal of a         *)
(* template, a parameter value, a placeholder left as "{name}", a message  *)
(* or a raw error key.  A template is a sequence of literal and            *)
(* placeholder segments, as /\{(\w+)\}/g splits it.  A Go error is a       *)
(* record: a *bizerr.Error (biz) or any other error, whose text (detail)   *)
(* only the server log may see.                                            *)
(***************************************************************************)
EXTENDS Naturals, Sequences

CONSTANTS
    Templates,    \* t.cart.bizError: [translated keys -> template]
    NoParams      \* a nil Params map, encoded by BizError as JSON null

Lit(s) == [k |-> "lit", v |-> s]
Ph(n)  == [k |-> "ph",  v |-> n]
Val(x) == [k |-> "val", v |-> x]
Raw(s) == [k |-> "raw", v |-> s]   \* a message or key shown as it is

\* bizerr.New(key, message) and WithParams(params), which sets e.Params.
New(key, message)    == [biz |-> TRUE, key |-> key, message |-> message, params |-> NoParams]
WithParams(e, p)     == [e EXCEPT !.params = p]

\* BizError: HTTP 400, code 40010, the message and data {error_key, params}.
BizError(message, key, params) ==
    [code |-> 40010, message |-> message, data |-> [error_key |-> key, params |-> params]]

\* InternalServerError: the error is logged; the client gets userMessage,
\* or "Internal server error" when it is empty.
InternalServerError(userMessage) ==
    [code |-> 50001, data |-> NoParams,
     message |-> IF userMessage = "" THEN "Internal server error" ELSE userMessage]

\* HandleError: errors.As(err, &bizErr) picks the business branch.
HandleError(fallbackMsg, err) ==
    IF err.biz THEN BizError(err.message, err.key, err.params)
               ELSE InternalServerError(fallbackMsg)

\* Mutant: a replace without the g flag fills only the first placeholder.
InterpolateFirst(template, params) ==
    LET first == CHOOSE i \in DOMAIN template \cup {0} :
                     i = 0 \/ (template[i].k = "ph" /\ \A j \in 1..(i - 1) : template[j].k # "ph")
    IN  [i \in DOMAIN template |->
            IF i = first /\ template[i].v \in DOMAIN params THEN Val(params[template[i].v])
            ELSE template[i]]

\* template.replace(/\{(\w+)\}/g, ...): every placeholder whose name the
\* params define becomes String(params[key]); the others stay "{key}".
Interpolate(template, params) ==
    [i \in DOMAIN template |->
        IF template[i].k = "ph" /\ template[i].v \in DOMAIN params
        THEN Val(params[template[i].v]) ELSE template[i]]

\* translateBizError(t, errorKey, params, fallbackMessage)
TranslateBizError(errorKey, params, fallbackMessage) ==
    IF errorKey \notin DOMAIN Templates
    THEN <<Raw(IF fallbackMessage # "" THEN fallbackMessage ELSE errorKey)>>
    ELSE IF params = NoParams THEN Templates[errorKey]
    ELSE Interpolate(Templates[errorKey], params)

\* A mutation's onError: error.code === 40010 && error.data?.error_key
\* translates; anything else shows error.message || t.admin.operationFailed.
\* The api client rejects with the response body's code, message and data.
ErrorToast(res) ==
    IF res.code = 40010 /\ res.data.error_key # ""
    THEN TranslateBizError(res.data.error_key, res.data.params, res.message)
    ELSE <<Raw(IF res.message # "" THEN res.message ELSE "operationFailed")>>

=============================================================================
