------------------------ MODULE MCPaymentMethodsPage ------------------------
(* Two payment methods: enough for a toggle of one racing a delete or an   *)
(* initialisation of the other, and for a reorder.                         *)
(*                                                                         *)
(* One translated business error key, whose template names two params,    *)
(* and the errors a handler may hand to HandleError: the key with both     *)
(* params, a key the locale does not translate (its message shows), and   *)
(* a database error.                                                       *)
EXTENDS PaymentMethodsPage

CONSTANTS m1, m2, none, noParams

\* The segment and error constructors, from an instance that does not
\* depend on the templates defined with them.
Seg == INSTANCE ApiResponse WITH Templates <- <<>>, NoParams <- noParams

MCTemplates ==
    [limit |-> <<Seg!Ph("product"), Seg!Lit(" limited to "), Seg!Ph("limit")>>]

MCFailures ==
    { Seg!WithParams(Seg!New("limit", "Purchase limit reached"), [product |-> "p1", limit |-> "5"]),
      Seg!New("unknown", "Payment method is in use"),
      [biz |-> FALSE, detail |-> "pq: connection refused"] }

=============================================================================
