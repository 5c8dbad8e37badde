--------------------------- MODULE OrderLifecycle ---------------------------
(***************************************************************************)
(* What the Lifecycle Reconciler, payment and delivery promise about one   *)
(* order and what it holds (spec sections 3, 4.1 and 4.5), with no sweeps, *)
(* ticks or statements:                                                    *)
(*   - an order awaiting payment is either paid or cancelled, once;        *)
(*   - only a cancelled order gives back what it holds, in any number of   *)
(*     steps, some of which may never happen (a failed release is a        *)
(*     logged leak, not a rollback);                                       *)
(*   - only a paid order's reserved stock units become sold, and a sold    *)
(*     unit stays sold.                                                    *)
(* Claims are what an order holds other than stock units: physical         *)
(* reservations, the promo code reservation, serial numbers.               *)
(***************************************************************************)

CONSTANTS
    Orders,
    Units,        \* stock units (virtual stock rows)
    Claims        \* other held resources, tagged records

VARIABLES
    ostatus,      \* [Orders -> {"pending_payment", "paid", "cancelled"}]
    claims,       \* [Orders -> SUBSET Claims]: claims still held
    units,        \* [Orders -> SUBSET Units]: units still reserved for the order
    sold          \* units delivered

avars == <<ostatus, claims, units, sold>>

Init ==
    /\ ostatus = [o \in Orders |-> "pending_payment"]
    /\ claims \in [Orders -> SUBSET Claims]
    /\ units \in [Orders -> SUBSET Units]
    /\ sold = {}

\* The order gives back any part of what it still holds.
GiveBack(o) ==
    \E c \in SUBSET claims[o], u \in SUBSET units[o] :
        /\ claims' = [claims EXCEPT ![o] = c]
        /\ units' = [units EXCEPT ![o] = u]

Pay(o) ==
    /\ ostatus[o] = "pending_payment"
    /\ ostatus' = [ostatus EXCEPT ![o] = "paid"]
    /\ UNCHANGED <<claims, units, sold>>

\* The status flips; a cancellation that releases in the same step (the
\* user path) gives back some of its holdings at once.
Cancel(o) ==
    /\ ostatus[o] = "pending_payment"
    /\ ostatus' = [ostatus EXCEPT ![o] = "cancelled"]
    /\ GiveBack(o)
    /\ UNCHANGED sold

Release(o) ==
    /\ ostatus[o] = "cancelled"
    /\ GiveBack(o)
    /\ UNCHANGED <<ostatus, sold>>

Deliver(o) ==
    /\ ostatus[o] = "paid"
    /\ \E u \in SUBSET units[o] \ {{}} :
         /\ units' = [units EXCEPT ![o] = @ \ u]
         /\ sold' = sold \cup u
    /\ UNCHANGED <<ostatus, claims>>

Next == \E o \in Orders : Pay(o) \/ Cancel(o) \/ Release(o) \/ Deliver(o)

Spec == Init /\ [][Next]_avars

=============================================================================
