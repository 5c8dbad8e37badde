--------------------------- MODULE DeliveryResult ---------------------------
(***************************************************************************)
(* ScriptDeliveryService.parseDeliveryResult (script_delivery_service.go): *)
(* the validation of the value onDeliver returned, as a pure operator, and *)
(* the contract of spec section 4.4 step 5 it must agree with.             *)
(*                                                                         *)
(* A JavaScript value is abstracted to what the validation tells apart:    *)
(* its kind; for an object the kind of its success, message and items      *)
(* fields; for an items array the kind of every entry's content.  Remarks  *)
(* and the content text itself never change the outcome and are left out. *)
(***************************************************************************)
EXTENDS Naturals, Sequences, FiniteSets

\* Kinds of a field read with a Go type assertion: "true"/"false" are JS
\* booleans, "text" a non-empty string, "empty" the empty string, "number"
\* any other non-string value, "absent" a missing key.
SuccessKinds == {"true", "false", "text", "absent"}
TextKinds    == {"text", "empty", "number", "absent"}

Entry(k, c) == [kind |-> k, content |-> c]
EntryValues == {Entry("scalar", "absent")} \cup
               {Entry("object", c) : c \in TextKinds}

ItemsField(k, s) == [kind |-> k, elems |-> s]
ItemsValues(maxLen) ==
    {ItemsField("absent", <<>>), ItemsField("text", <<>>)} \cup
    {ItemsField("array", s) :
        s \in UNION {[1..n -> EntryValues] : n \in 0..maxLen}}

JSValue(k, s, m, i) == [kind |-> k, success |-> s, message |-> m, items |-> i]

\* Every value onDeliver can return, with items arrays up to maxLen entries.
JSValues(maxLen) ==
    {JSValue(k, "absent", "absent", ItemsField("absent", <<>>)) :
        k \in {"undefined", "null", "scalar"}}
    \cup {JSValue("object", s, m, i) :
            s \in SuccessKinds, m \in TextKinds, i \in ItemsValues(maxLen)}

\* What ExecuteDeliveryScript returns: an error kind (or "none"), the
\* message of a failed delivery, and the number of items accepted.
Outcome(err, msg, n) == [err |-> err, message |-> msg, count |-> n]

-----------------------------------------------------------------------------
(* The implementation.                                                     *)

\* Mutant: entries are kept without the di.Content != "" filter.
RECURSIVE CountObjects(_)
CountObjects(s) ==
    IF s = <<>> THEN 0
    ELSE (IF Head(s).kind = "object" THEN 1 ELSE 0) + CountObjects(Tail(s))

\* The loop over items: an entry counts when it is a map whose "content"
\* asserts to a non-empty string.
RECURSIVE CountKept(_)
CountKept(s) ==
    IF s = <<>> THEN 0
    ELSE (IF Head(s).kind = "object" /\ Head(s).content = "text" THEN 1 ELSE 0)
         + CountKept(Tail(s))

ParseDeliveryResult(v) ==
    LET kept == IF v.items.kind = "array" THEN CountKept(v.items.elems) ELSE 0
    IN CASE v.kind \in {"undefined", "null"} -> Outcome("empty_result", "none", 0)
         [] v.kind # "object"                -> Outcome("not_object", "none", 0)
         [] v.success # "true"               ->
              Outcome("failed", IF v.message = "text" THEN "script" ELSE "default", 0)
         [] kept = 0                         -> Outcome("no_items", "none", 0)
         [] OTHER                            -> Outcome("none", "none", kept)

-----------------------------------------------------------------------------
(* The contract (spec 4.4 step 5 and section 7), stated independently.     *)

\* The spec's classes: accepted with n items, failed with the script's
\* message or the generic one, or InvalidScriptOutput.
Accepted(n)   == [class |-> "accepted", message |-> "none", count |-> n]
Failed(m)     == [class |-> "failed", message |-> m, count |-> 0]
InvalidOutput == [class |-> "invalid", message |-> "none", count |-> 0]

ValidEntries(s) ==
    {i \in DOMAIN s : s[i].kind = "object" /\ s[i].content = "text"}

Contract(v) ==
    IF v.kind # "object" THEN InvalidOutput
    ELSE IF v.success # "true"
         THEN Failed(IF v.message = "text" THEN "script" ELSE "default")
    ELSE IF v.items.kind # "array" \/ ValidEntries(v.items.elems) = {}
         THEN InvalidOutput
    ELSE Accepted(Cardinality(ValidEntries(v.items.elems)))

\* The class of an implementation outcome in the spec's error taxonomy.
ClassOf(o) ==
    CASE o.err = "none"   -> Accepted(o.count)
      [] o.err = "failed" -> Failed(o.message)
      [] OTHER            -> InvalidOutput

=============================================================================
