--------------------------- MODULE MCScriptSandbox ---------------------------
EXTENDS ScriptSandbox

\* onDeliver's possible answers: two items, one of them with empty content;
\* {success: false, message: "no stock"}; success with no usable item.
MCResults ==
    { JSValue("object", "true", "absent",
              ItemsField("array", <<Entry("object", "text"), Entry("object", "empty")>>)),
      JSValue("object", "false", "text", ItemsField("absent", <<>>)),
      JSValue("object", "true", "absent", ItemsField("array", <<Entry("scalar", "absent")>>)) }

\* Whenever onDeliver runs, whatever value it returns with up to three
\* entries, parseDeliveryResult accepts, fails or rejects it exactly as spec
\* 4.4 step 5 says, and accepts exactly the items with non-empty string
\* content.
ParseMatchesContract ==
    pc = "call" => \A v \in JSValues(3) : ClassOf(ParseDeliveryResult(v)) = Contract(v)

=============================================================================
