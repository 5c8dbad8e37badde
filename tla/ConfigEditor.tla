---------------------------- MODULE ConfigEditor ----------------------------
(***************************************************************************)
(* ConfigEditor (components/admin/config-editor.tsx): the key/value editor *)
(* of a JSON configuration, with a raw JSON mode, used by the virtual      *)
(* inventory page (script_config) and the payment method dialog (config).  *)
(*                                                                         *)
(* The parent owns the configuration (the value prop) and receives every   *)
(* change through onChange.  A visual edit (sync) updates the entries and  *)
(* the raw text at once, sets skipSync, stores the JSON in pendingJsonRef  *)
(* and delivers it to the parent 300 ms later, unless the parent flushes   *)
(* it first through flushRef.  A raw edit is delivered at once.  The       *)
(* [value] effect re-parses the value when it changes, except right after  *)
(* the editor's own delivery (skipSync).                                   *)
(*                                                                         *)
(* A configuration is abstracted to its parsed content: a member of        *)
(* Configs, or Invalid for text that is not JSON.  The effect is folded    *)
(* into the step that changes the value: React runs passive effects before *)
(* the next input event.                                                   *)
(***************************************************************************)
CONSTANTS
    Configs,      \* parsed JSON objects an admin can produce
    Invalid,      \* raw text that JSON.parse rejects
    None          \* pendingJsonRef.current = null, no timer armed

Texts == Configs \cup {Invalid}

VARIABLES
    value,        \* the parent's configuration string (the value prop)
    entries,      \* the entries state, as the object they serialise to
    rawMode,      \* rawMode state
    rawValue,     \* rawValue state: the text of the raw editor
    skipSync,     \* skipSync ref
    pending,      \* pendingJsonRef, with the debounce timer armed for it
    lastEdit      \* history: the content the admin last produced in the editor

cvars == <<value, entries, rawMode, rawValue, skipSync, pending, lastEdit>>

CTypeOK ==
    /\ value \in Texts /\ entries \in Configs /\ rawValue \in Texts
    /\ rawMode \in BOOLEAN /\ skipSync \in BOOLEAN
    /\ pending \in Configs \cup {None}
    /\ lastEdit \in Texts

\* Mount with the parent's value v: the [value] effect parses it (an empty
\* string parses as {}); text that does not parse opens the raw editor.
CInit(v, e0) ==
    /\ value = v
    /\ entries = IF v \in Configs THEN v ELSE e0
    /\ rawMode = (v = Invalid)
    /\ rawValue = v
    /\ skipSync = FALSE
    /\ pending = None
    /\ lastEdit = v

\* onChange(v) of a delivery that is not a user edit (the debounce timer or
\* flush), with the [value] effect it causes: nothing when v is the value
\* already; a reset of skipSync when it was set; otherwise a re-parse.
Deliver(v) ==
    /\ value' = v
    /\ IF v = value
       THEN UNCHANGED <<skipSync, entries, rawValue>>
       ELSE /\ skipSync' = FALSE
            /\ IF skipSync THEN UNCHANGED <<entries, rawValue>>
                           ELSE entries' = v /\ rawValue' = v

\* sync(next), shared by updateEntry, removeEntry, addEntry and changeType:
\* entries, raw text and pendingJsonRef take the new JSON, the timer is
\* re-armed and skipSync set.
Sync(c) ==
    /\ ~rawMode
    /\ entries' = c
    /\ skipSync' = TRUE
    /\ rawValue' = c
    /\ pending' = c
    /\ lastEdit' = c
    /\ UNCHANGED <<value, rawMode>>

\* The 300 ms timer: onChangeRef.current(json), then pendingJsonRef = null.
TimerFires ==
    /\ pending # None
    /\ Deliver(pending)
    /\ pending' = None
    /\ UNCHANGED <<rawMode, lastEdit>>

\* flushRef.current(): clear the timer and deliver what is pending.  The
\* parent receives pending, or None when nothing was pending.
Flush ==
    /\ IF pending # None THEN Deliver(pending) ELSE UNCHANGED <<value, skipSync, entries, rawValue>>
    /\ pending' = None
    /\ UNCHANGED <<rawMode, lastEdit>>

\* The "JSON editor" button: raw mode, the timer left armed.
ToRaw ==
    /\ ~rawMode
    /\ rawMode' = TRUE
    /\ UNCHANGED <<value, entries, rawValue, skipSync, pending, lastEdit>>

\* CodeMirror onChange: setRawValue(v); onChange(v), then the [value] effect.
RawEdit(v) ==
    /\ rawMode
    /\ rawValue' = v
    /\ value' = v
    /\ lastEdit' = v
    /\ IF v = value
       THEN UNCHANGED <<skipSync, entries>>
       ELSE /\ skipSync' = FALSE
            /\ entries' = IF ~skipSync /\ v \in Configs THEN v ELSE entries
    /\ UNCHANGED <<rawMode, pending>>

\* The "visual editor" button: parse the raw text; on success take it as
\* entries, set skipSync, onChange(rawValue) and leave raw mode; on a parse
\* error stay in raw mode.
ToVisual ==
    /\ rawMode
    /\ rawValue \in Configs
    /\ entries' = rawValue
    /\ value' = rawValue
    /\ skipSync' = (rawValue = value)
    /\ rawMode' = FALSE
    /\ UNCHANGED <<rawValue, pending, lastEdit>>

CNext ==
    \/ \E c \in Configs : Sync(c)
    \/ \E v \in Texts : RawEdit(v)
    \/ TimerFires \/ ToRaw \/ ToVisual

=============================================================================
