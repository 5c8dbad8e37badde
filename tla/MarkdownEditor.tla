--------------------------- MODULE MarkdownEditor ---------------------------
(***************************************************************************)
(* MarkdownEditor (components/ui/markdown-editor.tsx): the CodeMirror      *)
(* document, its main selection, and the toolbar commands that rewrite     *)
(* them: the markdown buttons (handleAction), the text colour picker       *)
(* (handleColorSelect, from the palette, the custom hex field or the       *)
(* native picker) and "remove colour" (handleRemoveColor).  The colour     *)
(* commands look for an enclosing span with detectColorSpan, so that       *)
(* recolouring replaces a span instead of nesting a new one.               *)
(*                                                                         *)
(* A document is a sequence of tokens: a character, an opening tag         *)
(* <span style="color: c"> or the closing tag </span>.  Selections start   *)
(* and end between tokens.  Markdown markers such as ** or # are characters *)
(* to the colour commands and are one token "*" here.  The picker's open   *)
(* state and the custom hex field only decide which colour is applied.     *)
(***************************************************************************)
EXTENDS Integers, Sequences

CONSTANTS
    Colors,       \* colours the picker can apply (valid hex values)
    MaxLen        \* bound on the document length, in tokens

Char(x)  == [k |-> "char", v |-> x]
Open(c)  == [k |-> "open", v |-> c]
Close    == [k |-> "close", v |-> "/"]
Marker   == Char("*")
Tokens   == {Char("a"), Close} \cup {Open(c) : c \in Colors}

VARIABLES
    doc,          \* view.state.doc
    from, to      \* view.state.selection.main

vars == <<doc, from, to>>

\* view.state.sliceDoc(f, t)
Slice(f, t) == SubSeq(doc, f + 1, t)

\* view.dispatch({changes: {from: f, to: t, insert: ins}}): the new document.
Replace(f, t, ins) == SubSeq(doc, 1, f) \o ins \o SubSeq(doc, t + 1, Len(doc))

\* The depth of span nesting after each prefix never drops below zero and
\* ends at zero.
RECURSIVE DepthOk(_, _)
DepthOk(s, d) ==
    IF s = <<>> THEN d = 0
    ELSE LET d2 == d + (IF Head(s).k = "open" THEN 1 ELSE IF Head(s).k = "close" THEN -1 ELSE 0)
         IN  d2 >= 0 /\ DepthOk(Tail(s), d2)

WellNested(s) == DepthOk(s, 0)

\* The documents the editor can be given: tags nested, up to n tokens.
RECURSIVE Docs(_)
Docs(n) == IF n = 0 THEN {<<>>}
           ELSE Docs(n - 1) \cup {s \o <<t>> : s \in Docs(n - 1), t \in Tokens}

TypeOK ==
    /\ Len(doc) <= MaxLen /\ \A i \in DOMAIN doc : doc[i] \in Tokens \cup {Marker, Char("t")}
    /\ from \in 0..Len(doc) /\ to \in from..Len(doc)

Init ==
    /\ doc \in {s \in Docs(MaxLen) : WellNested(s)}
    /\ from = Len(doc) /\ to = Len(doc)

-----------------------------------------------------------------------------
(* detectColorSpan                                                         *)

\* Case 1: the selection is a whole <span ...>...</span> (the regex is
\* greedy: the first opening tag and the last closing tag of the selection).
\* Case 2: an opening tag ends right before the selection and a closing tag
\* starts right after it.  Otherwise null.
DetectColorSpan ==
    LET sel == Slice(from, to) IN
    IF Len(sel) >= 2 /\ sel[1].k = "open" /\ sel[Len(sel)] = Close
    THEN {[color |-> sel[1].v, inner |-> SubSeq(sel, 2, Len(sel) - 1),
           outerFrom |-> from, outerTo |-> to]}
    ELSE IF from >= 1 /\ to < Len(doc) /\ doc[from].k = "open" /\ doc[to + 1] = Close
    THEN {[color |-> doc[from].v, inner |-> sel, outerFrom |-> from - 1, outerTo |-> to + 1]}
    ELSE {}

\* The document and selection a command leaves, within the length bound.
Edit(f, t, ins, a, h) ==
    /\ Len(doc) - (t - f) + Len(ins) <= MaxLen
    /\ doc' = Replace(f, t, ins)
    /\ from' = a /\ to' = h

-----------------------------------------------------------------------------
(* The user's own steps.                                                   *)

\* A selection made with the mouse or the keyboard.
Select(f, t) ==
    /\ f <= t /\ t <= Len(doc) /\ <<f, t>> # <<from, to>>
    /\ UNCHANGED doc /\ from' = f /\ to' = t

\* Typing a character replaces the selection with it.
Type == Edit(from, to, <<Char("a")>>, from + 1, from + 1)

-----------------------------------------------------------------------------
(* The toolbar.                                                            *)

\* handleAction: wrap and block put their markers around the selection
\* and leave the cursor after it; line prefixes the selection and leaves
\* the cursor after the insert.
HandleAction(type) ==
    LET sel == Slice(from, to) IN
    CASE type \in {"wrap", "block"} ->
           Edit(from, to, <<Marker>> \o sel \o <<Marker>>, from + 1 + Len(sel), from + 1 + Len(sel))
      [] type = "line" ->
           Edit(from, to, <<Marker>> \o sel, from + 1 + Len(sel), from + 1 + Len(sel))

\* handleColorSelect(color): replace the colour of the span detectColorSpan
\* finds and select its inner text, or wrap the selection ("text" when it
\* is empty) in a new span and select it.
HandleColorSelect(c) ==
    IF DetectColorSpan # {}
    THEN LET e == CHOOSE x \in DetectColorSpan : TRUE IN
         Edit(e.outerFrom, e.outerTo, <<Open(c)>> \o e.inner \o <<Close>>,
              e.outerFrom + 1, e.outerFrom + 1 + Len(e.inner))
    ELSE LET text == IF from = to THEN <<Char("t")>> ELSE Slice(from, to) IN
         Edit(from, to, <<Open(c)>> \o text \o <<Close>>, from + 1, from + 1 + Len(text))

\* handleRemoveColor: replace the span detectColorSpan finds by its inner
\* text and select that; with no span found nothing changes.
HandleRemoveColor ==
    /\ DetectColorSpan # {}
    /\ LET e == CHOOSE x \in DetectColorSpan : TRUE IN
       Edit(e.outerFrom, e.outerTo, e.inner, e.outerFrom, e.outerFrom + Len(e.inner))

\* The toolbar's markdown buttons, one per entry of actions.
Toolbar == \E type \in {"wrap", "line", "block"} : HandleAction(type)

\* The colour picker: a palette or neutral swatch, the custom hex field
\* (applied only when it is a valid hex colour) or the native picker, and
\* the remove colour button.
ColorCommand == (\E c \in Colors : HandleColorSelect(c)) \/ HandleRemoveColor

Next == (\E f, t \in 0..Len(doc) : Select(f, t)) \/ Type \/ Toolbar \/ ColorCommand

Spec == Init /\ [][Next]_vars

\* The editor without the colour picker (the first MarkdownEditor of the
\* file): editing and the markdown toolbar only.
PlainNext == (\E f, t \in 0..Len(doc) : Select(f, t)) \/ Type \/ Toolbar

-----------------------------------------------------------------------------
(* Properties.                                                             *)

\* A colour command (palette, custom hex, native picker, remove colour)
\* applied to a document whose span tags are nested leaves them nested: a
\* colour is applied, replaced or removed as a whole span.
ColorKeepsTagsNested ==
    [][ColorCommand /\ WellNested(doc) => WellNested(doc')]_vars

=============================================================================
