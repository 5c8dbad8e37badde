--------------------------- MODULE MCMarkdownEditor ---------------------------
(* Two colours and documents of up to six tokens: room for two spans side  *)
(* by side.                                                                *)
EXTENDS MarkdownEditor

=============================================================================
