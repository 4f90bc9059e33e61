------------------------------ MODULE MCMarkdown ------------------------------
(* Every kind of line, also those that begin with # and are no heading. *)
EXTENDS Markdown
=============================================================================
