---------------------------- MODULE MC_HtmlReport ----------------------------
(***************************************************************************)
(* One table and one ReportImages added to one generator.  A single cell  *)
(* string is enough: a cell is either the one the caller gave or the     *)
(* empty string, and that is what the properties tell apart.             *)
(***************************************************************************)
EXTENDS HtmlReport

MCTables  == {"t1"}
MCImages  == {"i1"}
\* addImage(path, caption) with width and height left -1, or 8 pixels.
MCWidths  == {-1, 8}
====
