--------------------------- MODULE MCPageManager ---------------------------
(***************************************************************************)
(* Four pages, one of them (PAGE_NONE) reserved and one not registered,    *)
(* a stack that fills up, and a page number past the end.                  *)
(***************************************************************************)
EXTENDS PageManager

MCImported == {1, 2}
MCPageIds == {0, 1, 2, 3, 4}
=============================================================================
