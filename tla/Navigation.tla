----------------------------- MODULE Navigation -----------------------------
(***************************************************************************)
(* What the page scheduler promises its users: the user walks a path of    *)
(* pages, forward to a page and back, and each page of the path is shown   *)
(* before the path changes again.                                          *)
(***************************************************************************)
EXTENDS Naturals, Sequences

CONSTANTS
  Page,    \* the pages
  None,    \* the page under the path: nothing is shown
  Depth    \* the longest path

VARIABLES
  path,    \* the pages entered and not left, oldest first
  shown    \* the page on the screen

vars == <<path, shown>>

Here == IF path = <<>> THEN None ELSE path[Len(path)]

Init ==
  /\ path = <<>>
  /\ shown = None

Forward(p) ==
  /\ shown = Here
  /\ p # Here
  /\ Len(path) < Depth
  /\ path' = Append(path, p)
  /\ UNCHANGED shown

Back ==
  /\ shown = Here
  /\ path # <<>>
  /\ path' = SubSeq(path, 1, Len(path) - 1)
  /\ UNCHANGED shown

Show ==
  /\ shown # Here
  /\ shown' = Here
  /\ UNCHANGED path

Next ==
  \/ \E p \in Page : Forward(p)
  \/ Back
  \/ Show

Spec == Init /\ [][Next]_vars

(* The page the user asked for is eventually on the screen. *)
Reaches == \A p \in Page : Here = p ~> shown = p
=============================================================================
