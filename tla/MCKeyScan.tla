----------------------------- MODULE MCKeyScan -----------------------------
(***************************************************************************)
(* Two keys, so that one may hide the other, and time in units of 10 ms:   *)
(* rounds of 30 ms, and rounds lengthened by a page's Setup to 300 ms.     *)
(***************************************************************************)
EXTENDS KeyScan

MCKeyOrder == <<"LEFT", "RIGHT">>
MCDelays == {3, 30}
=============================================================================
