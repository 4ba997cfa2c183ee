------------------------- MODULE MCThreadedReplayer -------------------------
(***************************************************************************)
(* Instances of ThreadedReplayer, two pipelines per chunk:                 *)
(*   graphics  1 plain             2 derived from 1                        *)
(*             3 may be a parent   4 derived from 5, which comes later     *)
(*             5 compiled for 4    6 derived from 3: nothing plain to parse*)
(*             7 is not readable   8 derived from 1                        *)
(*             9 fails to compile  10 derived from 9                       *)
(*   compute   11 module refused   12 derived from 13                      *)
(*             13 does not parse   14 module is lost                       *)
(* The slot of 7 held 3 before.  Five graphics chunks leave context 1      *)
(* without work in the third batch.                                        *)
(***************************************************************************)
EXTENDS ThreadedReplayer

CONSTANTS Graphics, Compute   \* how many pipelines of each tag are listed

MCHash   == 1..14
MCModule == {"a", "b", "c", "lost", "bad"}
MCList   == [t \in Tag |-> IF t = "graphics" THEN [i \in 1..Graphics |-> i]
                           ELSE [i \in 1..Compute |-> i + 10]]
MCBase   == [h \in MCHash |-> CASE h \in {2, 8} -> 1 [] h = 4 -> 5 [] h = 6 -> 3 [] h = 10 -> 9
                                [] h = 12 -> 13 [] OTHER -> NoHash]
MCParent == {1, 3, 5, 9, 13}
MCStages == [h \in MCHash |-> CASE h \in {1, 6} -> <<"a">> [] h \in {2, 3} -> <<"b", "a">>
                                [] h = 11 -> <<"bad">> [] h = 14 -> <<"lost">>
                                [] h = 4 -> <<"b">> [] h = 8 -> <<"a", "b", "c">> [] OTHER -> <<"c">>]
=============================================================================
