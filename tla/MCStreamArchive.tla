-------------------------- MODULE MCStreamArchive --------------------------
(***************************************************************************)
(* Three keys: one payload cell, three, or four.  Misread as a header, a   *)
(* payload cell of "short" claims no payload (so that garbage is accepted  *)
(* as an entry), one of "long" claims one cell, one of "huge" too many.    *)
(***************************************************************************)
EXTENDS StreamArchive

MCSize    == [k \in Key |-> CASE k = "short" -> 1 [] k = "long" -> 3 [] OTHER -> 4]
MCMisread == [k \in Key \cup {Phantom} |-> CASE k = "short" -> 0 [] k = "long" -> 1 [] OTHER -> 9]
=============================================================================
