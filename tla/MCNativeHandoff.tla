-------------------------- MODULE MCNativeHandoff --------------------------
(* j1 is submitted locally and addressed to n1, j2 comes from the server   *)
(* and is addressed to n2.  A run with one of the jobs looks at its whole  *)
(* life; MCSharedPrinter has both.                                         *)
EXTENDS NativeHandoff
CONSTANTS local, cloud, j1, j2, n1, n2, p
MCOwnerOf == [j \in Job |-> IF j = j1 THEN local ELSE cloud]
MCRouteOf == [j \in Job |-> IF j = j1 THEN n1 ELSE n2]

\* One queue: found or not.
MCFoundOrNot == [Native -> {NoIdentity, Absent}]
=============================================================================
