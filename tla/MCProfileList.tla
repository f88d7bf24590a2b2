--------------------------- MODULE MCProfileList ---------------------------
(* Three profiles, two of them created in the same instant, read a page of *)
(* one at a time.                                                          *)
EXTENDS ProfileList

ThreeMembers == {[ts |-> 1, id |-> 1], [ts |-> 1, id |-> 2], [ts |-> 2, id |-> 3]}
=============================================================================
