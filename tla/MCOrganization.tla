---------------------------- MODULE MCOrganization ----------------------------
(* Instances of Organization for TLC.                                      *)
EXTENDS OrganizationHistory, TLC

Symmetry ==
  Permutations(Requests) \cup Permutations(Users \ {Founder}) \cup Permutations(Invites)
=============================================================================
