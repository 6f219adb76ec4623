---------------------------- MODULE MCGovernance ----------------------------
(* A council of three and a committee of one of them.  Two members of the  *)
(* council are replaced by one, and the council may be relocated to where  *)
(* the committee's list is.                                                *)
EXTENDS Governance

Script1 == [address |-> "script1", policy |-> "token"]
Script2 == [address |-> "script2", policy |-> "token"]

Three == << <<2, "m2">>, <<1, "m1">>, <<3, "m3">> >>
Two == << <<1, "m1">>, <<4, "m4">> >>
One == << <<3, "m3">> >>

MCPublications ==
  {[at |-> Script1, datum |-> d] : d \in {Three, Two}} \union
  {[at |-> Script2, datum |-> One]}

MCCardanoBlocks == {<<{p}>> : p \in MCPublications}

MCGenesisDatum == [b \in Bodies |-> IF b = "council" THEN Three ELSE One]

MCGenesisLocation == [b \in Bodies |-> IF b = "council" THEN Script1 ELSE Script2]
=============================================================================
