----------------------- MODULE MCAuthorityObservation -----------------------
(* Accounts 1..3, members of one or both bodies.  The lists: a pair in the *)
(* order of the accounts and against it, the same accounts with exchanged  *)
(* mainchain members, one account that changes, a duplicated account, a    *)
(* list that is too long, one that cannot be decoded.  A block holds one   *)
(* of them, two transactions that replace one list after the other, or one *)
(* transaction for both bodies.                                            *)
EXTENDS AuthorityObservation

Usable ==
  {<< <<1, "m1">>, <<2, "m2">> >>,
   << <<2, "m1">>, <<1, "m2">> >>,
   << <<3, "m3">> >>}

Unusable ==
  {<< <<2, "m1">>, <<2, "m2">> >>,
   << <<1, "m1">>, <<2, "m2">>, <<3, "m3">> >>,
   Undecodable}

Site(address) == [address |-> address, policy |-> "token"]
Published(address, datum) == [at |-> Site(address), datum |-> datum]

MCPublications ==
  {Published("script1", d) : d \in Usable \union Unusable} \union
  {Published("script2", d) : d \in {<< <<1, "m1">>, <<2, "m2">> >>, << <<3, "m3">> >>}}

MCCardanoBlocks ==
  LET one == Published("script1", << <<1, "m1">>, <<2, "m2">> >>)
      two == Published("script1", << <<3, "m3">> >>)
      other == Published("script2", << <<3, "m3">> >>)
  IN  {<<{p}>> : p \in MCPublications \ {other}} \union {<<{one}, {two}>>, <<{two}, {one, other}>>}

MCGenesisDatum ==
  [b \in Bodies |->
     IF b = "council"
       THEN << <<2, "m1">>, <<1, "m2">> >>
       ELSE << <<1, "m1">>, <<2, "m2">> >>]

MCGenesisLocation ==
  [b \in Bodies |->
     IF b = "council"
       THEN Site("script1")
       ELSE Site("script2")]
=============================================================================
