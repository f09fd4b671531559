---------------------------- MODULE MCRomFsRemap -----------------------------
(* Three paths, sizes below, at and above one alignment unit of two bytes.  A rule *)
(* of the remap ignore list matches one of the paths, or none.                     *)
EXTENDS RomFsRemap

OneRuleInit ==
  /\ Init
  /\ \A p, q \in Paths : rules[p] # NotIgnored /\ rules[q] # NotIgnored => p = q

OneRuleSpec == OneRuleInit /\ [][Next]_vars
=============================================================================
