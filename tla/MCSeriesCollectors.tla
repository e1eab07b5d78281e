------------------------- MODULE MCSeriesCollectors -------------------------
(***************************************************************************)
(* Instance of SeriesCollectors for TLC: two collectors that search twice, *)
(* each with its own order of resets and searches, and two short ones      *)
(* together so that one of them has to wait for a slot.  The others are    *)
(* parts of these under other names.                                       *)
(***************************************************************************)
EXTENDS SeriesCollectors

Only(groups) == [include |-> groups, exclude |-> {"tls"}]
AllBut(groups) == [include |-> {}, exclude |-> groups]

Configurations ==
  { Only({"threads"}), Only({"tls"}),
    AllBut(DOMAIN Collectors \ {"health", "overlays"}) }
=============================================================================
