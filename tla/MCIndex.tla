------------------------------- MODULE MCIndex -------------------------------
(* Instances of Index for TLC. *)
EXTENDS Index

Mode(kind, layouts, policy, records, appends, loaded) ==
  [kind : {kind}, layout : layouts, policy : {policy}, records : {records},
   appends : {appends}, loaded : {loaded}]

Layouts == {"TEIRING", "LEVELING"}
TwoKeys == {<<1, 0>>, <<2, 0>>}
TwoValues == {<<1, 0>>, <<1, 1>>, <<2, 0>>}

\* Enough records for three internal levels of a search tree.
Loaded ==
  << <<1, 1>>, <<2, 0>>, <<2, 1>>, <<2, 2>>, <<2, 3>>, <<3, 0>>, <<4, 0>>, <<4, 1>>, <<6, 0>> >>

MCModes ==
  Mode("external", Layouts, "TOMBSTONE", TwoKeys, 4, <<>>)
    \cup Mode("external", Layouts, "TOMBSTONE", TwoValues, 2, Loaded)
    \cup Mode("external", {"TEIRING"}, "TAGGING", TwoKeys, 4, <<>>)
    \cup Mode("memory", {"TEIRING"}, "TOMBSTONE", TwoValues, 4, <<>>)
    \cup Mode("memory", {"LEVELING"}, "TOMBSTONE", TwoValues, 2, Loaded)

\* The smallest instance in which a lookup meets a record and its tombstone.
MCLookupModes == Mode("external", {"LEVELING"}, "TOMBSTONE", TwoKeys, 3, <<>>)
=============================================================================
