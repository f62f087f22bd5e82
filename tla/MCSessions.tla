----------------------------- MODULE MCSessions -----------------------------
(* Model values and their symmetry for the runs of Sessions.  Sessions are *)
(* handed out in a fixed order (Fresh) and are not symmetric.              *)
EXTENDS Sessions, TLC

CONSTANTS ch1, ch2, c1, c2

ChannelSymmetry == Permutations({ch1, ch2})
ClientSymmetry == Permutations({c1, c2})
BothSymmetries == ChannelSymmetry \cup ClientSymmetry

OneChannel == {ch1}
TwoChannels == {ch1, ch2}
OneClient == {c1}
TwoClients == {c1, c2}
TwoSessions == 1..2
ThreeSessions == 1..3
AllKinds == {"lookup", "segment", "art", "status"}
StreamKinds == {"lookup", "segment"}
LookupAndArt == {"lookup", "art"}
=============================================================================
