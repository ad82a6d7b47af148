--------------------------- MODULE MCSQLiteStore ---------------------------
(***************************************************************************)
(* Instances of SQLiteStore.                                               *)
(***************************************************************************)
EXTENDS SQLiteStore

CONSTANTS w1, w2, w3, b1, b2, i1, i2

ThreeRecords == {w1, w2, w3}
TwoRecords   == {w1, w2}
TwoBanners   == {b1, b2}
OneIP        == {i1}
TwoIPs       == {i1, i2}
=============================================================================
