------------------------------ MODULE MCKvDb ------------------------------
\* The instance of KvDb that TLC checks: two keys with one hash (0 is replaced
\* by 1), and hashes that meet at the small capacities 1, 3 and 6 that Pad = 1
\* gives, with the way of one wrapping around the end of the table.
EXTENDS KvDb, TLC

CONSTANTS k1, k2, k3, k4

MCKeys   == {k1, k2, k3, k4}
MCHashOf == (k1 :> 0) @@ (k2 :> 1) @@ (k3 :> 5) @@ (k4 :> 4)
=============================================================================
