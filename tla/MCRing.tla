-------------------------------- MODULE MCRing --------------------------------
(* Ring for TLC, and the fact about & that Ring's Masked stands on.          *)
EXTENDS Ring
LOCAL INSTANCE Bitwise

ASSUME MaskedIsBitAnd ==
    \A k \in 0..6 : LET c == 2^k
                    IN  \A x \in 0..(2 * c - 1) : Masked(x, c) = (x & (c - 1))
==============================================================================
