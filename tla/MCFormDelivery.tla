--------------------------- MODULE MCFormDelivery ---------------------------
\* FormDelivery for TLC: drains differ only by name.
EXTENDS FormDelivery, TLC

DrainSymmetry == Permutations(Drains)
=============================================================================
