--------------------------- MODULE MCEventDelivery ---------------------------
EXTENDS EventDelivery

CONSTANTS w1, w2, b1, b2, k1
=============================================================================
