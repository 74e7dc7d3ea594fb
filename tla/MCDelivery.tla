----------------------------- MODULE MCDelivery -----------------------------
EXTENDS Delivery

CONSTANTS c1, m1, m2, n1

OneChannel == [x \in Messages \cup Notices |-> c1]
=============================================================================
