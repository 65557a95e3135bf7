-------------------------- MODULE MCMessagingDelivery --------------------------
(* Instances of MessagingDelivery for TLC. *)
EXTENDS MessagingDelivery, TLC

CONSTANTS d1, d2, t1, t2

OneDrain  == {d1}
TwoDrains == {d1, d2}
OneText   == {t1}
TwoTexts  == {t1, t2}

DrainsAlike == Permutations(Drains)

\* Either the run's texts go through the outbox or the invites do; at first the owner
\* has not answered for as long as the cap allows.
BusyInit == DeliveryInit /\ counter = OutboundCap /\ (run # NoRun => connection.cycle = MaxCycles)

OutboxSpec == BusyInit /\ [][DeliveryNext]_deliveryVars /\ DeliveryFairness
=============================================================================
