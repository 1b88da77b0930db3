-------------------------- MODULE MCEventDelivery --------------------------
(* TLC instances of EventDelivery: what is interchangeable, and screens beside  *)
(* a camera that judges seats only; they make no difference to what it judges.  *)
EXTENDS EventDelivery, TLC

MCNext == DeliveryNext /\ (judges \/ subs' = subs)

MCSpec == DeliveryInit /\ [][MCNext]_deliveryVars

Symmetry == Permutations(Subscribers)
=============================================================================
