---------------------------- MODULE MCDeliveryBus ----------------------------
(* One bus in one direction, with parcels of one and of two fragments.           *)
EXTENDS DeliveryBus
===============================================================================
