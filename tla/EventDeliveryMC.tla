--------------------------- MODULE EventDeliveryMC ---------------------------
(* EventDelivery for TLC: a synchronous subscriber and an asynchronous one. *)
EXTENDS EventDelivery

CONSTANTS s1, s2
TwoSubscribers == <<s1, s2>>
=============================================================================
