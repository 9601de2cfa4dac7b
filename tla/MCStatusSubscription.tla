------------------------ MODULE MCStatusSubscription -----------------------
(***************************************************************************)
(* StatusSubscription with channels of two updates, so that three updates  *)
(* overflow them while a subscriber is draining.                           *)
(***************************************************************************)
EXTENDS StatusSubscription
=============================================================================
