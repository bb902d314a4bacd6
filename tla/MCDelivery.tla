----------------------------- MODULE MCDelivery -----------------------------
(* Small instances of Delivery for TLC. *)
EXTENDS Delivery

\* A direct change, a reviewed one, and one T2 without a reviewer.
MCProfiles == { [tier |-> "T0", reviewer |-> FALSE], [tier |-> "T2", reviewer |-> TRUE],
                [tier |-> "T2", reviewer |-> FALSE] }
DirectProfiles == { [tier |-> "T1", reviewer |-> FALSE] }
=============================================================================
