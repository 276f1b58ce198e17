------------------------- MODULE MCCreditFulfilment --------------------------
(***************************************************************************)
(* Two events about one paid session and one about a session without       *)
(* metadata, all of the same org.                                          *)
(***************************************************************************)
EXTENDS CreditFulfilment

MCEvents == {"e1", "e2", "e3"}
MCSessions == {"s1", "s2"}
MCSessionOf == [e \in MCEvents |-> IF e = "e3" THEN "s2" ELSE "s1"]
MCOwnerOf == [s \in MCSessions |-> "org"]
MCCreditsOf == [s \in MCSessions |-> IF s = "s1" THEN 1 ELSE 0]
=============================================================================
