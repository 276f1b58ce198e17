--------------------------- MODULE MCCreditLedger ---------------------------
(***************************************************************************)
(* Two sessions paid for the same org, whose credits together overflow the *)
(* column, and one for a product that grants none.                         *)
(***************************************************************************)
EXTENDS CreditLedger

MCSessions == {"s1", "s2", "s3"}
MCOwnerOf == [s \in MCSessions |-> IF s = "s3" THEN "user" ELSE "org"]
MCCreditsOf == [s \in MCSessions |-> CASE s = "s1" -> 1 [] s = "s2" -> 2 [] OTHER -> 0]
=============================================================================
