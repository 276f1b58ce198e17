------------------------------- MODULE Pricing -------------------------------
(***************************************************************************)
(* The arithmetic of the catalogue: friendly rounding of converted prices  *)
(* (saasmint_core/services/currency.py, _to_minor_units in                 *)
(* apps/billing/tasks.py) and the tax-exclusive base of a tax-inclusive    *)
(* sticker (apps/billing/vat.py).                                          *)
(*                                                                         *)
(* Amounts are in minor units, exchange rates and VAT rates in             *)
(* thousandths, so that a USD amount times a rate is in thousandths of a   *)
(* minor unit.  The code converts with floats; here the product is exact,  *)
(* which may decide an exact tie the other way.                            *)
(***************************************************************************)
EXTENDS Integers

Distance(a, b) == IF a < b THEN b - a ELSE a - b

\* The first of a list of candidates that is nearest to x, as Python's min.
Nearest(candidates, x) ==
    LET i == CHOOSE n \in DOMAIN candidates :
                /\ \A m \in DOMAIN candidates :
                       Distance(candidates[n] * 1000, x) <= Distance(candidates[m] * 1000, x)
                /\ \A m \in DOMAIN candidates :
                       m < n => Distance(candidates[m] * 1000, x) > Distance(candidates[n] * 1000, x)
    IN  candidates[i]

\* Python's round: to the nearest integer, ties to the even one (b > 0).
RoundHalfEven(a, b) ==
    LET q == a \div b
        r == 2 * (a % b)
    IN  IF r > b \/ (r = b /\ q % 2 = 1) THEN q + 1 ELSE q

\* round_friendly for a currency with cents: x thousandths of a cent to a price
\* that ends in .49 or .99, from the previous, the current or the next unit.
FriendlyCents(x) ==
    LET whole == x \div 100000
    IN  Nearest(<<100 * whole - 1, 100 * whole + 49, 100 * whole + 99, 100 * whole + 149>>, x)

\* round_friendly for a currency without: x is in hundred-thousandths of a
\* unit; steps of 10 below 1000 units, of 100 from there on.
FriendlyWhole(x) ==
    LET step == IF x >= 100000000 THEN 100 ELSE 10
    IN  RoundHalfEven(x, 100000 * step) * step

\* _compute_new_amounts and _suggested_sticker for one price and currency.
Friendly(amount, rate, zeroDecimal) ==
    IF amount * rate <= 0 THEN 0
    ELSE IF zeroDecimal THEN FriendlyWhole(amount * rate) ELSE FriendlyCents(amount * rate)

\* derive_base: sticker / (1 + rate), half up.
DeriveBase(sticker, vat) ==
    (2000 * sticker + 1000 + vat) \div (2 * (1000 + vat))

\* What Stripe Tax makes of a base at a consumer's checkout, half up.
WithTax(base, vat) == (2 * base * (1000 + vat) + 1000) \div 2000
=============================================================================
