--------------------------- MODULE CatalogueProofs ---------------------------
(***************************************************************************)
(* Theorems about Pricing, for every amount and rate, and about Catalogue, *)
(* for any owners, markets, releases, quotes, number of containers and     *)
(* bounds.                                                                 *)
(***************************************************************************)
EXTENDS Catalogue, TLAPS

----------------------------------------------------------------------------
(* What the rounding of prices promises.                                   *)

LEMMA Division ==
    ASSUME NEW a \in Int, NEW b \in Nat \ {0}
    PROVE  /\ a \div b \in Int /\ a % b \in 0..(b - 1)
           /\ a = b * (a \div b) + (a % b)
OBVIOUS

(* A list of four has a first element nearest to x, and Nearest finds it.  *)
LEMMA NearestOfFour ==
    ASSUME NEW x \in Int, NEW a \in Int, NEW b \in Int, NEW c \in Int, NEW d \in Int
    PROVE  LET p == Nearest(<<a, b, c, d>>, x)
           IN  /\ p \in {a, b, c, d}
               /\ \A o \in {a, b, c, d} : Distance(p * 1000, x) <= Distance(o * 1000, x)
PROOF
<1> DEFINE s == <<a, b, c, d>>
           P(n) == /\ \A m \in DOMAIN s : Distance(s[n] * 1000, x) <= Distance(s[m] * 1000, x)
                   /\ \A m \in DOMAIN s :
                          m < n => Distance(s[m] * 1000, x) > Distance(s[n] * 1000, x)
<1>1. DOMAIN s = {1, 2, 3, 4} /\ s[1] = a /\ s[2] = b /\ s[3] = c /\ s[4] = d
  OBVIOUS
<1>2. \E n \in DOMAIN s : P(n)
  BY <1>1 DEF Distance
<1>3. PICK n \in DOMAIN s : n = (CHOOSE i \in DOMAIN s : P(i)) /\ P(n)
  BY <1>2
<1>4. Nearest(s, x) = s[n]
  BY <1>3 DEF Nearest
<1>5. \A m \in DOMAIN s : Distance(s[n] * 1000, x) <= Distance(s[m] * 1000, x)
  BY <1>3
<1> HIDE DEF s, P
<1> QED
  BY <1>1, <1>4, <1>5 DEF s

(* round(a / b) is no more than half away.                                 *)
LEMMA RoundIsNearest ==
    ASSUME NEW a \in Nat, NEW b \in Nat \ {0}
    PROVE  /\ RoundHalfEven(a, b) \in Nat
           /\ 2 * Distance(b * RoundHalfEven(a, b), a) <= b
PROOF
<1> DEFINE q == a \div b
           r == a % b
           bq == b * q
<1>1. q \in Int /\ r \in 0..(b - 1) /\ a = bq + r
  BY Division
<1>2. q \in Nat
  BY SMT, <1>1
<1>3. RoundHalfEven(a, b) = IF 2 * r > b \/ (2 * r = b /\ q % 2 = 1) THEN q + 1 ELSE q
  BY DEF RoundHalfEven
<1>4. b * (q + 1) = bq + b /\ bq \in Int
  BY SMT, <1>2
<1> HIDE DEF q, r
<1>5. CASE RoundHalfEven(a, b) = q + 1 /\ 2 * r >= b
  <2> HIDE DEF bq
  <2> QED  BY SMT, <1>1, <1>2, <1>4, <1>5 DEF Distance
<1>6. CASE RoundHalfEven(a, b) = q /\ 2 * r <= b
  <2>1. b * RoundHalfEven(a, b) = bq
    BY <1>6
  <2> HIDE DEF bq
  <2> QED  BY SMT, <1>1, <1>2, <1>4, <1>6, <2>1 DEF Distance
<1> QED
  BY SMT, <1>1, <1>2, <1>3, <1>5, <1>6

(* "the closest of .49 or .99": whatever a conversion comes to, in         *)
(* thousandths of a cent, round_friendly answers a charm price that is at  *)
(* most 25 cents away; it is negative only for 0.24 of a unit or less.     *)
THEOREM FriendlyIsCharm ==
    \A x \in Nat :
        LET p == FriendlyCents(x)
        IN  /\ p \in Int /\ p % 100 \in {49, 99}
            /\ Distance(1000 * p, x) <= 25000
            /\ x > 24000 => p \in Nat
PROOF
<1> TAKE x \in Nat
<1> DEFINE w == x \div 100000
           p == FriendlyCents(x)
<1>1. w \in Nat /\ 100000 * w <= x /\ x < 100000 * w + 100000
  BY SMT
<1> HIDE DEF w
<1>2. p = Nearest(<<100 * w - 1, 100 * w + 49, 100 * w + 99, 100 * w + 149>>, x)
  BY SMT DEF FriendlyCents, w
<1> HIDE DEF p
<1>3. /\ p \in {100 * w - 1, 100 * w + 49, 100 * w + 99, 100 * w + 149}
      /\ \A o \in {100 * w - 1, 100 * w + 49, 100 * w + 99, 100 * w + 149} :
             Distance(p * 1000, x) <= Distance(o * 1000, x)
  BY SMT, <1>1, <1>2, NearestOfFour
<1>4. p \in Int /\ p % 100 \in {49, 99}
  BY SMT, <1>1, <1>3
<1>5. Distance(1000 * p, x) <= 25000
  <2>1. \E o \in {100 * w - 1, 100 * w + 49, 100 * w + 99, 100 * w + 149} :
            Distance(o * 1000, x) <= 25000
    BY SMT, <1>1 DEF Distance
  <2> QED
    BY SMT, <1>1, <1>3, <1>4, <2>1 DEF Distance
<1>6. x > 24000 => p \in Nat
  BY SMT, <1>1, <1>3, <1>4, <1>5 DEF Distance
<1> QED
  BY SMT, <1>4, <1>5, <1>6 DEF p

(* Without cents, in hundred-thousandths of a unit: a multiple of the step, *)
(* at most half a step away.                                               *)
THEOREM FriendlyWholeIsNear ==
    \A x \in Nat :
        LET p == FriendlyWhole(x)
            step == IF x >= 100000000 THEN 100 ELSE 10
        IN  p \in Nat /\ p % step = 0 /\ Distance(100000 * p, x) <= 50000 * step
PROOF
<1> TAKE x \in Nat
<1>1. CASE x >= 100000000
  <2> DEFINE n == RoundHalfEven(x, 10000000)
  <2>1. FriendlyWhole(x) = n * 100
    BY SMT, <1>1 DEF FriendlyWhole
  <2>2. n \in Nat /\ 2 * Distance(10000000 * n, x) <= 10000000
    BY SMT, RoundIsNearest
  <2> HIDE DEF n
  <2> QED
    BY SMT, <1>1, <2>1, <2>2 DEF Distance
<1>2. CASE ~(x >= 100000000)
  <2> DEFINE n == RoundHalfEven(x, 1000000)
  <2>1. FriendlyWhole(x) = n * 10
    BY SMT, <1>2 DEF FriendlyWhole
  <2>2. n \in Nat /\ 2 * Distance(1000000 * n, x) <= 1000000
    BY SMT, RoundIsNearest
  <2> HIDE DEF n
  <2> QED
    BY SMT, <1>2, <2>1, <2>2 DEF Distance
<1> QED
  BY SMT, <1>1, <1>2

(* Only conversions of 0.24 of a unit or less come out negative, in any    *)
(* currency (_to_minor_units of round_friendly).                           *)
THEOREM NonNegativeCharm ==
    \A amount, rate \in Nat, zeroDecimal \in BOOLEAN :
        amount * rate > 24000 => Friendly(amount, rate, zeroDecimal) \in Nat
PROOF
<1> TAKE amount, rate \in Nat, zeroDecimal \in BOOLEAN
<1> HAVE amount * rate > 24000
<1> DEFINE x == amount * rate
<1>1. x \in Nat /\ x > 24000
  BY SMT
<1>2. Friendly(amount, rate, zeroDecimal)
          = IF zeroDecimal THEN FriendlyWhole(x) ELSE FriendlyCents(x)
  BY SMT, <1>1 DEF Friendly
<1> HIDE DEF x
<1> QED
  BY SMT, <1>1, <1>2, FriendlyIsCharm, FriendlyWholeIsNear

\* How far the taxed total of a base is from the sticker, in thousandths.
Off(base, sticker, vat) == Distance(base * (1000 + vat), 1000 * sticker)

(* derive_base finds the base whose taxed total, before rounding, is       *)
(* nearest to the sticker, and Stripe's total at checkout is within one    *)
(* minor unit of it (VAT rates up to 100%).                                *)
THEOREM BaseIsNearest ==
    \A sticker \in Nat, vat \in 0..1000 :
        /\ DeriveBase(sticker, vat) \in Nat
        /\ Off(DeriveBase(sticker, vat), sticker, vat)
               <= Off(DeriveBase(sticker, vat) + 1, sticker, vat)
        /\ Off(DeriveBase(sticker, vat), sticker, vat)
               <= Off(DeriveBase(sticker, vat) - 1, sticker, vat)
        /\ Distance(WithTax(DeriveBase(sticker, vat), vat), sticker) <= 1
PROOF
<1> TAKE sticker \in Nat, vat \in 0..1000
<1> DEFINE d == 1000 + vat
           base == DeriveBase(sticker, vat)
           total == base * d
<1>1. d \in Nat \ {0} /\ d <= 2000
  BY SMT
<1>2. base = (2000 * sticker + d) \div (2 * d)
  BY SMT DEF DeriveBase
<1> HIDE DEF d, base
<1> DEFINE a == 2000 * sticker + d
           b == 2 * d
<1>a. a \in Nat /\ b \in Nat \ {0}
  BY SMT, <1>1
<1>b. base = a \div b
  BY <1>2
<1> HIDE DEF a, b
<1>c. base \in Int /\ a % b \in 0..(b - 1) /\ a = b * base + (a % b)
  BY <1>a, <1>b, Division
<1>3. base \in Nat /\ b * base <= a /\ a < b * base + b
  BY SMT, <1>a, <1>c
<1>4. /\ total \in Nat
      /\ 2 * total <= 2000 * sticker + d /\ 2000 * sticker + d < 2 * total + 2 * d
  BY SMT, <1>1, <1>3 DEF a, b
<1>5. (base + 1) * d = total + d /\ (base - 1) * d = total - d
  BY SMT, <1>1, <1>3
<1>6. WithTax(base, vat) = (2 * total + 1000) \div 2000
  BY SMT, <1>3, <1>1 DEF WithTax, d
<1> HIDE DEF total
<1>7. /\ Distance(total, 1000 * sticker) <= Distance(total + d, 1000 * sticker)
      /\ Distance(total, 1000 * sticker) <= Distance(total - d, 1000 * sticker)
  BY SMT, <1>1, <1>4 DEF Distance
<1>8. Distance((2 * total + 1000) \div 2000, sticker) <= 1
  BY SMT, <1>1, <1>4 DEF Distance
<1> QED
  BY SMT, <1>3, <1>5, <1>6, <1>7, <1>8 DEF d, base, total, Off

----------------------------------------------------------------------------
(* The rows of the catalogue and the prices at Stripe.                     *)

RowType == [amount : Int, curated : BOOLEAN, id : Nat]
PriceType == [key : Keys, amount : Int, currency : {USD} \cup Currencies, live : BOOLEAN]
Known == {<<>>} \cup [Slots -> Nat]
Batch == {<<>>} \cup UNION {[D -> RowType] : D \in SUBSET Slots}
Targets == {<<>>} \cup UNION {[D -> Int] : D \in SUBSET Slots}
JobType == [at : Stages, pass : 0..LastPass, known : Known, batch : Batch,
            slot : Slots \cup {<<>>}, amount : Int, id : Nat]
SweepType == [open : BOOLEAN, new : SUBSET Slots, to : Targets]
BudgetType == [rollout : Seq(Releases), abreast : Nat, crashes : Nat, sweeps : Nat,
               edits : Nat, requests : Nat]
Syncing == {"item", "boot", "booted", "mint", "stamp"}
Busy == {"boot", "booted", "mint", "stamp"}

TypeInv ==
    /\ row \in [Slots -> RowType]
    /\ stripe \in Seq(PriceType)
    /\ holder \in [Keys -> Nat]
    /\ job \in [Deploys -> JobType]
    /\ sweep \in [Deploys \cup Beats -> SweepType]
    /\ form \in {NoForm} \cup [slot : Slots, id : Nat]
    /\ left \in BudgetType

\* Where a deployment has a slot in hand and a list of known ids.
StageInv ==
    \A d \in Deploys :
        /\ job[d].at \in Syncing => job[d].known \in [Slots -> Nat]
        /\ job[d].at \in Busy => job[d].slot \in DOMAIN job[d].batch
        /\ sweep[d].open => job[d].at \in {"sweep", "boot"}

\* The id, if it is one, is a price minted under the key of slot s.
Named(id, s) == id # 0 => id \in DOMAIN stripe /\ stripe[id].key = LookupKey(s)

\* Whatever is or will become the id of a row was minted for that very row.
NameInv ==
    /\ \A s \in Slots : Named(row[s].id, s) /\ Named(holder[LookupKey(s)], s)
    /\ \A d \in Deploys :
           /\ job[d].at \in Syncing => \A s \in Slots : Named(job[d].known[s], s)
           /\ job[d].at = "stamp" => Named(job[d].id, job[d].slot)
    /\ form # NoForm => Named(form.id, form.slot)

\* A curated sticker is not what a sweep is about to write, unless it is exposed.
CuratedInv ==
    \A s \in Slots :
        row[s].curated =>
            /\ s \in National
            /\ \A p \in Deploys \cup Beats : s \in DOMAIN sweep[p].to => s \in exposed

----------------------------------------------------------------------------
(* Lemmas about the operators.                                             *)

LEMMA KeysAreDistinct ==
    ASSUME NEW s \in Slots, NEW t \in Slots, LookupKey(s) = LookupKey(t)
    PROVE  s = t
BY DEF LookupKey, Slots

LEMMA KeyIsKey == \A s \in Slots : LookupKey(s) \in Keys
BY DEF Keys

LEMMA SlotSets == /\ Localized \subseteq Slots /\ National \subseteq Slots
                  /\ \A s \in Slots : Anchor(s) \in Slots
                  /\ <<>> \notin Slots
BY DEF Localized, National, Slots, Markets, Anchor

LEMMA PairOfSlot == \A s \in Slots : s[1] \in Owners /\ s[2] \in Markets /\ s = <<s[1], s[2]>>
BY DEF Slots

LEMMA CurrencyType ==
    ASSUME NEW s \in Slots
    PROVE  CurrencyIn(s) \in {USD} \cup Currencies
BY CatalogueAssumption, PairOfSlot DEF CurrencyIn, Markets

LEMMA PassType ==
    ASSUME NEW n \in 1..LastPass
    PROVE  PassSlots(n) \subseteq Slots
PROOF
<1>1. CASE n = LastPass
  BY <1>1, SlotSets DEF PassSlots
<1>2. CASE n # LastPass
  <2>1. Len(Billing) \in Nat /\ LastPass = 2 * Len(Billing) + 1
    BY CatalogueAssumption DEF LastPass
  <2>2. (n + 1) \div 2 \in 1..Len(Billing)
    BY <1>2, <2>1
  <2>3. Billing[(n + 1) \div 2] \in {USD} \cup Currencies
    BY <2>2, CatalogueAssumption
  <2> QED
    BY <1>2, <2>3 DEF PassSlots, Slots, Owners, Markets
<1> QED
  BY <1>1, <1>2

LEMMA BatchElim ==
    ASSUME NEW b \in Batch
    PROVE  DOMAIN b \subseteq Slots /\ \A s \in DOMAIN b : b[s] \in RowType
BY DEF Batch

LEMMA BatchIntro ==
    ASSUME NEW D \in SUBSET Slots, NEW f \in [D -> RowType]
    PROVE  f \in Batch
BY DEF Batch

LEMMA TargetsElim ==
    ASSUME NEW b \in Targets
    PROVE  DOMAIN b \subseteq Slots /\ \A s \in DOMAIN b : b[s] \in Int
BY DEF Targets

LEMMA TargetsIntro ==
    ASSUME NEW D \in SUBSET Slots, NEW f \in [D -> Int]
    PROVE  f \in Targets
BY DEF Targets

LEMMA FriendlyType ==
    ASSUME NEW amount \in Int, NEW rate \in Nat, NEW z
    PROVE  Friendly(amount, rate, z) \in Int
PROOF
<1> DEFINE x == amount * rate
<1>1. x \in Int
  OBVIOUS
<1>2. Friendly(amount, rate, z)
          = IF x <= 0 THEN 0 ELSE IF z THEN FriendlyWhole(x) ELSE FriendlyCents(x)
  BY DEF Friendly
<1> HIDE DEF x
<1> QED
  BY <1>1, <1>2, FriendlyIsCharm, FriendlyWholeIsNear

LEMMA DeriveBaseType ==
    ASSUME NEW sticker \in Int, NEW vat \in Nat
    PROVE  DeriveBase(sticker, vat) \in Int
BY DEF DeriveBase

LEMMA SuggestedType ==
    ASSUME TypeInv, NEW s \in Slots, NEW quote \in Quotes
    PROVE  Suggested(s, quote) \in Int
PROOF
<1>1. row[Anchor(s)].amount \in Int
  BY SlotSets DEF TypeInv, RowType
<1>2. CASE CurrencyIn(s) = USD
  BY <1>1, <1>2 DEF Suggested
<1>3. CASE CurrencyIn(s) # USD
  <2>1. quote[CurrencyIn(s)] \in Nat
    BY <1>3, CurrencyType, CatalogueAssumption
  <2>2. Friendly(row[Anchor(s)].amount, quote[CurrencyIn(s)], CurrencyIn(s) \in ZeroDecimal) \in Int
    BY <1>1, <2>1, FriendlyType
  <2> QED
    BY <1>3, <2>2 DEF Suggested
<1> QED
  BY <1>2, <1>3

LEMMA VatType == \A c \in Countries : VatRate[c] \in 0..1000 /\ VatRate[c] \in Nat
PROOF
<1>1. VatRate \in [Countries -> 0..1000]
  BY CatalogueAssumption
<1> QED
  BY <1>1

LEMMA UnitAmountType ==
    ASSUME TypeInv, NEW d \in Deploys, NEW s \in DOMAIN job[d].batch
    PROVE  UnitAmount(d, s) \in Int
PROOF
<1>1. job[d].batch \in Batch
  BY DEF TypeInv, JobType
<1>2. s \in Slots /\ job[d].batch[s] \in RowType
  BY <1>1, BatchElim
<1>3. row[s].amount \in Int /\ job[d].batch[s].amount \in Int
  BY <1>2 DEF TypeInv, RowType
<1>4. s \in National => VatRate[s[2]] \in Nat
  BY VatType DEF National
<1>5. CASE s \in Localized
  BY <1>3, <1>5 DEF UnitAmount
<1>6. CASE s \notin Localized /\ s \in National
  BY <1>3, <1>4, <1>6, DeriveBaseType DEF UnitAmount
<1>7. CASE s \notin Localized /\ s \notin National
  BY <1>3, <1>7 DEF UnitAmount
<1> QED
  BY <1>5, <1>6, <1>7

LEMMA IdleType == Idle \in JobType /\ NoSweep \in SweepType /\ NoRow \in RowType
PROOF
<1>1. Idle \in JobType
  <2>1. 0 \in 0..LastPass
    BY CatalogueAssumption DEF LastPass
  <2> QED
    BY <2>1 DEF Idle, JobType, Known, Batch, Stages
<1> QED
  BY <1>1 DEF NoSweep, SweepType, Targets, NoRow, RowType

LEMMA JobRecord ==
    ASSUME NEW j \in JobType, NEW at \in Stages, NEW batch \in Batch,
           NEW slot \in Slots \cup {<<>>}, NEW amount \in Int, NEW id \in Nat
    PROVE  [j EXCEPT !.at = at, !.slot = slot, !.amount = amount, !.id = id, !.batch = batch]
               \in JobType
BY DEF JobType

LEMMA Archived ==
    ASSUME NEW price \in PriceType
    PROVE  LET old == [price EXCEPT !.live = FALSE]
           IN  old \in PriceType /\ old.key = price.key
BY DEF PriceType

LEMMA DoneType ==
    ASSUME TypeInv, NEW d \in Deploys, NEW s
    PROVE  Done(d, s) \in JobType
PROOF
<1> DEFINE j == job[d]
           c == [t \in DOMAIN j.batch \ {s} |-> j.batch[t]]
<1>1. j \in JobType /\ j.batch \in Batch
  BY DEF TypeInv, JobType
<1>2. Done(d, s) = [j EXCEPT !.at = "item", !.slot = <<>>, !.amount = 0, !.id = 0, !.batch = c]
  BY <1>1 DEF Done, JobType
<1> HIDE DEF j
<1>3. DOMAIN j.batch \ {s} \in SUBSET Slots /\ c \in [DOMAIN j.batch \ {s} -> RowType]
  BY <1>1, BatchElim
<1>4. c \in Batch
  BY <1>3, BatchIntro
<1>5. "item" \in Stages /\ <<>> \in Slots \cup {<<>>} /\ 0 \in Int /\ 0 \in Nat
  BY DEF Stages
<1> HIDE DEF c
<1>6. [j EXCEPT !.at = "item", !.slot = <<>>, !.amount = 0, !.id = 0, !.batch = c] \in JobType
  BY Zenon, <1>1, <1>4, <1>5, JobRecord
<1> QED
  BY <1>2, <1>6

LEMMA UpsertType ==
    ASSUME TypeInv, StageInv, NameInv, NEW d \in Deploys, NEW s \in DOMAIN job[d].batch,
           job[d].at \in Syncing, Upsert(d, s)
    PROVE  job' \in [Deploys -> JobType] /\ stripe' \in Seq(PriceType)
PROOF
<1> DEFINE current == job[d].known[s]
           amount == UnitAmount(d, s)
           kept == current # 0 /\ PriceMatches(stripe[current], amount, CurrencyIn(s))
           at == IF kept THEN "stamp" ELSE "mint"
           id == IF kept THEN current ELSE 0
<1>1. job[d] \in JobType /\ job[d].batch \in Batch
  BY DEF TypeInv, JobType
<1>2. s \in Slots
  BY <1>1, BatchElim
<1>3. current \in Nat /\ Named(current, s)
  BY <1>2 DEF StageInv, NameInv
<1>4. amount \in Int
  BY UnitAmountType
<1>5. job' = [job EXCEPT ![d].at = at, ![d].slot = s, ![d].amount = amount, ![d].id = id]
  BY DEF Upsert
<1>6. stripe' = stripe \/ (current # 0 /\ stripe' = [stripe EXCEPT ![current].live = FALSE])
  BY DEF Upsert
<1>7. at \in Stages /\ id \in Nat
  BY <1>3 DEF Stages
<1> HIDE DEF current, amount, at, id, kept
<1>8. job' \in [Deploys -> JobType]
  BY <1>1, <1>2, <1>4, <1>5, <1>7 DEF TypeInv, JobType
<1>9. stripe' \in Seq(PriceType)
  <2>1. CASE current # 0 /\ stripe' = [stripe EXCEPT ![current].live = FALSE]
    <3>1. current \in DOMAIN stripe /\ stripe \in Seq(PriceType)
      BY <1>3, <2>1 DEF Named, TypeInv
    <3>2. [stripe[current] EXCEPT !.live = FALSE] \in PriceType
      BY <3>1, Archived
    <3>3. stripe' = [stripe EXCEPT ![current] = [stripe[current] EXCEPT !.live = FALSE]]
      BY <2>1, <3>1
    <3> QED
      BY <3>1, <3>2, <3>3
  <2> QED
    BY <1>6, <2>1 DEF TypeInv
<1> QED
  BY <1>8, <1>9

LEMMA Repriced ==
    ASSUME NEW r \in RowType, NEW a \in Int
    PROVE  LET q == [r EXCEPT !.amount = a]
           IN  q \in RowType /\ q.id = r.id /\ q.curated = r.curated
BY DEF RowType

LEMMA Restamped ==
    ASSUME NEW r \in RowType, NEW id \in Nat
    PROVE  LET q == [r EXCEPT !.id = id]
           IN  q \in RowType /\ q.id = id /\ q.curated = r.curated /\ q.amount = r.amount
BY DEF RowType

LEMMA SeededType ==
    ASSUME TypeInv, NEW s \in Slots, NEW seeds \in Releases
    PROVE  /\ SeededRow(s, seeds) \in RowType
           /\ SeededRow(s, seeds).id = row[s].id
           /\ SeededRow(s, seeds).curated = row[s].curated
           /\ s \in National /\ row[s].curated => SeededRow(s, seeds) = row[s]
PROOF
<1>1. \A t \in Slots : row[t] \in RowType
  BY DEF TypeInv
<1>2. \A t \in Slots : /\ SeededAnchor(t, seeds) \in RowType
                       /\ SeededAnchor(t, seeds).id = row[t].id
                       /\ SeededAnchor(t, seeds).curated = row[t].curated
  <2> TAKE t \in Slots
  <2>1. CASE t[1] \in DOMAIN seeds
    <3>1. seeds[t[1]] \in Int
      BY <2>1, CatalogueAssumption
    <3> QED
      BY <1>1, <2>1, <3>1 DEF SeededAnchor, RowType
  <2> QED
    BY <1>1, <2>1 DEF SeededAnchor
<1>3. Anchor(s) \in Slots
  BY SlotSets
<1>4. CASE s \in National /\ row[s] = NoRow
  <2> DEFINE a == SeededAnchor(Anchor(s), seeds).amount
  <2>1. a \in Int
    BY <1>2, <1>3 DEF RowType
  <2>2. SeededRow(s, seeds) = [NoRow EXCEPT !.amount = a]
    BY <1>4 DEF SeededRow
  <2>3. ~row[s].curated
    BY <1>4 DEF NoRow
  <2> HIDE DEF a
  <2> QED
    BY <1>4, <2>1, <2>2, <2>3, IdleType, Repriced
<1>5. CASE ~(s \in National /\ row[s] = NoRow)
  BY <1>1, <1>2, <1>5 DEF SeededRow
<1> QED
  BY <1>4, <1>5

LEMMA TargetsOfRead ==
    ASSUME TypeInv, NEW quote \in Quotes
    PROVE  [s \in Missing(quote) \cup Moved(quote) |-> Suggested(s, quote)] \in Targets
PROOF
<1> DEFINE D == Missing(quote) \cup Moved(quote)
<1>1. D \in SUBSET Slots
  BY SlotSets DEF Missing, Moved
<1>2. \A s \in D : Suggested(s, quote) \in Int
  BY <1>1, SuggestedType
<1> HIDE DEF D
<1>3. [s \in D |-> Suggested(s, quote)] \in [D -> Int]
  BY <1>2
<1> QED
  BY <1>1, <1>3, TargetsIntro DEF D

LEMMA SweptType ==
    ASSUME TypeInv, NEW s \in Slots, NEW p \in Deploys \cup Beats
    PROVE  /\ SweptRow(p, s) \in RowType
           /\ SweptRow(p, s).id = row[s].id
           /\ SweptRow(p, s).curated = row[s].curated
           /\ s \notin DOMAIN sweep[p].to => SweptRow(p, s) = row[s]
PROOF
<1>1. row[s] \in RowType /\ sweep[p].to \in Targets
  BY DEF TypeInv, SweepType
<1>2. CASE s \in DOMAIN sweep[p].to
  <2>1. sweep[p].to[s] \in Int
    BY <1>1, <1>2, TargetsElim
  <2> QED
    BY <1>1, <1>2, <2>1 DEF SweptRow, RowType
<1>3. CASE s \notin DOMAIN sweep[p].to
  BY <1>1, <1>3 DEF SweptRow
<1> QED
  BY <1>2, <1>3

LEMMA AfterSweepType ==
    ASSUME TypeInv, NEW d \in Deploys
    PROVE  AfterSweep(d) \in JobType
PROOF
<1>1. job[d] \in JobType
  BY DEF TypeInv
<1>2. [job[d] EXCEPT !.at = "fetch"] \in JobType /\ [job[d] EXCEPT !.at = "booted"] \in JobType
  BY <1>1 DEF JobType, Stages
<1> QED
  BY <1>2, IdleType DEF AfterSweep

LEMMA SpendType ==
    ASSUME TypeInv, NEW what \in {"crashes", "sweeps", "edits", "requests"}, Spend(what)
    PROVE  left' \in BudgetType /\ left'.rollout = left.rollout
PROOF
<1>1. left \in BudgetType /\ left[what] > 0 /\ left' = [left EXCEPT ![what] = left[what] - 1]
  BY DEF TypeInv, Spend
<1>2. CASE what = "crashes"
  BY <1>1, <1>2 DEF BudgetType
<1>3. CASE what = "sweeps"
  BY <1>1, <1>3 DEF BudgetType
<1>4. CASE what = "edits"
  BY <1>1, <1>4 DEF BudgetType
<1>5. CASE what = "requests"
  BY <1>1, <1>5 DEF BudgetType
<1> QED
  BY <1>2, <1>3, <1>4, <1>5

----------------------------------------------------------------------------
(* Every step keeps the types and the stages.                              *)

\* What an update of one deployment has to show.
LEMMA JobUpdate ==
    ASSUME TypeInv, StageInv, NEW d \in Deploys, NEW j \in JobType,
           job' = [job EXCEPT ![d] = j], \A e \in Deploys \ {d} : sweep'[e] = sweep[e],
           j.at \in Syncing => j.known \in [Slots -> Nat],
           j.at \in Busy => j.slot \in DOMAIN j.batch,
           sweep'[d].open => j.at \in {"sweep", "boot"}
    PROVE  job' \in [Deploys -> JobType] /\ StageInv'
PROOF
<1>1. job \in [Deploys -> JobType]
  BY DEF TypeInv
<1>2. job'[d] = j /\ \A e \in Deploys \ {d} : job'[e] = job[e]
  BY <1>1
<1> QED
  BY <1>1, <1>2 DEF StageInv

LEMMA SeedType ==
    ASSUME TypeInv, StageInv, NEW d \in Deploys, Seed(d)
    PROVE  TypeInv' /\ StageInv'
PROOF
<1> DEFINE j == [Idle EXCEPT !.at = "sweep"]
<1>1. left \in BudgetType /\ left.rollout \in Seq(Releases) /\ left.rollout # <<>>
  BY DEF TypeInv, BudgetType, Seed
<1>2. Head(left.rollout) \in Releases /\ Tail(left.rollout) \in Seq(Releases)
  BY <1>1
<1>3. left' \in BudgetType
  BY <1>1, <1>2 DEF BudgetType, Seed
<1>4. row' \in [Slots -> RowType]
  BY <1>2, SeededType DEF Seed
<1>5. j \in JobType /\ j.at = "sweep"
  BY IdleType DEF JobType, Stages
<1> HIDE DEF j
<1>6. job' = [job EXCEPT ![d] = j] /\ sweep' = sweep
  BY DEF Seed, j
<1>7. job' \in [Deploys -> JobType] /\ StageInv'
  BY <1>5, <1>6, JobUpdate DEF Syncing, Busy
<1> QED
  BY <1>3, <1>4, <1>6, <1>7 DEF TypeInv, Seed

LEMMA SweepReadType ==
    ASSUME TypeInv, StageInv, NEW p \in Deploys \cup Beats, NEW quote \in Quotes,
           SweepRead(p, quote)
    PROVE  TypeInv' /\ StageInv'
PROOF
<1> DEFINE new == Missing(quote)
           to == [s \in Missing(quote) \cup Moved(quote) |-> Suggested(s, quote)]
           w == [open |-> TRUE, new |-> new, to |-> to]
<1>1. new \in SUBSET Slots
  BY SlotSets DEF Missing
<1>2. to \in Targets
  BY TargetsOfRead
<1>3. sweep' = [sweep EXCEPT ![p] = w] /\ UNCHANGED <<row, stripe, holder, job, form>>
  BY DEF SweepRead
<1> HIDE DEF new, to
<1>4. w \in SweepType
  BY <1>1, <1>2 DEF SweepType
<1> HIDE DEF w
<1>5. sweep \in [Deploys \cup Beats -> SweepType] /\ sweep' \in [Deploys \cup Beats -> SweepType]
  BY <1>3, <1>4 DEF TypeInv
<1>6. left' \in BudgetType
  BY SpendType DEF SweepRead, TypeInv
<1>7. p \in Deploys => job[p].at \in {"sweep", "boot"}
  BY DEF SweepRead
<1>8. \A e \in Deploys : e # p => sweep'[e] = sweep[e]
  BY <1>3, <1>5
<1> QED
  BY <1>3, <1>5, <1>6, <1>7, <1>8 DEF TypeInv, StageInv

LEMMA SweepCommitType ==
    ASSUME TypeInv, StageInv, NEW p \in Deploys \cup Beats, SweepCommit(p)
    PROVE  TypeInv' /\ StageInv'
PROOF
<1>1. row' \in [Slots -> RowType]
  BY SweptType DEF SweepCommit, TypeInv
<1>2. sweep' = [sweep EXCEPT ![p] = NoSweep]
  BY DEF SweepCommit
<1>3. sweep' \in [Deploys \cup Beats -> SweepType] /\ ~sweep'[p].open
      /\ \A e \in Deploys \cup Beats : e # p => sweep'[e] = sweep[e]
  BY <1>2, IdleType DEF TypeInv, NoSweep
<1>4. job' \in [Deploys -> JobType] /\ StageInv'
  <2>1. CASE p \in Deploys
    <3>1. job' = [job EXCEPT ![p] = AfterSweep(p)]
      BY <2>1 DEF SweepCommit
    <3>2. job[p] \in JobType /\ job[p].at \in {"sweep", "boot"}
      BY <2>1 DEF SweepCommit, StageInv, TypeInv
    <3>3. AfterSweep(p) = Idle
          \/ (AfterSweep(p).at = "fetch")
          \/ (/\ job[p].at = "boot" /\ AfterSweep(p).at = "booted"
              /\ AfterSweep(p).known = job[p].known
              /\ AfterSweep(p).slot = job[p].slot /\ AfterSweep(p).batch = job[p].batch)
      BY <3>2 DEF AfterSweep, JobType
    <3>4. Idle.at = "idle"
      BY DEF Idle
    <3>5. /\ AfterSweep(p).at \in Syncing => AfterSweep(p).known \in [Slots -> Nat]
          /\ AfterSweep(p).at \in Busy => AfterSweep(p).slot \in DOMAIN AfterSweep(p).batch
      BY <2>1, <3>3, <3>4 DEF Syncing, Busy, StageInv
    <3> QED
      BY <1>3, <2>1, <3>1, <3>5, AfterSweepType, JobUpdate
  <2>2. CASE p \notin Deploys
    BY <1>3, <2>2 DEF SweepCommit, TypeInv, StageInv
  <2> QED
    BY <2>1, <2>2
<1> QED
  BY <1>1, <1>3, <1>4 DEF TypeInv, SweepCommit

LEMMA FeedDownType ==
    ASSUME TypeInv, StageInv, NEW d \in Deploys, FeedDown(d)
    PROVE  TypeInv' /\ StageInv'
PROOF
<1> DEFINE j == [job[d] EXCEPT !.at = IF @ = "sweep" THEN "fetch" ELSE "booted"]
<1>1. job[d] \in JobType /\ job \in [Deploys -> JobType] /\ job[d].at \in {"sweep", "boot"}
  BY DEF FeedDown, TypeInv
<1>2. job' = [job EXCEPT ![d] = j] /\ sweep' = sweep /\ ~sweep[d].open
  BY DEF FeedDown
<1>3. /\ j \in JobType
      /\ j.at = "fetch" \/ (job[d].at = "boot" /\ j.at = "booted" /\ j.known = job[d].known
                            /\ j.slot = job[d].slot /\ j.batch = job[d].batch)
  BY <1>1 DEF JobType, Stages
<1> HIDE DEF j
<1>4. /\ j.at \in Syncing => j.known \in [Slots -> Nat]
      /\ j.at \in Busy => j.slot \in DOMAIN j.batch
  BY <1>3 DEF Syncing, Busy, StageInv
<1>5. job' \in [Deploys -> JobType] /\ StageInv'
  BY <1>2, <1>3, <1>4, JobUpdate
<1> QED
  BY <1>5 DEF TypeInv, FeedDown

LEMMA FetchType ==
    ASSUME TypeInv, StageInv, NEW d \in Deploys, Fetch(d)
    PROVE  TypeInv' /\ StageInv'
PROOF
<1> DEFINE known == [s \in Slots |-> IF Wanted(s) THEN holder[LookupKey(s)] ELSE 0]
           j == [Idle EXCEPT !.at = "item", !.known = known]
<1>1. known \in [Slots -> Nat]
  BY KeyIsKey DEF TypeInv
<1>2. job' = [job EXCEPT ![d] = j] /\ sweep' = sweep /\ job[d].at = "fetch"
  BY DEF Fetch
<1> HIDE DEF known
<1>3. j \in JobType /\ j.at = "item" /\ j.known = known
  BY <1>1, IdleType DEF JobType, Stages, Known
<1> HIDE DEF j
<1>4. ~sweep'[d].open
  BY <1>2 DEF StageInv
<1>5. job' \in [Deploys -> JobType] /\ StageInv'
  BY <1>1, <1>2, <1>3, <1>4, JobUpdate DEF Busy
<1> QED
  BY <1>5 DEF TypeInv, Fetch

LEMMA NextPassType ==
    ASSUME TypeInv, StageInv, NEW d \in Deploys, NextPass(d)
    PROVE  TypeInv' /\ StageInv'
PROOF
<1> DEFINE n == job[d].pass + 1
           due == {s \in PassSlots(n) :
                       /\ active[s[1]]
                       /\ row[IF s \in National THEN s ELSE Anchor(s)] # NoRow}
           batch == [s \in due |-> row[s]]
           j == [job[d] EXCEPT !.pass = n, !.batch = batch]
<1>1. job[d] \in JobType /\ job \in [Deploys -> JobType] /\ job[d].at = "item"
      /\ job[d].pass < LastPass
  BY DEF NextPass, TypeInv
<1>2. LastPass \in Nat /\ job[d].pass \in 0..LastPass
  BY <1>1, CatalogueAssumption DEF JobType, LastPass
<1>3. n \in 0..LastPass /\ n \in 1..LastPass
  BY <1>1, <1>2
<1>4. job' = [job EXCEPT ![d] = j] /\ sweep' = sweep
  BY <1>1 DEF NextPass
<1>5. due \in SUBSET Slots
  BY <1>3, PassType
<1> HIDE DEF n, due
<1>6. batch \in [due -> RowType]
  BY <1>5 DEF TypeInv
<1>7. batch \in Batch
  BY <1>5, <1>6, BatchIntro
<1> HIDE DEF batch
<1>8. j \in JobType /\ j.at = "item" /\ j.known = job[d].known
  BY <1>1, <1>3, <1>7 DEF JobType
<1> HIDE DEF j
<1>9. j.known \in [Slots -> Nat] /\ ~sweep'[d].open
  BY <1>1, <1>4, <1>8 DEF StageInv, Syncing
<1>10. job' \in [Deploys -> JobType] /\ StageInv'
  BY <1>4, <1>8, <1>9, JobUpdate DEF Busy
<1> QED
  BY <1>10 DEF TypeInv, NextPass

LEMMA UpsertStage ==
    ASSUME TypeInv, StageInv, NameInv, NEW d \in Deploys, NEW s \in DOMAIN job[d].batch,
           job[d].at \in {"item", "booted"}, Upsert(d, s), UNCHANGED sweep
    PROVE  StageInv'
PROOF
<1> DEFINE current == job[d].known[s]
           amount == UnitAmount(d, s)
           kept == current # 0 /\ PriceMatches(stripe[current], amount, CurrencyIn(s))
           at == IF kept THEN "stamp" ELSE "mint"
           id == IF kept THEN current ELSE 0
           j == [job[d] EXCEPT !.at = at, !.slot = s, !.amount = amount, !.id = id]
<1>1. job' \in [Deploys -> JobType] /\ job[d] \in JobType /\ job \in [Deploys -> JobType]
  BY UpsertType DEF TypeInv, Syncing
<1>2. job' = [job EXCEPT ![d].at = at, ![d].slot = s, ![d].amount = amount, ![d].id = id]
  BY DEF Upsert
<1> HIDE DEF current, amount, at, id, kept
<1>3. job' = [job EXCEPT ![d] = j]
  BY <1>1, <1>2
<1>4. j.slot = s /\ j.known = job[d].known /\ j.batch = job[d].batch
  BY <1>1 DEF JobType
<1>5. j \in JobType
  BY <1>1, <1>3
<1> HIDE DEF j
<1>6. j.known \in [Slots -> Nat] /\ j.slot \in DOMAIN j.batch /\ ~sweep'[d].open
  BY <1>4 DEF StageInv, Syncing
<1> QED
  BY <1>3, <1>5, <1>6, JobUpdate

LEMMA TakeType ==
    ASSUME TypeInv, StageInv, NameInv, NEW d \in Deploys, NEW s \in DOMAIN job[d].batch,
           Take(d, s)
    PROVE  TypeInv' /\ StageInv'
PROOF
<1>1. job[d] \in JobType /\ job \in [Deploys -> JobType] /\ job[d].at = "item"
      /\ sweep' = sweep
  BY DEF Take, TypeInv
<1>2. s \in Slots
  BY <1>1, BatchElim DEF JobType
<1>3. CASE s \in Localized /\ row[s] = NoRow
  <2> DEFINE j == [job[d] EXCEPT !.at = "boot", !.slot = s]
  <2>1. job' = [job EXCEPT ![d] = j]
    BY <1>1, <1>3 DEF Take
  <2>2. /\ j \in JobType /\ j.slot = s /\ j.at = "boot"
        /\ j.known = job[d].known /\ j.batch = job[d].batch
    BY <1>1, <1>2 DEF JobType, Stages
  <2> HIDE DEF j
  <2>3. j.known \in [Slots -> Nat] /\ j.slot \in DOMAIN j.batch
    BY <1>1, <2>2 DEF StageInv, Syncing
  <2>4. job' \in [Deploys -> JobType] /\ StageInv'
    BY <1>1, <2>1, <2>2, <2>3, JobUpdate
  <2> QED
    BY <1>3, <2>4 DEF TypeInv, Take
<1>4. CASE Upsert(d, s)
  <2>1. job' \in [Deploys -> JobType] /\ stripe' \in Seq(PriceType)
    BY <1>1, <1>4, UpsertType DEF Syncing
  <2>2. StageInv'
    BY <1>1, <1>4, UpsertStage
  <2> QED
    BY <2>1, <2>2 DEF TypeInv, Take
<1> QED
  BY <1>3, <1>4 DEF Take

LEMMA DoneStage ==
    ASSUME TypeInv, StageInv, NEW d \in Deploys, NEW s, job[d].at \in Syncing \ {"boot"},
           job' = [job EXCEPT ![d] = Done(d, s)], UNCHANGED sweep
    PROVE  job' \in [Deploys -> JobType] /\ StageInv'
PROOF
<1>1. job[d] \in JobType
  BY DEF TypeInv
<1>2. Done(d, s).at = "item" /\ Done(d, s).known = job[d].known
  BY <1>1 DEF Done, JobType
<1>3. job[d].known \in [Slots -> Nat] /\ ~sweep'[d].open
  BY DEF StageInv, Syncing
<1> QED
  BY <1>2, <1>3, DoneType, JobUpdate DEF Busy

LEMMA TakeBootedType ==
    ASSUME TypeInv, StageInv, NameInv, NEW d \in Deploys, TakeBooted(d)
    PROVE  TypeInv' /\ StageInv'
PROOF
<1> DEFINE s == job[d].slot
<1>1. job[d].at = "booted" /\ s \in DOMAIN job[d].batch /\ sweep' = sweep
  BY DEF TakeBooted, StageInv, Busy
<1>2. CASE row[s] = NoRow
  <2>1. job' = [job EXCEPT ![d] = Done(d, s)] /\ UNCHANGED stripe
    BY <1>2 DEF TakeBooted
  <2> HIDE DEF s
  <2>2. job' \in [Deploys -> JobType] /\ StageInv'
    BY <1>1, <2>1, DoneStage DEF Syncing
  <2> QED
    BY <2>1, <2>2 DEF TypeInv, TakeBooted
<1>3. CASE row[s] # NoRow
  <2>1. Upsert(d, s)
    BY <1>3 DEF TakeBooted
  <2> HIDE DEF s
  <2>2. job' \in [Deploys -> JobType] /\ stripe' \in Seq(PriceType)
    BY <1>1, <2>1, UpsertType DEF Syncing
  <2>3. StageInv'
    BY <1>1, <2>1, UpsertStage
  <2> QED
    BY <2>2, <2>3 DEF TypeInv, TakeBooted
<1> QED
  BY <1>2, <1>3

\* The slot in hand is one, and its key is a key.
LEMMA InHand ==
    ASSUME TypeInv, StageInv, NEW d \in Deploys, job[d].at \in Busy
    PROVE  /\ job[d].slot \in DOMAIN job[d].batch /\ job[d].slot \in Slots
           /\ LookupKey(job[d].slot) \in Keys
PROOF
<1>1. job[d].batch \in Batch /\ job[d].slot \in DOMAIN job[d].batch
  BY DEF TypeInv, JobType, StageInv
<1> QED
  BY <1>1, BatchElim, KeyIsKey

LEMMA MintType ==
    ASSUME TypeInv, StageInv, NEW d \in Deploys, Mint(d)
    PROVE  TypeInv' /\ StageInv'
PROOF
<1> DEFINE s == job[d].slot
           price == [key |-> LookupKey(s), amount |-> job[d].amount,
                     currency |-> CurrencyIn(s), live |-> TRUE]
           j == [job[d] EXCEPT !.at = "stamp", !.id = Len(stripe) + 1]
<1>1. job[d] \in JobType /\ job \in [Deploys -> JobType] /\ job[d].at = "mint"
  BY DEF Mint, TypeInv
<1>2. s \in DOMAIN job[d].batch /\ s \in Slots /\ LookupKey(s) \in Keys
  BY <1>1, InHand DEF Busy
<1>3. CurrencyIn(s) \in {USD} \cup Currencies /\ job[d].amount \in Int
  BY <1>1, <1>2, CurrencyType DEF JobType
<1>4. price \in PriceType
  BY <1>2, <1>3 DEF PriceType
<1>5. /\ stripe' = Append(stripe, price) /\ job' = [job EXCEPT ![d] = j]
      /\ holder' = [holder EXCEPT ![LookupKey(s)] = Len(stripe) + 1] /\ sweep' = sweep
  BY <1>1 DEF Mint
<1> HIDE DEF price
<1>6. stripe \in Seq(PriceType) /\ Len(stripe) + 1 \in Nat
  BY DEF TypeInv
<1>7. stripe' \in Seq(PriceType)
  BY <1>4, <1>5, <1>6
<1>8. holder' \in [Keys -> Nat]
  BY <1>2, <1>5, <1>6 DEF TypeInv
<1>9. j \in JobType /\ j.at = "stamp" /\ j.slot = s /\ j.known = job[d].known
      /\ j.batch = job[d].batch
  BY <1>1, <1>6 DEF JobType, Stages
<1> HIDE DEF j, s
<1>10. j.known \in [Slots -> Nat] /\ ~sweep'[d].open
  BY <1>1, <1>5, <1>9 DEF StageInv, Syncing
<1>11. job' \in [Deploys -> JobType] /\ StageInv'
  BY <1>2, <1>5, <1>9, <1>10, JobUpdate
<1> QED
  BY <1>7, <1>8, <1>11 DEF TypeInv, Mint

LEMMA StampType ==
    ASSUME TypeInv, StageInv, NEW d \in Deploys, Stamp(d)
    PROVE  /\ TypeInv' /\ StageInv'
           /\ \A t \in Slots : /\ row'[t].curated = row[t].curated
                               /\ row'[t].amount = row[t].amount
                               /\ \/ row'[t].id = row[t].id
                                  \/ t = job[d].slot /\ row'[t].id = job[d].id
PROOF
<1> DEFINE s == job[d].slot
<1>1. job[d] \in JobType /\ job[d].at = "stamp" /\ job' = [job EXCEPT ![d] = Done(d, s)]
      /\ sweep' = sweep
  BY DEF Stamp, TypeInv
<1>2. s \in Slots /\ job[d].id \in Nat
  BY <1>1, InHand DEF Busy, JobType
<1>3. row' = row \/ row' = [row EXCEPT ![s].id = job[d].id]
  BY DEF Stamp
<1> HIDE DEF s
<1>4. /\ row' \in [Slots -> RowType]
      /\ \A t \in Slots : /\ row'[t].curated = row[t].curated
                          /\ row'[t].amount = row[t].amount
                          /\ row'[t].id = row[t].id \/ (t = s /\ row'[t].id = job[d].id)
  <2> DEFINE q == [row[s] EXCEPT !.id = job[d].id]
  <2>1. row \in [Slots -> RowType] /\ row[s] \in RowType
    BY <1>2 DEF TypeInv
  <2>2. /\ q \in RowType /\ q.id = job[d].id
        /\ q.curated = row[s].curated /\ q.amount = row[s].amount
    BY <1>2, <2>1, Restamped
  <2>3. row' = row \/ row' = [row EXCEPT ![s] = q]
    BY <1>3
  <2> HIDE DEF q
  <2> QED
    BY <1>2, <2>1, <2>2, <2>3
<1>5. job' \in [Deploys -> JobType] /\ StageInv'
  BY <1>1, DoneStage DEF Syncing
<1> QED
  BY <1>4, <1>5 DEF TypeInv, Stamp, s

\* Finish and Die leave a deployment idle.
LEMMA StopType ==
    ASSUME TypeInv, StageInv, NEW d \in Deploys, Finish(d) \/ Die(d)
    PROVE  TypeInv' /\ StageInv'
PROOF
<1>1. job' = [job EXCEPT ![d] = Idle]
  BY DEF Finish, Die
<1>2. /\ sweep' \in [Deploys \cup Beats -> SweepType] /\ ~sweep'[d].open
      /\ \A e \in Deploys \ {d} : sweep'[e] = sweep[e]
  <2>1. CASE Finish(d)
    <3>1. job[d].at = "item" /\ sweep' = sweep
      BY <2>1 DEF Finish
    <3> QED
      BY <3>1 DEF StageInv, TypeInv
  <2>2. CASE Die(d)
    <3>1. sweep' = [sweep EXCEPT ![d] = NoSweep]
      BY <2>2 DEF Die
    <3> QED
      BY <3>1, IdleType DEF TypeInv, NoSweep
  <2> QED
    BY <2>1, <2>2
<1>3. job' \in [Deploys -> JobType] /\ StageInv'
  <2>1. Idle.at = "idle"
    BY DEF Idle
  <2> QED
    BY <1>1, <1>2, <2>1, IdleType, JobUpdate DEF Syncing, Busy
<1>4. left' \in BudgetType
  BY SpendType DEF Finish, Die, TypeInv
<1> QED
  BY <1>2, <1>3, <1>4 DEF TypeInv, Finish, Die

LEMMA EditType ==
    ASSUME TypeInv, StageInv, Edit
    PROVE  TypeInv' /\ StageInv'
PROOF
<1>1. ASSUME NEW s \in Slots, OpenForm(s)
      PROVE  TypeInv' /\ StageInv'
  <2>1. row[s].id \in Nat
    BY DEF TypeInv, RowType
  <2>2. form' \in [slot : Slots, id : Nat]
    BY <1>1, <2>1 DEF OpenForm
  <2>3. left' \in BudgetType
    BY <1>1, SpendType DEF OpenForm
  <2> QED
    BY <1>1, <2>2, <2>3 DEF OpenForm, TypeInv, StageInv
<1>2. ASSUME NEW amount \in Stickers, SaveForm(amount)
      PROVE  TypeInv' /\ StageInv'
  <2>1. form.slot \in Slots /\ form.id \in Nat
    BY <1>2 DEF SaveForm, TypeInv
  <2>2. amount \in Int
    BY CatalogueAssumption
  <2>3. EditedRow(amount) \in RowType
    BY <2>1, <2>2 DEF EditedRow, RowType
  <2>4. row' \in [Slots -> RowType]
    BY <1>2, <2>1, <2>3 DEF SaveForm, TypeInv
  <2> QED
    BY <1>2, <2>4 DEF SaveForm, TypeInv, StageInv
<1>3. ASSUME NEW o \in Owners, Switch(o)
      PROVE  TypeInv' /\ StageInv'
  <2>1. left' \in BudgetType
    BY <1>3, SpendType DEF Switch
  <2> QED
    BY <1>3, <2>1 DEF Switch, TypeInv, StageInv
<1> QED
  BY <1>1, <1>2, <1>3 DEF Edit

LEMMA TypeStep ==
    ASSUME TypeInv, StageInv, NameInv, CatalogueNext
    PROVE  TypeInv' /\ StageInv'
PROOF
<1>1. CASE \E d \in Deploys : Deploy(d)
  BY <1>1, SeedType, FeedDownType, FetchType, NextPassType, TakeType, TakeBootedType,
     MintType, StampType, StopType DEF Deploy
<1>2. CASE \E p \in Deploys \cup Beats : Sweep(p)
  BY <1>2, SweepReadType, SweepCommitType DEF Sweep
<1>3. CASE Edit
  BY <1>3, EditType
<1> QED
  BY <1>1, <1>2, <1>3 DEF CatalogueNext

----------------------------------------------------------------------------
(* Prices keep the key they were minted under, so what names one goes on   *)
(* naming it.                                                              *)

KeysStay == \A i \in DOMAIN stripe : i \in DOMAIN stripe' /\ stripe'[i].key = stripe[i].key

\* What Upsert does: where it leads, and which price it archives.
LEMMA UpsertFacts ==
    ASSUME TypeInv, StageInv, NameInv, NEW d \in Deploys, NEW s \in DOMAIN job[d].batch,
           job[d].at \in {"item", "booted"}, Upsert(d, s)
    PROVE  LET current == job[d].known[s] IN
           /\ s \in Slots /\ Named(current, s)
           /\ \A e \in Deploys \ {d} : job'[e] = job[e]
           /\ job'[d].known = job[d].known /\ job'[d].slot = s
           /\ \/ stripe' = stripe /\ job'[d].at = "stamp" /\ job'[d].id = current
              \/ stripe' = stripe /\ job'[d].at = "mint" /\ current = 0
              \/ /\ stripe' = [stripe EXCEPT ![current].live = FALSE]
                 /\ job'[d].at = "mint" /\ current # 0
PROOF
<1> DEFINE current == job[d].known[s]
           amount == UnitAmount(d, s)
           kept == current # 0 /\ PriceMatches(stripe[current], amount, CurrencyIn(s))
           at == IF kept THEN "stamp" ELSE "mint"
           id == IF kept THEN current ELSE 0
<1>1. job[d] \in JobType /\ job \in [Deploys -> JobType] /\ job[d].batch \in Batch
  BY DEF TypeInv, JobType
<1>2. s \in Slots
  BY <1>1, BatchElim
<1>3. Named(current, s)
  BY <1>2 DEF NameInv, Syncing
<1>4. job' = [job EXCEPT ![d].at = at, ![d].slot = s, ![d].amount = amount, ![d].id = id]
  BY DEF Upsert
<1>5. stripe' = IF kept \/ current = 0 THEN stripe ELSE [stripe EXCEPT ![current].live = FALSE]
  BY DEF Upsert
<1>6. (kept => at = "stamp" /\ id = current) /\ (~kept => at = "mint") /\ (kept => current # 0)
  OBVIOUS
<1> HIDE DEF current, amount, kept, at, id
<1>7. /\ \A e \in Deploys \ {d} : job'[e] = job[e]
      /\ job'[d].known = job[d].known /\ job'[d].slot = s
      /\ job'[d].at = at /\ job'[d].id = id
  BY <1>1, <1>4 DEF JobType
<1> QED
  BY <1>2, <1>3, <1>5, <1>6, <1>7 DEF current

\* An archived price differs from what it was in its flag alone.
LEMMA ArchiveFacts ==
    ASSUME TypeInv, NEW i \in DOMAIN stripe, stripe' = [stripe EXCEPT ![i].live = FALSE]
    PROVE  KeysStay /\ \A n \in DOMAIN stripe \ {i} : stripe'[n] = stripe[n]
PROOF
<1> DEFINE old == [stripe[i] EXCEPT !.live = FALSE]
<1>1. stripe \in Seq(PriceType) /\ stripe[i] \in PriceType
  BY DEF TypeInv
<1>2. old.key = stripe[i].key
  BY <1>1, Archived
<1>3. stripe' = [stripe EXCEPT ![i] = old]
  BY <1>1
<1> HIDE DEF old
<1> QED
  BY <1>1, <1>2, <1>3 DEF KeysStay

LEMMA UpsertKeeps ==
    ASSUME TypeInv, StageInv, NameInv, NEW d \in Deploys, NEW s \in DOMAIN job[d].batch,
           job[d].at \in {"item", "booted"}, Upsert(d, s)
    PROVE  KeysStay
PROOF
<1> DEFINE current == job[d].known[s]
<1>1. CASE stripe' = stripe
  BY <1>1 DEF KeysStay
<1>2. CASE current # 0 /\ stripe' = [stripe EXCEPT ![current].live = FALSE]
  <2>1. current \in DOMAIN stripe
    BY <1>2, UpsertFacts DEF Named
  <2> HIDE DEF current
  <2> QED
    BY <1>2, <2>1, ArchiveFacts
<1> QED
  BY <1>1, <1>2, UpsertFacts

\* A step of one deployment that leaves rows' ids, holders and the form alone.
LEMMA NameUpdate ==
    ASSUME NameInv, KeysStay, NEW d \in Deploys,
           \A s \in Slots : row'[s].id = row[s].id,
           holder' = holder, form' = form, \A e \in Deploys \ {d} : job'[e] = job[e],
           job'[d].at \in Syncing => \A s \in Slots : Named(job'[d].known[s], s),
           job'[d].at = "stamp" => Named(job'[d].id, job'[d].slot)
    PROVE  NameInv'
PROOF
<1>1. \A s \in Slots : Named(row[s].id, s)' /\ Named(holder[LookupKey(s)], s)'
  BY DEF NameInv, Named, KeysStay
<1>2. ASSUME NEW e \in Deploys
      PROVE  /\ job'[e].at \in Syncing => \A s \in Slots : Named(job[e].known[s], s)'
             /\ job'[e].at = "stamp" => Named(job[e].id, job[e].slot)'
  <2>1. /\ job'[e].at \in Syncing => \A s \in Slots : Named(job'[e].known[s], s)
        /\ job'[e].at = "stamp" => Named(job'[e].id, job'[e].slot)
    BY DEF NameInv
  <2> QED
    BY <2>1 DEF Named, KeysStay
<1>3. form' # NoForm => Named(form.id, form.slot)'
  BY DEF NameInv, Named, KeysStay
<1> QED
  BY <1>1, <1>2, <1>3 DEF NameInv

\* A step that leaves the deployments and Stripe alone.
LEMMA NameOfRows ==
    ASSUME NameInv, UNCHANGED <<stripe, holder, job>>,
           \A s \in Slots : Named(row'[s].id, s),
           form' # NoForm => Named(form'.id, form'.slot)
    PROVE  NameInv'
BY DEF NameInv, Named

LEMMA NameOfSync ==
    ASSUME TypeInv, StageInv, NameInv, NEW d \in Deploys,
           \/ Fetch(d) \/ NextPass(d) \/ TakeBooted(d) \/ Finish(d) \/ Die(d) \/ FeedDown(d)
           \/ \E s \in DOMAIN job[d].batch : Take(d, s)
    PROVE  NameInv'
PROOF
<1> DEFINE Fine == /\ \A e \in Deploys \ {d} : job'[e] = job[e]
                   /\ job'[d].at \in Syncing => \A s \in Slots : Named(job'[d].known[s], s)
                   /\ job'[d].at = "stamp" => Named(job'[d].id, job'[d].slot)
<1>0. job[d] \in JobType /\ job \in [Deploys -> JobType]
  BY DEF TypeInv
<1>1. ASSUME NEW j, job' = [job EXCEPT ![d] = j], j.at # "stamp",
             j.at \in Syncing => job[d].at \in Syncing /\ j.known = job[d].known
      PROVE  Fine
  <2>1. job'[d] = j
    BY <1>0, <1>1
  <2> QED
    BY <1>0, <1>1, <2>1 DEF NameInv
<1>2. ASSUME NEW s \in DOMAIN job[d].batch, job[d].at \in {"item", "booted"}, Upsert(d, s)
      PROVE  Fine /\ KeysStay
  <2>1. KeysStay /\ \A t \in Slots : Named(job[d].known[t], t)
    BY <1>2, UpsertKeeps DEF NameInv, Syncing
  <2> QED
    BY <1>2, <2>1, UpsertFacts
<1>3. CASE Fetch(d)
  <2> DEFINE known == [s \in Slots |-> IF Wanted(s) THEN holder[LookupKey(s)] ELSE 0]
             j == [Idle EXCEPT !.at = "item", !.known = known]
  <2>1. \A s \in Slots : Named(known[s], s)
    BY DEF NameInv, Named
  <2>2. job' = [job EXCEPT ![d] = j]
    BY <1>3 DEF Fetch
  <2> HIDE DEF known
  <2>3. j.at = "item" /\ j.known = known
    BY DEF Idle
  <2> HIDE DEF j
  <2>4. Fine
    BY <1>0, <2>1, <2>2, <2>3
  <2> HIDE DEF Fine
  <2>5. KeysStay /\ row' = row /\ holder' = holder /\ form' = form
    BY <1>3 DEF Fetch, KeysStay
  <2> QED
    BY <2>4, <2>5, NameUpdate DEF Fine
<1>4. CASE NextPass(d) \/ FeedDown(d)
  <2>1. PICK j : /\ job' = [job EXCEPT ![d] = j] /\ j.at # "stamp"
                 /\ j.at \in Syncing => job[d].at \in Syncing /\ j.known = job[d].known
    BY <1>0, <1>4 DEF NextPass, FeedDown, JobType, Syncing
  <2>2. Fine
    BY <1>1, <2>1
  <2> HIDE DEF Fine
  <2>3. KeysStay /\ row' = row /\ holder' = holder /\ form' = form
    BY <1>4 DEF NextPass, FeedDown, KeysStay
  <2> QED
    BY <2>2, <2>3, NameUpdate DEF Fine
<1>5. CASE Finish(d) \/ Die(d)
  <2>1. job' = [job EXCEPT ![d] = Idle] /\ Idle.at \notin Syncing /\ Idle.at # "stamp"
    BY <1>5 DEF Finish, Die, Idle, Syncing
  <2>2. Fine
    BY <1>1, <2>1
  <2> HIDE DEF Fine
  <2>3. KeysStay /\ row' = row /\ holder' = holder /\ form' = form
    BY <1>5 DEF Finish, Die, KeysStay
  <2> QED
    BY <2>2, <2>3, NameUpdate DEF Fine
<1>6. CASE TakeBooted(d) \/ \E s \in DOMAIN job[d].batch : Take(d, s)
  <2>1. Fine /\ KeysStay
    <3>1. CASE TakeBooted(d)
      <4>1. job[d].at = "booted" /\ job[d].slot \in DOMAIN job[d].batch
        BY <3>1, InHand DEF TakeBooted, Busy
      <4>2. CASE Upsert(d, job[d].slot)
        BY <1>2, <4>1, <4>2
      <4>3. CASE job' = [job EXCEPT ![d] = Done(d, job[d].slot)] /\ stripe' = stripe
        <5>1. Done(d, job[d].slot).at = "item" /\ Done(d, job[d].slot).known = job[d].known
          BY <1>0 DEF Done, JobType
        <5>2. Fine
          BY <1>1, <4>1, <4>3, <5>1 DEF Syncing
        <5> HIDE DEF Fine
        <5> QED
          BY <4>3, <5>2 DEF KeysStay
      <4> QED
        BY <3>1, <4>2, <4>3 DEF TakeBooted
    <3>2. ASSUME NEW s \in DOMAIN job[d].batch, Take(d, s)
          PROVE  Fine /\ KeysStay
      <4>1. job[d].at = "item"
        BY <3>2 DEF Take
      <4>2. CASE Upsert(d, s)
        BY <1>2, <4>1, <4>2
      <4>3. CASE job' = [job EXCEPT ![d].at = "boot", ![d].slot = s] /\ stripe' = stripe
        <5> DEFINE j == [job[d] EXCEPT !.at = "boot", !.slot = s]
        <5>1. j.at = "boot" /\ j.known = job[d].known /\ job' = [job EXCEPT ![d] = j]
          BY <1>0, <4>3 DEF JobType
        <5> HIDE DEF j
        <5>2. Fine
          BY <1>1, <4>1, <5>1 DEF Syncing
        <5> HIDE DEF Fine
        <5> QED
          BY <4>3, <5>2 DEF KeysStay
      <4> QED
        BY <3>2, <4>2, <4>3 DEF Take
    <3> QED
      BY <1>6, <3>1, <3>2
  <2> HIDE DEF Fine
  <2>2. row' = row /\ holder' = holder /\ form' = form
    BY <1>6 DEF TakeBooted, Take
  <2> QED
    BY <2>1, <2>2, NameUpdate DEF Fine
<1> QED
  BY <1>3, <1>4, <1>5, <1>6

LEMMA MintFacts ==
    ASSUME TypeInv, StageInv, NEW d \in Deploys, Mint(d)
    PROVE  /\ Len(stripe) + 1 \in DOMAIN stripe' /\ Len(stripe) + 1 # 0
           /\ \A i \in DOMAIN stripe : i \in DOMAIN stripe' /\ stripe'[i] = stripe[i]
           /\ stripe'[Len(stripe) + 1].key = LookupKey(job[d].slot)
           /\ stripe'[Len(stripe) + 1].live
           /\ holder'[LookupKey(job[d].slot)] = Len(stripe) + 1
           /\ \A k \in Keys \ {LookupKey(job[d].slot)} : holder'[k] = holder[k]
           /\ job'[d].at = "stamp" /\ job'[d].id = Len(stripe) + 1
           /\ job'[d].slot = job[d].slot /\ job'[d].known = job[d].known
           /\ \A e \in Deploys \ {d} : job'[e] = job[e]
PROOF
<1> DEFINE s == job[d].slot
           price == [key |-> LookupKey(s), amount |-> job[d].amount,
                     currency |-> CurrencyIn(s), live |-> TRUE]
<1>1. job[d] \in JobType /\ job \in [Deploys -> JobType] /\ job[d].at = "mint"
      /\ holder \in [Keys -> Nat] /\ stripe \in Seq(PriceType)
  BY DEF Mint, TypeInv
<1>2. LookupKey(s) \in Keys
  BY <1>1, InHand DEF Busy
<1>3. /\ stripe' = Append(stripe, price)
      /\ job' = [job EXCEPT ![d].at = "stamp", ![d].id = Len(stripe) + 1]
      /\ holder' = [holder EXCEPT ![LookupKey(s)] = Len(stripe) + 1]
  BY DEF Mint
<1>4. price.key = LookupKey(s) /\ price.live
  OBVIOUS
<1> HIDE DEF price
<1>5. /\ Len(stripe) + 1 \in DOMAIN stripe' /\ Len(stripe) + 1 # 0
      /\ \A i \in DOMAIN stripe : i \in DOMAIN stripe' /\ stripe'[i] = stripe[i]
      /\ stripe'[Len(stripe) + 1] = price
  BY <1>1, <1>3
<1>6. /\ job'[d].at = "stamp" /\ job'[d].id = Len(stripe) + 1
      /\ job'[d].slot = job[d].slot /\ job'[d].known = job[d].known
      /\ \A e \in Deploys \ {d} : job'[e] = job[e]
  BY <1>1, <1>3 DEF JobType
<1> HIDE DEF s
<1>7. /\ holder'[LookupKey(s)] = Len(stripe) + 1
      /\ \A k \in Keys \ {LookupKey(s)} : holder'[k] = holder[k]
  BY <1>1, <1>2, <1>3
<1> QED
  BY <1>4, <1>5, <1>6, <1>7 DEF s

LEMMA NameOfMint ==
    ASSUME TypeInv, StageInv, NameInv, NEW d \in Deploys, Mint(d)
    PROVE  NameInv'
PROOF
<1>1. job[d].at = "mint" /\ row' = row /\ form' = form
  BY DEF Mint
<1>2. job[d].slot \in Slots /\ \A t \in Slots : LookupKey(t) \in Keys
  BY <1>1, InHand, KeyIsKey DEF Busy
<1>3. KeysStay
  BY MintFacts DEF KeysStay
<1>4. \A t \in Slots : Named(row[t].id, t)'
  BY <1>1, <1>3 DEF NameInv, Named, KeysStay
<1>5. ASSUME NEW t \in Slots
      PROVE  Named(holder[LookupKey(t)], t)'
  <2>1. CASE t = job[d].slot
    BY <2>1, MintFacts DEF Named
  <2>2. CASE t # job[d].slot
    <3>1. LookupKey(t) \in Keys \ {LookupKey(job[d].slot)}
      BY <1>2, <2>2, KeysAreDistinct
    <3>2. holder'[LookupKey(t)] = holder[LookupKey(t)]
      BY <3>1, MintFacts
    <3> QED
      BY <1>3, <3>2 DEF NameInv, Named, KeysStay
  <2> QED
    BY <2>1, <2>2
<1>6. ASSUME NEW e \in Deploys
      PROVE  /\ job'[e].at \in Syncing => \A s \in Slots : Named(job[e].known[s], s)'
             /\ job'[e].at = "stamp" => Named(job[e].id, job[e].slot)'
  <2>1. job'[e].at \in Syncing => \A s \in Slots : Named(job'[e].known[s], s)
    BY <1>1, MintFacts DEF NameInv, Syncing
  <2>2. CASE e = d
    BY <1>3, <2>1, <2>2, MintFacts DEF Named, KeysStay
  <2>3. CASE e # d
    <3>1. job'[e] = job[e]
      BY <2>3, MintFacts
    <3> QED
      BY <1>3, <2>1, <3>1 DEF NameInv, Named, KeysStay
  <2> QED
    BY <2>2, <2>3
<1>7. form' # NoForm => Named(form.id, form.slot)'
  BY <1>1, <1>3 DEF NameInv, Named, KeysStay
<1> QED
  BY <1>4, <1>5, <1>6, <1>7 DEF NameInv

LEMMA NameStep ==
    ASSUME TypeInv, StageInv, NameInv, CatalogueNext
    PROVE  NameInv'
PROOF
<1>1. ASSUME NEW d \in Deploys, Seed(d)
      PROVE  NameInv'
  <2>1. Head(left.rollout) \in Releases
    BY <1>1 DEF TypeInv, BudgetType, Seed
  <2>2. \A s \in Slots : row'[s].id = row[s].id
    BY <1>1, <2>1, SeededType DEF Seed
  <2>3. job'[d].at = "sweep" /\ \A e \in Deploys \ {d} : job'[e] = job[e]
    BY <1>1 DEF Seed, TypeInv, Idle
  <2>4. KeysStay /\ holder' = holder /\ form' = form
    BY <1>1 DEF Seed, KeysStay
  <2> QED
    BY <2>2, <2>3, <2>4, NameUpdate DEF Syncing
<1>2. ASSUME NEW p \in Deploys \cup Beats, NEW quote \in Quotes, SweepRead(p, quote)
      PROVE  NameInv'
  BY <1>2 DEF SweepRead, NameInv, Named
<1>3. ASSUME NEW p \in Deploys \cup Beats, SweepCommit(p)
      PROVE  NameInv'
  <2>1. \A s \in Slots : row'[s].id = row[s].id
    BY <1>3, SweptType DEF SweepCommit
  <2>2. KeysStay /\ holder' = holder /\ form' = form
    BY <1>3 DEF SweepCommit, KeysStay
  <2>3. CASE p \in Deploys
    <3>1. job[p] \in JobType /\ job' = [job EXCEPT ![p] = AfterSweep(p)]
          /\ job \in [Deploys -> JobType] /\ job[p].at \in {"sweep", "boot"}
      BY <1>3, <2>3 DEF SweepCommit, TypeInv, StageInv
    <3>2. job'[p] = AfterSweep(p) /\ \A e \in Deploys \ {p} : job'[e] = job[e]
      BY <2>3, <3>1
    <3>3. /\ AfterSweep(p).at \in {"idle", "fetch", "booted"}
          /\ AfterSweep(p).at = "booted" => job[p].at = "boot" /\ AfterSweep(p).known = job[p].known
      BY <3>1 DEF AfterSweep, JobType, Idle
    <3>4. job'[p].at \in Syncing => \A s \in Slots : Named(job'[p].known[s], s)
      BY <2>3, <3>2, <3>3 DEF NameInv, Syncing
    <3> QED
      BY <2>1, <2>2, <2>3, <3>2, <3>3, <3>4, NameUpdate
  <2>4. CASE p \notin Deploys
    <3>1. UNCHANGED <<stripe, holder, job, form>>
      BY <1>3, <2>4 DEF SweepCommit
    <3> QED
      BY <2>1, <3>1, NameOfRows DEF NameInv
  <2> QED
    BY <2>3, <2>4
<1>4. ASSUME NEW d \in Deploys, Stamp(d)
      PROVE  NameInv'
  <2>1. job[d].at = "stamp" /\ Named(job[d].id, job[d].slot)
    BY <1>4 DEF Stamp, NameInv
  <2>2. \A s \in Slots : Named(row'[s].id, s)
    BY <1>4, <2>1, StampType DEF NameInv
  <2>3. stripe' = stripe /\ holder' = holder /\ form' = form
        /\ job' = [job EXCEPT ![d] = Done(d, job[d].slot)]
    BY <1>4 DEF Stamp
  <2>4. /\ job'[d].at = "item" /\ job'[d].known = job[d].known
        /\ \A e \in Deploys \ {d} : job'[e] = job[e]
    BY <2>3 DEF Done, TypeInv, JobType
  <2>5. \A e \in Deploys :
            /\ job'[e].at \in Syncing => \A s \in Slots : Named(job'[e].known[s], s)
            /\ job'[e].at = "stamp" => Named(job'[e].id, job'[e].slot)
    BY <2>1, <2>4 DEF NameInv, Syncing
  <2> QED
    BY <2>2, <2>3, <2>5 DEF NameInv, Named
<1>5. ASSUME Edit
      PROVE  NameInv'
  <2>1. ASSUME NEW s \in Slots, OpenForm(s)
        PROVE  NameInv'
    <3>1. Named(form'.id, form'.slot) /\ row' = row /\ UNCHANGED <<stripe, holder, job>>
      BY <2>1 DEF OpenForm, NameInv
    <3> QED
      BY <3>1, NameOfRows DEF NameInv
  <2>2. ASSUME NEW amount \in Stickers, SaveForm(amount)
        PROVE  NameInv'
    <3>1. form.slot \in Slots /\ Named(form.id, form.slot) /\ form' = NoForm
          /\ UNCHANGED <<stripe, holder, job>>
          /\ row' = [row EXCEPT ![form.slot] = EditedRow(amount)]
      BY <2>2 DEF SaveForm, NameInv, TypeInv
    <3>2. EditedRow(amount).id = form.id
      BY DEF EditedRow
    <3>3. \A s \in Slots : Named(row'[s].id, s)
      BY <3>1, <3>2 DEF NameInv, TypeInv
    <3> QED
      BY <3>1, <3>3, NameOfRows
  <2>3. ASSUME NEW o \in Owners, Switch(o)
        PROVE  NameInv'
    BY <2>3 DEF Switch, NameInv, Named
  <2> QED
    BY <1>5, <2>1, <2>2, <2>3 DEF Edit
<1>6. CASE \E d \in Deploys : Deploy(d)
  BY <1>1, <1>4, <1>6, NameOfSync, NameOfMint DEF Deploy
<1> QED
  BY <1>2, <1>3, <1>5, <1>6 DEF CatalogueNext, Sweep

----------------------------------------------------------------------------
(* Curated stickers.                                                       *)

\* A step that does not curate a row, open a sweep or forget an exposed slot.
LEMMA CuratedFrame ==
    ASSUME CuratedInv, exposed \subseteq exposed',
           \A s \in Slots : row'[s].curated => row[s].curated,
           \A p \in Deploys \cup Beats : DOMAIN sweep'[p].to \subseteq DOMAIN sweep[p].to
    PROVE  CuratedInv'
BY DEF CuratedInv

LEMMA ClosedSweep ==
    ASSUME TypeInv, NEW q \in Deploys \cup Beats, sweep' = [sweep EXCEPT ![q] = NoSweep]
    PROVE  \A p \in Deploys \cup Beats : DOMAIN sweep'[p].to \subseteq DOMAIN sweep[p].to
PROOF
<1>1. sweep'[q] = NoSweep /\ \A p \in Deploys \cup Beats : p # q => sweep'[p] = sweep[p]
  BY DEF TypeInv
<1>2. DOMAIN NoSweep.to = {}
  BY DEF NoSweep
<1> QED
  BY <1>1, <1>2

LEMMA CuratedStep ==
    ASSUME TypeInv, StageInv, CuratedInv, CatalogueNext
    PROVE  CuratedInv'
PROOF
<1>1. ASSUME NEW d \in Deploys, Seed(d)
      PROVE  CuratedInv'
  <2>1. Head(left.rollout) \in Releases
    BY <1>1 DEF TypeInv, BudgetType, Seed
  <2>2. \A s \in Slots : row'[s].curated = row[s].curated
    BY <1>1, <2>1, SeededType DEF Seed
  <2> QED
    BY <1>1, <2>2, CuratedFrame DEF Seed
<1>2. ASSUME NEW p \in Deploys \cup Beats, NEW quote \in Quotes, SweepRead(p, quote)
      PROVE  CuratedInv'
  <2> DEFINE D == Missing(quote) \cup Moved(quote)
             to == [s \in D |-> Suggested(s, quote)]
             w == [open |-> TRUE, new |-> Missing(quote), to |-> to]
  <2>1. sweep' = [sweep EXCEPT ![p] = w] /\ row' = row /\ exposed' = exposed
    BY <1>2 DEF SweepRead, history
  <2>2. \A s \in D : ~row[s].curated
    BY DEF Missing, Moved, NoRow
  <2>3. DOMAIN w.to = D
    OBVIOUS
  <2> HIDE DEF D, to, w
  <2>4. sweep'[p] = w /\ \A q \in Deploys \cup Beats : q # p => sweep'[q] = sweep[q]
    BY <2>1 DEF TypeInv
  <2> QED
    BY <2>1, <2>2, <2>3, <2>4 DEF CuratedInv
<1>3. ASSUME NEW p \in Deploys \cup Beats, SweepCommit(p)
      PROVE  CuratedInv'
  <2>1. \A s \in Slots : row'[s].curated = row[s].curated
    BY <1>3, SweptType DEF SweepCommit
  <2>2. sweep' = [sweep EXCEPT ![p] = NoSweep] /\ exposed' = exposed
    BY <1>3 DEF SweepCommit
  <2> QED
    BY <2>1, <2>2, ClosedSweep, CuratedFrame
<1>4. ASSUME NEW d \in Deploys, Stamp(d)
      PROVE  CuratedInv'
  BY <1>4, StampType, CuratedFrame DEF Stamp, history
<1>5. ASSUME NEW d \in Deploys, Die(d)
      PROVE  CuratedInv'
  BY <1>5, ClosedSweep, CuratedFrame DEF Die
<1>6. ASSUME NEW d \in Deploys,
             \/ FeedDown(d) \/ Fetch(d) \/ NextPass(d) \/ TakeBooted(d) \/ Mint(d) \/ Finish(d)
             \/ \E s \in DOMAIN job[d].batch : Take(d, s)
      PROVE  CuratedInv'
  <2>1. row' = row /\ sweep' = sweep /\ exposed' = exposed
    BY <1>6 DEF FeedDown, Fetch, NextPass, TakeBooted, Mint, Finish, Take, history
  <2> QED
    BY <2>1, CuratedFrame
<1>7. ASSUME NEW amount \in Stickers, SaveForm(amount)
      PROVE  CuratedInv'
  <2>1. form.slot \in Slots /\ row' = [row EXCEPT ![form.slot] = EditedRow(amount)]
        /\ sweep' = sweep /\ exposed \subseteq exposed'
        /\ \A p \in Deploys \cup Beats : form.slot \in DOMAIN sweep[p].to => form.slot \in exposed'
    BY <1>7 DEF SaveForm, TypeInv
  <2>2. row'[form.slot] = EditedRow(amount)
        /\ \A s \in Slots \ {form.slot} : row'[s] = row[s]
    BY <2>1 DEF TypeInv
  <2>3. EditedRow(amount).curated => form.slot \in National
    BY DEF EditedRow
  <2> QED
    BY <2>1, <2>2, <2>3 DEF CuratedInv
<1>8. ASSUME (\E s \in Slots : OpenForm(s)) \/ (\E o \in Owners : Switch(o))
      PROVE  CuratedInv'
  BY <1>8, CuratedFrame DEF OpenForm, Switch, history
<1> QED
  BY <1>1, <1>2, <1>3, <1>4, <1>5, <1>6, <1>7, <1>8 DEF CatalogueNext, Deploy, Sweep, Edit

\* No step moves a curated sticker but a save, or a sweep it is exposed to.
LEMMA CuratedMove ==
    ASSUME TypeInv, StageInv, CuratedInv, CatalogueNext, NEW s \in Slots,
           row[s].curated, row'[s].amount # row[s].amount
    PROVE  form.slot = s \/ s \in exposed
PROOF
<1>1. ASSUME NEW d \in Deploys, Seed(d)
      PROVE  FALSE
  <2>1. Head(left.rollout) \in Releases
    BY <1>1 DEF TypeInv, BudgetType, Seed
  <2>2. row'[s] = row[s]
    BY <1>1, <2>1, SeededType DEF Seed, CuratedInv
  <2> QED
    BY <2>2
<1>2. ASSUME NEW p \in Deploys \cup Beats, SweepCommit(p)
      PROVE  s \in exposed
  <2>1. row'[s] = SweptRow(p, s)
    BY <1>2 DEF SweepCommit
  <2>2. s \in DOMAIN sweep[p].to
    BY <2>1, SweptType
  <2> QED
    BY <2>2 DEF CuratedInv
<1>3. ASSUME NEW d \in Deploys, Stamp(d)
      PROVE  FALSE
  BY <1>3, StampType
<1>4. ASSUME NEW amount \in Stickers, SaveForm(amount)
      PROVE  form.slot = s
  BY <1>4 DEF SaveForm, TypeInv
<1>5. ASSUME \/ \E d \in Deploys :
                    \/ FeedDown(d) \/ Fetch(d) \/ NextPass(d) \/ TakeBooted(d) \/ Mint(d)
                    \/ Finish(d) \/ Die(d) \/ \E t \in DOMAIN job[d].batch : Take(d, t)
             \/ \E p \in Deploys \cup Beats, quote \in Quotes : SweepRead(p, quote)
             \/ \E t \in Slots : OpenForm(t)
             \/ \E o \in Owners : Switch(o)
      PROVE  FALSE
  BY <1>5 DEF FeedDown, Fetch, NextPass, TakeBooted, Mint, Finish, Die, Take, SweepRead,
              OpenForm, Switch
<1> QED
  BY <1>1, <1>2, <1>3, <1>4, <1>5 DEF CatalogueNext, Deploy, Sweep, Edit

----------------------------------------------------------------------------
(* Lookup keys.                                                            *)

\* A step of a deployment that is not in between archive and mint.
LEMMA LiveFrame ==
    ASSUME HoldersAreLive, stripe' = stripe, holder' = holder, torn' = torn,
           \A d \in Deploys : job[d].at = "mint" => job'[d] = job[d]
    PROVE  HoldersAreLive'
BY DEF HoldersAreLive

LEMMA LiveUpsert ==
    ASSUME TypeInv, StageInv, NameInv, HoldersAreLive, NEW d \in Deploys,
           NEW s \in DOMAIN job[d].batch, job[d].at \in {"item", "booted"}, Upsert(d, s),
           holder' = holder, torn' = torn
    PROVE  HoldersAreLive'
PROOF
<1>1. CASE stripe' = stripe
  BY <1>1, UpsertFacts, LiveFrame
<1>2. CASE stripe' # stripe
  <2> DEFINE current == job[d].known[s]
  <2>1. /\ stripe' = [stripe EXCEPT ![current].live = FALSE] /\ current # 0
        /\ Named(current, s) /\ s \in Slots
        /\ job'[d].at = "mint" /\ job'[d].slot = s /\ job'[d].known[s] # 0
        /\ \A e \in Deploys \ {d} : job'[e] = job[e]
    BY <1>2, UpsertFacts
  <2>2. current \in DOMAIN stripe /\ stripe[current].key = LookupKey(s)
    BY <2>1 DEF Named
  <2> HIDE DEF current
  <2>3. \A i \in DOMAIN stripe \ {current} : stripe'[i] = stripe[i]
    BY <2>1, <2>2, ArchiveFacts
  <2>4. ASSUME NEW t \in Slots, holder'[LookupKey(t)] # 0
        PROVE  \/ stripe'[holder'[LookupKey(t)]].live \/ LookupKey(t) \in torn'
               \/ \E e \in Deploys : /\ job'[e].at = "mint" /\ job'[e].slot = t
                                     /\ job'[e].known[t] # 0
    <3>1. holder[LookupKey(t)] \in DOMAIN stripe
          /\ stripe[holder[LookupKey(t)]].key = LookupKey(t)
      BY <2>4 DEF NameInv, Named
    <3>2. CASE holder[LookupKey(t)] = current
      <4>1. t = s
        BY <2>1, <2>2, <3>1, <3>2, KeysAreDistinct
      <4> QED
        BY <2>1, <4>1
    <3>3. CASE holder[LookupKey(t)] # current
      <4>1. stripe'[holder'[LookupKey(t)]] = stripe[holder[LookupKey(t)]]
        BY <2>3, <3>1, <3>3
      <4>2. \A e \in Deploys : job[e].at = "mint" => job'[e] = job[e]
        BY <2>1
      <4> QED
        BY <2>4, <4>1, <4>2 DEF HoldersAreLive
    <3> QED
      BY <3>2, <3>3
  <2> QED
    BY <2>4 DEF HoldersAreLive
<1> QED
  BY <1>1, <1>2

LEMMA LiveMint ==
    ASSUME TypeInv, StageInv, NameInv, HoldersAreLive, NEW d \in Deploys, Mint(d)
    PROVE  HoldersAreLive'
PROOF
<1>1. job[d].slot \in Slots /\ torn' = torn \ {LookupKey(job[d].slot)}
  BY InHand DEF Mint, Busy
<1>2. ASSUME NEW t \in Slots, holder'[LookupKey(t)] # 0
      PROVE  \/ stripe'[holder'[LookupKey(t)]].live \/ LookupKey(t) \in torn'
             \/ \E e \in Deploys : /\ job'[e].at = "mint" /\ job'[e].slot = t
                                   /\ job'[e].known[t] # 0
  <2>1. CASE t = job[d].slot
    BY <2>1, MintFacts
  <2>2. CASE t # job[d].slot
    <3>1. LookupKey(t) # LookupKey(job[d].slot) /\ LookupKey(t) \in Keys
      BY <1>1, <2>2, KeysAreDistinct, KeyIsKey
    <3>2. holder'[LookupKey(t)] = holder[LookupKey(t)]
      BY <3>1, MintFacts
    <3>3. holder[LookupKey(t)] \in DOMAIN stripe
      BY <1>2, <3>2 DEF NameInv, Named
    <3>4. stripe'[holder'[LookupKey(t)]] = stripe[holder[LookupKey(t)]]
      BY <3>2, <3>3, MintFacts
    <3>5. \A e \in Deploys : job[e].slot = t => job'[e] = job[e]
      BY <2>2, MintFacts
    <3> QED
      BY <1>1, <1>2, <3>1, <3>2, <3>4, <3>5 DEF HoldersAreLive
  <2> QED
    BY <2>1, <2>2
<1> QED
  BY <1>2 DEF HoldersAreLive

LEMMA LiveStep ==
    ASSUME TypeInv, StageInv, NameInv, HoldersAreLive, CatalogueNext
    PROVE  HoldersAreLive'
PROOF
<1>0. job \in [Deploys -> JobType]
  BY DEF TypeInv
<1>1. ASSUME NEW d \in Deploys,
             Seed(d) \/ FeedDown(d) \/ Fetch(d) \/ NextPass(d) \/ Stamp(d) \/ Finish(d)
      PROVE  HoldersAreLive'
  <2>1. \A e \in Deploys \ {d} : job'[e] = job[e]
    BY <1>0, <1>1 DEF Seed, FeedDown, Fetch, NextPass, Stamp, Finish
  <2>2. job[d].at # "mint" /\ UNCHANGED <<stripe, holder, torn>>
    BY <1>1 DEF Seed, FeedDown, Fetch, NextPass, Stamp, Finish, Idle, history
  <2> QED
    BY <2>1, <2>2, LiveFrame
<1>2. ASSUME NEW d \in Deploys, Die(d)
      PROVE  HoldersAreLive'
  <2>1. /\ stripe' = stripe /\ holder' = holder /\ job' = [job EXCEPT ![d] = Idle]
        /\ torn \subseteq torn'
        /\ job[d].at = "mint" /\ job[d].known[job[d].slot] # 0 => LookupKey(job[d].slot) \in torn'
    BY <1>2 DEF Die
  <2>2. \A e \in Deploys \ {d} : job'[e] = job[e]
    BY <1>0, <2>1
  <2> QED
    BY <2>1, <2>2 DEF HoldersAreLive
<1>3. ASSUME NEW d \in Deploys, NEW s \in DOMAIN job[d].batch, Take(d, s)
      PROVE  HoldersAreLive'
  <2>1. job[d].at = "item" /\ holder' = holder /\ torn' = torn
    BY <1>3 DEF Take, history
  <2>2. CASE Upsert(d, s)
    BY <2>1, <2>2, LiveUpsert
  <2>3. CASE ~Upsert(d, s)
    <3>1. stripe' = stripe /\ \A e \in Deploys \ {d} : job'[e] = job[e]
      BY <1>0, <1>3, <2>3 DEF Take
    <3> QED
      BY <2>1, <3>1, LiveFrame
  <2> QED
    BY <2>2, <2>3
<1>4. ASSUME NEW d \in Deploys, TakeBooted(d)
      PROVE  HoldersAreLive'
  <2>1. job[d].at = "booted" /\ holder' = holder /\ torn' = torn
    BY <1>4 DEF TakeBooted, history
  <2>2. CASE Upsert(d, job[d].slot)
    BY <2>1, <2>2, InHand, LiveUpsert DEF Busy
  <2>3. CASE ~Upsert(d, job[d].slot)
    <3>1. stripe' = stripe /\ \A e \in Deploys \ {d} : job'[e] = job[e]
      BY <1>0, <1>4, <2>3 DEF TakeBooted
    <3> QED
      BY <2>1, <3>1, LiveFrame
  <2> QED
    BY <2>2, <2>3
<1>5. ASSUME NEW p \in Deploys \cup Beats, SweepCommit(p)
      PROVE  HoldersAreLive'
  <2>1. stripe' = stripe /\ holder' = holder /\ torn' = torn
    BY <1>5 DEF SweepCommit
  <2>2. \A d \in Deploys : job[d].at = "mint" => job'[d] = job[d]
    <3>1. p \in Deploys => job[p].at \in {"sweep", "boot"}
      BY <1>5 DEF SweepCommit, StageInv
    <3> QED
      BY <1>0, <1>5, <3>1 DEF SweepCommit
  <2> QED
    BY <2>1, <2>2, LiveFrame
<1>6. ASSUME \/ \E p \in Deploys \cup Beats, quote \in Quotes : SweepRead(p, quote)
             \/ Edit
      PROVE  HoldersAreLive'
  <2>1. UNCHANGED <<stripe, holder, torn, job>>
    BY <1>6 DEF SweepRead, Edit, OpenForm, SaveForm, Switch, history
  <2> QED
    BY <2>1, LiveFrame
<1> QED
  BY <1>1, <1>2, <1>3, <1>4, <1>5, <1>6, LiveMint DEF CatalogueNext, Deploy, Sweep

----------------------------------------------------------------------------
(* Every row has an amount, and so has what is on its way into one.        *)

SeedAmounts == Stickers \cup UNION {{seeds[o] : o \in DOMAIN seeds} : seeds \in Releases}

\* Rows have amounts, and stickers and conversions have anchors.
RowsInv ==
    /\ \A s \in Slots : row[s] # NoRow => row[s].amount \in Nat /\ row[Anchor(s)] # NoRow
    /\ \A o \in Owners : row[<<o, USD>>] # NoRow => row[<<o, USD>>].amount \in SeedAmounts

\* So have what is on its way into a row and what is on its way to Stripe.
FormHasRow == form # NoForm => row[form.slot] # NoRow
SweepAmount(p) ==
    /\ sweep[p].new \subseteq DOMAIN sweep[p].to
    /\ \A s \in DOMAIN sweep[p].to :
           s \in Localized \cup National /\ sweep[p].to[s] \in Nat /\ row[Anchor(s)] # NoRow
JobAmount(d) ==
    /\ job[d].amount \in Nat
    /\ \A s \in DOMAIN job[d].batch \ Localized :
           job[d].batch[s].amount \in Nat /\ row[s] # NoRow
    /\ job[d].at \in {"mint", "stamp"} => row[job[d].slot] # NoRow
PriceAmounts == \A i \in DOMAIN stripe : stripe[i].amount \in Nat

AmountInv ==
    /\ FormHasRow /\ PriceAmounts
    /\ \A p \in Deploys \cup Beats : SweepAmount(p)
    /\ \A d \in Deploys : JobAmount(d)


----------------------------------------------------------------------------
(* Rows never vanish, and have amounts.                                    *)

LEMMA AmountMeansRow == \A r : r.amount \in Nat => r # NoRow
BY DEF NoRow

LEMMA AnchorFacts ==
    ASSUME NEW s \in Slots
    PROVE  /\ Anchor(s) \in Slots /\ Anchor(s)[1] = s[1] /\ Anchor(s)[2] = USD
           /\ Anchor(s) \notin Localized \cup National
           /\ s[1] \in Owners /\ Anchor(s) = <<s[1], USD>>
           /\ s \notin Localized \cup National => s = Anchor(s)
           /\ s[2] = USD => s = Anchor(s)
           /\ s \in Localized => s \notin National /\ CurrencyIn(s) = s[2] /\ s[2] \in Currencies
           /\ s \in National => s[2] \in Countries
PROOF
<1>1. s[1] \in Owners /\ s[2] \in Markets /\ s = <<s[1], s[2]>>
  BY PairOfSlot
<1>2. PICK o, m : o = s[1] /\ m = s[2]
  OBVIOUS
<1>3. s = <<o, m>> /\ o \in Owners /\ m \in {USD} \cup Currencies \cup Countries
  BY <1>1, <1>2 DEF Markets
<1>4. Anchor(s) = <<o, USD>>
  BY <1>2 DEF Anchor
<1>5. Currencies \cap Countries = {} /\ USD \notin Currencies \cup Countries
  BY CatalogueAssumption
<1>6. /\ Localized = Owners \X Currencies /\ National = Owners \X Countries
      /\ Slots = Owners \X ({USD} \cup Currencies \cup Countries)
  BY DEF Localized, National, Slots, Markets
<1>7. CurrencyIn(s) = IF m \in Countries THEN CurrencyOf[m] ELSE m
  BY <1>2 DEF CurrencyIn
<1> QED
  BY <1>2, <1>3, <1>4, <1>5, <1>6, <1>7

LEMMA SeedAmountsType == SeedAmounts \subseteq Nat
PROOF
<1>1. Stickers \subseteq Nat
  BY CatalogueAssumption
<1>2. \A seeds \in Releases : \A o \in DOMAIN seeds : seeds[o] \in Nat
  BY CatalogueAssumption
<1>3. ASSUME NEW a \in SeedAmounts, a \notin Stickers
      PROVE  a \in Nat
  <2>1. PICK seeds \in Releases : a \in {seeds[o] : o \in DOMAIN seeds}
    BY <1>3 DEF SeedAmounts
  <2> QED
    BY <1>2, <2>1
<1> QED
  BY <1>1, <1>3

\* How a row may change.
Grown(s) == \/ row'[s] = row[s]
            \/ /\ row'[s].amount \in Nat
               /\ row[Anchor(s)] # NoRow \/ row'[Anchor(s)].amount \in Nat
               /\ s[2] = USD => row'[s].amount \in SeedAmounts

KeepsRows == \A s \in Slots : row[s] # NoRow => row'[s] # NoRow

LEMMA RowsUpdate ==
    ASSUME RowsInv, \A s \in Slots : Grown(s)
    PROVE  RowsInv' /\ KeepsRows
PROOF
<1>1. KeepsRows
  BY AmountMeansRow DEF KeepsRows, Grown
<1>2. ASSUME NEW s \in Slots, row'[s] # NoRow
      PROVE  row'[s].amount \in Nat /\ row'[Anchor(s)] # NoRow
  <2>1. Anchor(s) \in Slots
    BY AnchorFacts
  <2>2. CASE row'[s] = row[s]
    BY <1>1, <1>2, <2>1, <2>2 DEF RowsInv, KeepsRows
  <2>3. CASE row'[s] # row[s]
    BY <1>1, <2>1, <2>3, AmountMeansRow DEF Grown, KeepsRows
  <2> QED
    BY <2>2, <2>3
<1>3. ASSUME NEW o \in Owners, row'[<<o, USD>>] # NoRow
      PROVE  row'[<<o, USD>>].amount \in SeedAmounts
  <2>1. <<o, USD>> \in Slots /\ <<o, USD>>[2] = USD
    BY DEF Slots, Markets
  <2> QED
    BY <1>3, <2>1 DEF RowsInv, Grown
<1> QED
  BY <1>1, <1>2, <1>3 DEF RowsInv

LEMMA SeededAmount ==
    ASSUME TypeInv, RowsInv, NEW s \in Slots, NEW seeds \in Releases
    PROVE  \/ SeededRow(s, seeds) = row[s]
           \/ /\ SeededRow(s, seeds).amount \in Nat
              /\ row[Anchor(s)] # NoRow \/ SeededRow(Anchor(s), seeds).amount \in Nat
              /\ s[2] = USD => SeededRow(s, seeds).amount \in SeedAmounts
PROOF
<1>1. \A t \in Slots : row[t] \in RowType
  BY DEF TypeInv
<1>2. \A t \in Slots : t[1] \in DOMAIN seeds =>
          SeededAnchor(t, seeds).amount \in SeedAmounts /\ SeededAnchor(t, seeds).amount \in Nat
  <2> TAKE t \in Slots
  <2> HAVE t[1] \in DOMAIN seeds
  <2>1. seeds[t[1]] \in SeedAmounts /\ seeds[t[1]] \in Nat
    BY SeedAmountsType DEF SeedAmounts
  <2>2. SeededAnchor(t, seeds).amount = seeds[t[1]]
    BY <1>1 DEF SeededAnchor, RowType
  <2> QED
    BY <2>1, <2>2
<1>3. PICK a : a = Anchor(s)
  OBVIOUS
<1>4. /\ a \in Slots /\ a[1] = s[1] /\ a \notin Localized \cup National
      /\ s \notin Localized \cup National => s = a
  BY <1>3, AnchorFacts
<1>5. SeededRow(a, seeds) = SeededAnchor(a, seeds)
  BY <1>4 DEF SeededRow
<1>6. CASE s \in National /\ row[s] = NoRow
  <2>1. SeededRow(s, seeds) = [NoRow EXCEPT !.amount = SeededAnchor(a, seeds).amount]
    BY <1>3, <1>6 DEF SeededRow
  <2>2. SeededRow(s, seeds).amount = SeededAnchor(a, seeds).amount
    BY <2>1 DEF NoRow
  <2>3. s[2] # USD
    BY <1>6, CatalogueAssumption DEF National
  <2>4. CASE s[1] \in DOMAIN seeds
    BY <1>2, <1>3, <1>4, <1>5, <2>2, <2>3, <2>4
  <2>5. CASE s[1] \notin DOMAIN seeds
    <3>1. SeededAnchor(a, seeds) = row[a]
      BY <1>4, <2>5 DEF SeededAnchor
    <3>2. CASE row[a] = NoRow
      <4>1. SeededRow(s, seeds) = NoRow
        BY <2>1, <3>1, <3>2 DEF NoRow
      <4> QED
        BY <1>6, <4>1
    <3>3. CASE row[a] # NoRow
      <4>1. row[a].amount \in Nat
        BY <1>4, <3>3 DEF RowsInv
      <4> QED
        BY <1>3, <2>2, <2>3, <3>1, <3>3, <4>1
    <3> QED
      BY <3>2, <3>3
  <2> QED
    BY <2>4, <2>5
<1>7. CASE ~(s \in National /\ row[s] = NoRow) /\ s \in Localized \cup National
  BY <1>7 DEF SeededRow
<1>8. CASE s \notin Localized \cup National
  <2>1. s = a
    BY <1>4, <1>8
  <2>2. CASE s[1] \in DOMAIN seeds
    BY <1>2, <1>3, <1>5, <2>1, <2>2
  <2>3. CASE s[1] \notin DOMAIN seeds
    BY <1>5, <2>1, <2>3 DEF SeededAnchor
  <2> QED
    BY <2>2, <2>3
<1> QED
  BY <1>6, <1>7, <1>8

LEMMA RowsStep ==
    ASSUME TypeInv, StageInv, RowsInv, AmountInv, CatalogueNext
    PROVE  RowsInv' /\ KeepsRows
PROOF
<1> SUFFICES \A s \in Slots : Grown(s)
  BY RowsUpdate
<1> TAKE s \in Slots
<1>0. row \in [Slots -> RowType] /\ row[s] \in RowType
  BY DEF TypeInv
<1>1. CASE row' = row
  BY <1>1 DEF Grown
<1>2. ASSUME NEW d \in Deploys, Seed(d)
      PROVE  Grown(s)
  <2>1. PICK seeds \in Releases : seeds = Head(left.rollout)
    BY <1>2 DEF TypeInv, BudgetType, Seed
  <2>2. row' = [t \in Slots |-> SeededRow(t, seeds)]
    BY <1>2, <2>1 DEF Seed
  <2>3. row'[s] = SeededRow(s, seeds) /\ row'[Anchor(s)] = SeededRow(Anchor(s), seeds)
    BY <2>2, AnchorFacts
  <2> QED
    BY <2>3, SeededAmount DEF Grown
<1>3. ASSUME NEW p \in Deploys \cup Beats, SweepCommit(p)
      PROVE  Grown(s)
  <2>1. CASE row' # row /\ s \in DOMAIN sweep[p].to
    <3>1. row'[s] = [row[s] EXCEPT !.amount = sweep[p].to[s]]
      BY <1>3, <2>1 DEF SweepCommit, SweptRow
    <3>2. row'[s].amount = sweep[p].to[s]
      BY <1>0, <3>1 DEF RowType
    <3>3. s \in Localized \cup National /\ sweep[p].to[s] \in Nat /\ row[Anchor(s)] # NoRow
      BY <2>1 DEF AmountInv, SweepAmount
    <3>4. s[2] # USD
      BY <3>3, AnchorFacts
    <3> QED
      BY <3>2, <3>3, <3>4 DEF Grown
  <2>2. CASE row' # row /\ s \notin DOMAIN sweep[p].to
    BY <1>3, <2>2 DEF SweepCommit, SweptRow, Grown
  <2> QED
    BY <1>1, <2>1, <2>2
<1>4. ASSUME NEW d \in Deploys, Stamp(d)
      PROVE  Grown(s)
  <2>1. job[d].slot \in Slots /\ job[d].at = "stamp"
    BY <1>4, InHand DEF Stamp, Busy
  <2>2. CASE s = job[d].slot
    <3>1. row[s] # NoRow
      BY <2>1, <2>2 DEF AmountInv, JobAmount
    <3>2. row'[s].amount = row[s].amount
      BY <1>4, StampType
    <3>3. s[2] = USD => row[s].amount \in SeedAmounts
      BY <3>1, AnchorFacts DEF RowsInv
    <3> QED
      BY <3>1, <3>2, <3>3 DEF Grown, RowsInv
  <2>3. CASE s # job[d].slot
    <3>1. row' = row \/ row' = [row EXCEPT ![job[d].slot].id = job[d].id]
      BY <1>4 DEF Stamp
    <3> QED
      BY <1>0, <2>3, <3>1 DEF Grown
  <2> QED
    BY <2>2, <2>3
<1>5. ASSUME NEW amount \in Stickers, SaveForm(amount)
      PROVE  Grown(s)
  <2>1. form # NoForm /\ row' = [row EXCEPT ![form.slot] = EditedRow(amount)]
    BY <1>5 DEF SaveForm
  <2>2. CASE s = form.slot
    <3>1. row'[s].amount = amount /\ amount \in Nat /\ amount \in SeedAmounts
      BY <1>0, <2>1, <2>2, CatalogueAssumption DEF EditedRow, SeedAmounts
    <3>2. row[Anchor(s)] # NoRow
      BY <2>1, <2>2 DEF AmountInv, FormHasRow, RowsInv
    <3> QED
      BY <3>1, <3>2 DEF Grown
  <2>3. CASE s # form.slot
    BY <1>0, <2>1, <2>3 DEF Grown
  <2> QED
    BY <2>2, <2>3
<1>6. ASSUME NEW d \in Deploys, Deploy(d), ~Seed(d), ~Stamp(d)
      PROVE  row' = row
  BY <1>6 DEF Deploy, FeedDown, Fetch, NextPass, Take, TakeBooted, Mint, Finish, Die
<1>7. ASSUME NEW p \in Deploys \cup Beats, NEW quote \in Quotes, SweepRead(p, quote)
      PROVE  row' = row
  BY <1>7 DEF SweepRead
<1>8. CASE (\E t \in Slots : OpenForm(t)) \/ (\E o \in Owners : Switch(o))
  BY <1>1, <1>8 DEF OpenForm, Switch
<1> QED
  BY <1>1, <1>2, <1>3, <1>4, <1>5, <1>6, <1>7, <1>8 DEF CatalogueNext, Sweep, Edit

----------------------------------------------------------------------------
(* What the steps of sync_stripe_catalog do to their deployment.           *)

Others(d) == \A e \in Deploys \ {d} : job'[e] = job[e]

LEMMA UpsertDetail ==
    ASSUME TypeInv, StageInv, NEW d \in Deploys, NEW s \in DOMAIN job[d].batch,
           job[d].at \in {"item", "booted"}, Upsert(d, s)
    PROVE  LET current == job[d].known[s]
               fits == PriceMatches(stripe[current], UnitAmount(d, s), CurrencyIn(s))
           IN
           /\ Others(d)
           /\ job'[d].amount = UnitAmount(d, s) /\ job'[d].slot = s
           /\ job'[d].known = job[d].known /\ job'[d].batch = job[d].batch
           /\ job'[d].pass = job[d].pass
           /\ \/ /\ stripe' = stripe /\ job'[d].at = "stamp" /\ job'[d].id = current
                 /\ current # 0 /\ fits
              \/ stripe' = stripe /\ job'[d].at = "mint" /\ current = 0
              \/ /\ stripe' = [stripe EXCEPT ![current].live = FALSE]
                 /\ job'[d].at = "mint" /\ current # 0 /\ ~fits
PROOF
<1> DEFINE current == job[d].known[s]
           amount == UnitAmount(d, s)
           fits == PriceMatches(stripe[current], amount, CurrencyIn(s))
           kept == current # 0 /\ fits
           at == IF kept THEN "stamp" ELSE "mint"
           id == IF kept THEN current ELSE 0
<1>1. job[d] \in JobType /\ job \in [Deploys -> JobType]
  BY DEF TypeInv
<1>2. job' = [job EXCEPT ![d].at = at, ![d].slot = s, ![d].amount = amount, ![d].id = id]
  BY DEF Upsert
<1>3. stripe' = IF kept \/ current = 0 THEN stripe ELSE [stripe EXCEPT ![current].live = FALSE]
  BY DEF Upsert
<1>4. /\ kept => at = "stamp" /\ id = current /\ current # 0 /\ fits
      /\ ~kept => at = "mint" /\ (current = 0 \/ ~fits)
  OBVIOUS
<1> HIDE DEF current, amount, fits, kept, at, id
<1>5. /\ Others(d) /\ job'[d].amount = amount /\ job'[d].slot = s
      /\ job'[d].known = job[d].known /\ job'[d].batch = job[d].batch
      /\ job'[d].pass = job[d].pass /\ job'[d].at = at /\ job'[d].id = id
  BY <1>1, <1>2 DEF JobType, Others
<1>6. CASE kept
  BY <1>3, <1>4, <1>5, <1>6 DEF current, amount, fits
<1>7. CASE ~kept /\ current = 0
  BY <1>3, <1>4, <1>5, <1>7 DEF current, amount
<1>8. CASE ~kept /\ current # 0
  BY <1>3, <1>4, <1>5, <1>8 DEF current, amount, fits
<1> QED
  BY <1>6, <1>7, <1>8

LEMMA DoneDetail ==
    ASSUME TypeInv, NEW d \in Deploys, NEW s, job' = [job EXCEPT ![d] = Done(d, s)]
    PROVE  /\ Others(d)
           /\ job'[d].at = "item" /\ job'[d].amount = 0 /\ job'[d].known = job[d].known
           /\ job'[d].pass = job[d].pass /\ DOMAIN job'[d].batch = DOMAIN job[d].batch \ {s}
           /\ \A t \in DOMAIN job[d].batch \ {s} : job'[d].batch[t] = job[d].batch[t]
PROOF
<1>1. job[d] \in JobType /\ job \in [Deploys -> JobType]
  BY DEF TypeInv
<1>2. job'[d] = Done(d, s) /\ Others(d)
  BY <1>1 DEF Others
<1> DEFINE c == [t \in DOMAIN job[d].batch \ {s} |-> job[d].batch[t]]
<1>3. Done(d, s) = [job[d] EXCEPT !.at = "item", !.slot = <<>>, !.amount = 0, !.id = 0,
                                  !.batch = c]
  BY <1>1 DEF Done, JobType
<1>4. DOMAIN c = DOMAIN job[d].batch \ {s} /\ \A t \in DOMAIN c : c[t] = job[d].batch[t]
  OBVIOUS
<1> HIDE DEF c
<1>5. /\ Done(d, s).at = "item" /\ Done(d, s).amount = 0 /\ Done(d, s).known = job[d].known
      /\ Done(d, s).pass = job[d].pass /\ Done(d, s).batch = c
  BY <1>1, <1>3 DEF JobType
<1> QED
  BY <1>2, <1>4, <1>5

LEMMA MintDetail ==
    ASSUME TypeInv, StageInv, NEW d \in Deploys, Mint(d)
    PROVE  /\ Others(d) /\ job'[d].at = "stamp" /\ job'[d].id = Len(stripe) + 1
           /\ job'[d].amount = job[d].amount /\ job'[d].slot = job[d].slot
           /\ job'[d].known = job[d].known /\ job'[d].batch = job[d].batch
           /\ job'[d].pass = job[d].pass
           /\ DOMAIN stripe' = DOMAIN stripe \cup {Len(stripe) + 1}
           /\ Len(stripe) + 1 \notin DOMAIN stripe /\ Len(stripe) + 1 # 0
           /\ \A i \in DOMAIN stripe : stripe'[i] = stripe[i]
           /\ LET new == stripe'[Len(stripe) + 1]
              IN  new.amount = job[d].amount /\ new.currency = CurrencyIn(job[d].slot) /\ new.live
PROOF
<1> DEFINE price == [key |-> LookupKey(job[d].slot), amount |-> job[d].amount,
                     currency |-> CurrencyIn(job[d].slot), live |-> TRUE]
<1>1. job[d] \in JobType /\ job \in [Deploys -> JobType] /\ stripe \in Seq(PriceType)
  BY DEF TypeInv
<1>2. /\ stripe' = Append(stripe, price)
      /\ job' = [job EXCEPT ![d].at = "stamp", ![d].id = Len(stripe) + 1]
  BY DEF Mint
<1>3. /\ price.amount = job[d].amount /\ price.currency = CurrencyIn(job[d].slot)
      /\ price.live
  OBVIOUS
<1> HIDE DEF price
<1>4. /\ DOMAIN stripe' = DOMAIN stripe \cup {Len(stripe) + 1}
      /\ Len(stripe) + 1 \notin DOMAIN stripe /\ Len(stripe) + 1 # 0
      /\ \A i \in DOMAIN stripe : stripe'[i] = stripe[i]
      /\ stripe'[Len(stripe) + 1] = price
  BY <1>1, <1>2
<1>5. /\ Others(d) /\ job'[d].at = "stamp" /\ job'[d].id = Len(stripe) + 1
      /\ job'[d].amount = job[d].amount /\ job'[d].slot = job[d].slot
      /\ job'[d].known = job[d].known /\ job'[d].batch = job[d].batch
      /\ job'[d].pass = job[d].pass
  BY <1>1, <1>2 DEF JobType, Others
<1> QED
  BY <1>3, <1>4, <1>5

Due(n) == {s \in PassSlots(n) : active[s[1]] /\ row[IF s \in National THEN s ELSE Anchor(s)] # NoRow}

LEMMA NextPassDetail ==
    ASSUME TypeInv, StageInv, NEW d \in Deploys, NextPass(d)
    PROVE  LET n == job[d].pass + 1 IN
           /\ n \in 1..LastPass /\ job[d].pass \in Nat /\ PassSlots(n) \subseteq Slots
           /\ Others(d) /\ job[d].at = "item" /\ job'[d].at = "item" /\ DOMAIN job[d].batch = {}
           /\ job'[d].amount = job[d].amount /\ job'[d].known = job[d].known
           /\ job'[d].pass = n /\ DOMAIN job'[d].batch = Due(n)
           /\ \A s \in Due(n) : job'[d].batch[s] = row[s]
PROOF
<1> DEFINE n == job[d].pass + 1
           b == [s \in Due(n) |-> row[s]]
<1>1. job[d] \in JobType /\ job \in [Deploys -> JobType]
  BY DEF TypeInv
<1>2. job[d].at = "item" /\ job[d].batch = <<>> /\ job[d].pass < LastPass
  BY DEF NextPass
<1>3. n \in 1..LastPass /\ job[d].pass \in Nat
  BY <1>1, <1>2, CatalogueAssumption DEF JobType, LastPass
<1>4. job' = [job EXCEPT ![d].pass = n, ![d].batch = b]
  BY DEF NextPass, Due
<1>5. DOMAIN b = Due(n) /\ \A s \in Due(n) : b[s] = row[s]
  OBVIOUS
<1> HIDE DEF n, b
<1>6. /\ Others(d) /\ job'[d].at = "item" /\ job'[d].amount = job[d].amount
      /\ job'[d].known = job[d].known /\ job'[d].pass = n /\ job'[d].batch = b
  BY <1>1, <1>2, <1>4 DEF JobType, Others
<1>7. PassSlots(n) \subseteq Slots
  BY <1>3, PassType
<1> QED
  BY <1>2, <1>3, <1>5, <1>6, <1>7 DEF n

LEMMA FetchDetail ==
    ASSUME TypeInv, NEW d \in Deploys, Fetch(d)
    PROVE  /\ Others(d) /\ job[d].at = "fetch" /\ job'[d].at = "item" /\ job'[d].amount = 0
           /\ job'[d].pass = 0 /\ DOMAIN job'[d].batch = {}
           /\ \A s \in Slots : job'[d].known[s] \in {0, holder[LookupKey(s)]}
PROOF
<1> DEFINE known == [s \in Slots |-> IF Wanted(s) THEN holder[LookupKey(s)] ELSE 0]
           j == [Idle EXCEPT !.at = "item", !.known = known]
<1>1. job' = [job EXCEPT ![d] = j] /\ job[d].at = "fetch"
  BY DEF Fetch
<1>2. \A s \in Slots : known[s] \in {0, holder[LookupKey(s)]}
  OBVIOUS
<1> HIDE DEF known
<1>3. j.at = "item" /\ j.known = known /\ j.amount = 0 /\ j.pass = 0 /\ j.batch = <<>>
  BY DEF Idle
<1> HIDE DEF j
<1>4. job'[d] = j /\ Others(d)
  BY <1>1 DEF TypeInv, Others
<1> QED
  BY <1>1, <1>2, <1>3, <1>4

LEMMA BootDetail ==
    ASSUME TypeInv, NEW d \in Deploys, NEW s,
           job' = [job EXCEPT ![d].at = "boot", ![d].slot = s]
    PROVE  /\ Others(d) /\ job'[d].at = "boot" /\ job'[d].slot = s
           /\ job'[d].amount = job[d].amount /\ job'[d].known = job[d].known
           /\ job'[d].batch = job[d].batch /\ job'[d].pass = job[d].pass
BY DEF TypeInv, JobType, Others

\* What follows a sweep of the deployment's own, or its want of a feed.
Resumed(d) ==
    /\ job'[d].amount = job[d].amount /\ job'[d].known = job[d].known
    /\ job'[d].batch = job[d].batch /\ job'[d].pass = job[d].pass
    /\ job'[d].slot = job[d].slot
    /\ \/ job[d].at = "sweep" /\ job'[d].at = "fetch"
       \/ job[d].at = "boot" /\ job'[d].at = "booted"

LEMMA FeedDownDetail ==
    ASSUME TypeInv, NEW d \in Deploys, FeedDown(d)
    PROVE  Others(d) /\ Resumed(d)
PROOF
<1> DEFINE at == IF job[d].at = "sweep" THEN "fetch" ELSE "booted"
<1>1. job[d] \in JobType /\ job \in [Deploys -> JobType] /\ job[d].at \in {"sweep", "boot"}
  BY DEF TypeInv, FeedDown
<1>2. job' = [job EXCEPT ![d] = [job[d] EXCEPT !.at = at]]
  BY <1>1 DEF FeedDown
<1>3. \/ job[d].at = "sweep" /\ at = "fetch"
      \/ job[d].at = "boot" /\ at = "booted"
  BY <1>1
<1> HIDE DEF at
<1> QED
  BY <1>1, <1>2, <1>3 DEF JobType, Others, Resumed

LEMMA SweptDetail ==
    ASSUME TypeInv, StageInv, NEW d \in Deploys, SweepCommit(d)
    PROVE  /\ Others(d) /\ job[d].at \in {"sweep", "boot"} /\ job'[d] = AfterSweep(d)
           /\ AfterSweep(d) = Idle \/ Resumed(d)
PROOF
<1>1. job[d] \in JobType /\ job \in [Deploys -> JobType]
  BY DEF TypeInv
<1>2. job[d].at \in {"sweep", "boot"} /\ job' = [job EXCEPT ![d] = AfterSweep(d)]
  BY DEF SweepCommit, StageInv
<1>3. job'[d] = AfterSweep(d) /\ Others(d)
  BY <1>1, <1>2 DEF Others
<1>4. AfterSweep(d) = Idle \/ Resumed(d)
  BY <1>1, <1>2, <1>3 DEF AfterSweep, Resumed, JobType
<1> QED
  BY <1>2, <1>3, <1>4

----------------------------------------------------------------------------
(* Every amount is one.                                                    *)

LEMMA DeriveBaseNat ==
    ASSUME NEW sticker \in Nat, NEW vat \in Nat
    PROVE  DeriveBase(sticker, vat) \in Nat
PROOF
<1> DEFINE a == 2000 * sticker + 1000 + vat
           b == 2 * (1000 + vat)
           base == a \div b
<1>1. a \in Nat /\ b \in Nat \ {0}
  BY SMT
<1>2. DeriveBase(sticker, vat) = base
  BY DEF DeriveBase
<1> HIDE DEF a, b
<1>3. base \in Int /\ a % b \in 0..(b - 1) /\ a = b * base + (a % b)
  BY <1>1, Division
<1> HIDE DEF base
<1>4. base \in Nat
  BY SMT, <1>1, <1>3
<1> QED
  BY <1>2, <1>4

LEMMA UnitAmountNat ==
    ASSUME TypeInv, RowsInv, AmountInv, NEW d \in Deploys, NEW s \in DOMAIN job[d].batch,
           s \in Localized => row[s] # NoRow
    PROVE  UnitAmount(d, s) \in Nat /\ row[s] # NoRow
PROOF
<1>1. s \in Slots
  BY BatchElim DEF TypeInv, JobType
<1>2. CASE s \in Localized
  BY <1>1, <1>2 DEF UnitAmount, RowsInv
<1>3. CASE s \notin Localized
  <2>1. job[d].batch[s].amount \in Nat /\ row[s] # NoRow
    BY <1>3 DEF AmountInv, JobAmount
  <2>2. s \in National => s[2] \in Countries
    BY <1>1, AnchorFacts
  <2>3. CASE s \in National
    <3>1. UnitAmount(d, s) = DeriveBase(job[d].batch[s].amount, VatRate[s[2]])
      BY <1>3, <2>3 DEF UnitAmount
    <3>2. VatRate[s[2]] \in Nat
      BY <2>2, <2>3, VatType
    <3> QED
      BY <2>1, <3>1, <3>2, DeriveBaseNat
  <2>4. CASE s \notin National
    BY <1>3, <2>1, <2>4 DEF UnitAmount
  <2> QED
    BY <2>3, <2>4
<1> QED
  BY <1>2, <1>3

LEMMA FriendlyAmount ==
    ASSUME NEW a \in SeedAmounts, NEW q \in Quotes, NEW c \in Currencies
    PROVE  Friendly(a, q[c], c \in ZeroDecimal) \in Nat
BY CatalogueAssumption DEF SeedAmounts

LEMMA SuggestedNat ==
    ASSUME TypeInv, RowsInv, NEW s \in Slots, NEW quote \in Quotes, row[Anchor(s)] # NoRow
    PROVE  Suggested(s, quote) \in Nat
PROOF
<1>1. row[Anchor(s)].amount \in SeedAmounts /\ row[Anchor(s)].amount \in Nat
  BY AnchorFacts, SeedAmountsType DEF RowsInv
<1>2. CASE CurrencyIn(s) = USD
  BY <1>1, <1>2 DEF Suggested
<1>3. CASE CurrencyIn(s) # USD
  <2>1. CurrencyIn(s) \in Currencies
    BY <1>3, CurrencyType
  <2>2. Friendly(row[Anchor(s)].amount, quote[CurrencyIn(s)], CurrencyIn(s) \in ZeroDecimal) \in Nat
    BY <1>1, <2>1, FriendlyAmount
  <2> QED
    BY <1>3, <2>2 DEF Suggested
<1> QED
  BY <1>2, <1>3

LEMMA SweepReadAmount ==
    ASSUME TypeInv, RowsInv, NEW p \in Deploys \cup Beats, NEW quote \in Quotes,
           SweepRead(p, quote)
    PROVE  SweepAmount(p)'
PROOF
<1> DEFINE D == Missing(quote) \cup Moved(quote)
           to == [s \in D |-> Suggested(s, quote)]
<1>1. row' = row /\ sweep' = [sweep EXCEPT ![p] = [open |-> TRUE, new |-> Missing(quote), to |-> to]]
  BY DEF SweepRead
<1>2. sweep'[p].new = Missing(quote) /\ sweep'[p].to = to
  BY <1>1 DEF TypeInv
<1>3. \A s \in D : s \in Localized \cup National /\ s \in Slots /\ row[Anchor(s)] # NoRow
  BY SlotSets DEF Missing, Moved, RowsInv
<1>4. \A s \in D : Suggested(s, quote) \in Nat
  BY <1>3, SuggestedNat
<1>5. Missing(quote) \subseteq D
  OBVIOUS
<1> HIDE DEF D
<1> QED
  BY <1>1, <1>2, <1>3, <1>4, <1>5 DEF SweepAmount

LEMMA SweepAmountStep ==
    ASSUME TypeInv, StageInv, RowsInv, AmountInv, KeepsRows, CatalogueNext,
           NEW p \in Deploys \cup Beats
    PROVE  SweepAmount(p)'
PROOF
<1>1. CASE sweep'[p] = sweep[p]
  <2>1. sweep[p].to \in Targets
    BY DEF TypeInv, SweepType
  <2>2. DOMAIN sweep[p].to \subseteq Slots
    BY <2>1, TargetsElim
  <2>3. \A s \in DOMAIN sweep[p].to : Anchor(s) \in Slots
    BY <2>2, SlotSets
  <2>4. SweepAmount(p)
    BY DEF AmountInv
  <2> QED
    BY <1>1, <2>3, <2>4 DEF SweepAmount, KeepsRows
<1>2. CASE sweep'[p] = NoSweep
  BY <1>2 DEF SweepAmount, NoSweep
<1>3. ASSUME NEW q \in Deploys \cup Beats, Sweep(q)
      PROVE  SweepAmount(p)'
  <2>1. CASE p = q /\ ~SweepCommit(q)
    BY <1>3, <2>1, SweepReadAmount DEF Sweep
  <2>2. CASE SweepCommit(q)
    <3>1. sweep' = [sweep EXCEPT ![q] = NoSweep]
      BY <2>2 DEF SweepCommit
    <3>2. sweep'[p] = NoSweep \/ sweep'[p] = sweep[p]
      BY <3>1 DEF TypeInv
    <3> QED
      BY <1>1, <1>2, <3>2
  <2>3. CASE p # q /\ ~SweepCommit(q)
    <3>1. sweep'[p] = sweep[p]
      BY <1>3, <2>3 DEF Sweep, SweepRead, TypeInv
    <3> QED
      BY <1>1, <3>1
  <2> QED
    BY <2>1, <2>2, <2>3
<1>4. ASSUME NEW d \in Deploys, Deploy(d)
      PROVE  SweepAmount(p)'
  <2>1. CASE Die(d)
    <3>1. sweep' = [sweep EXCEPT ![d] = NoSweep]
      BY <2>1 DEF Die
    <3>2. sweep'[p] = NoSweep \/ sweep'[p] = sweep[p]
      BY <3>1 DEF TypeInv
    <3> QED
      BY <1>1, <1>2, <3>2
  <2>2. CASE ~Die(d)
    BY <1>1, <1>4, <2>2 DEF Deploy, Seed, FeedDown, Fetch, NextPass, Take, TakeBooted, Mint,
                            Stamp, Finish
  <2> QED
    BY <2>1, <2>2
<1>5. CASE Edit
  BY <1>1, <1>5 DEF Edit, OpenForm, SaveForm, Switch
<1> QED
  BY <1>3, <1>4, <1>5 DEF CatalogueNext

LEMMA FormRowStep ==
    ASSUME TypeInv, AmountInv, KeepsRows, CatalogueNext
    PROVE  FormHasRow'
PROOF
<1>1. CASE form' = form
  <2>1. form # NoForm => form.slot \in Slots
    BY DEF TypeInv
  <2> QED
    BY <1>1, <2>1 DEF AmountInv, FormHasRow, KeepsRows
<1>2. ASSUME NEW s \in Slots, OpenForm(s)
      PROVE  FormHasRow'
  <2>1. row' = row /\ form' = [slot |-> s, id |-> row[s].id] /\ row[s] # NoRow
    BY <1>2 DEF OpenForm
  <2> QED
    BY <2>1 DEF FormHasRow
<1>3. ASSUME NEW amount \in Stickers, SaveForm(amount)
      PROVE  FormHasRow'
  BY <1>3 DEF SaveForm, FormHasRow
<1>4. CASE \E o \in Owners : Switch(o)
  BY <1>1, <1>4 DEF Switch
<1>5. CASE \E p \in Deploys \cup Beats : Sweep(p)
  BY <1>1, <1>5 DEF Sweep, SweepRead, SweepCommit
<1>6. CASE \E d \in Deploys : Deploy(d)
  BY <1>1, <1>6 DEF Deploy, Seed, FeedDown, Fetch, NextPass, Take, TakeBooted, Mint, Stamp,
                    Finish, Die
<1> QED
  BY <1>2, <1>3, <1>4, <1>5, <1>6 DEF CatalogueNext, Edit

LEMMA ArchiveDetail ==
    ASSUME TypeInv, NEW i \in DOMAIN stripe, stripe' = [stripe EXCEPT ![i].live = FALSE]
    PROVE  /\ DOMAIN stripe' = DOMAIN stripe
           /\ \A n \in DOMAIN stripe : /\ stripe'[n].amount = stripe[n].amount
                                       /\ stripe'[n].currency = stripe[n].currency
                                       /\ stripe'[n].key = stripe[n].key
           /\ \A n \in DOMAIN stripe \ {i} : stripe'[n] = stripe[n]
PROOF
<1> DEFINE old == [stripe[i] EXCEPT !.live = FALSE]
<1>1. stripe \in Seq(PriceType) /\ stripe[i] \in PriceType
  BY DEF TypeInv
<1>2. /\ old.key = stripe[i].key /\ old.amount = stripe[i].amount
      /\ old.currency = stripe[i].currency
  BY <1>1 DEF PriceType
<1>3. stripe' = [stripe EXCEPT ![i] = old]
  BY <1>1
<1> HIDE DEF old
<1> QED
  BY <1>1, <1>2, <1>3

\* A deployment about to deal with a row.
LEMMA UpsertAmount ==
    ASSUME TypeInv, StageInv, NameInv, RowsInv, AmountInv, NEW d \in Deploys,
           NEW s \in DOMAIN job[d].batch, s \in Localized => row[s] # NoRow,
           job[d].at \in {"item", "booted"}, Upsert(d, s), row' = row
    PROVE  Others(d) /\ JobAmount(d)' /\ PriceAmounts'
PROOF
<1>1. UnitAmount(d, s) \in Nat /\ row[s] # NoRow
  BY UnitAmountNat
<1>2. JobAmount(d)' /\ Others(d)
  <2>1. /\ Others(d) /\ job'[d].amount = UnitAmount(d, s) /\ job'[d].slot = s
        /\ job'[d].batch = job[d].batch
    BY UpsertDetail
  <2>2. JobAmount(d)
    BY DEF AmountInv
  <2> QED
    BY <1>1, <2>1, <2>2 DEF JobAmount
<1>3. PriceAmounts'
  <2>1. CASE stripe' = stripe
    BY <2>1 DEF AmountInv, PriceAmounts
  <2>2. CASE stripe' # stripe
    <3>1. PICK i : i = job[d].known[s]
      OBVIOUS
    <3>2. i # 0 /\ stripe' = [stripe EXCEPT ![i].live = FALSE]
      BY <2>2, <3>1, UpsertDetail
    <3>3. i \in DOMAIN stripe
      BY <3>1, <3>2, UpsertFacts DEF Named
    <3> QED
      BY <3>2, <3>3, ArchiveDetail DEF AmountInv, PriceAmounts
  <2> QED
    BY <2>1, <2>2
<1> QED
  BY <1>2, <1>3

LEMMA JobAmountFrame ==
    ASSUME TypeInv, StageInv, AmountInv, KeepsRows, NEW e \in Deploys, job'[e] = job[e]
    PROVE  JobAmount(e)'
PROOF
<1>1. JobAmount(e)
  BY DEF AmountInv
<1>2. DOMAIN job[e].batch \subseteq Slots
  BY BatchElim DEF TypeInv, JobType
<1>3. job[e].at \in {"mint", "stamp"} => job[e].slot \in Slots
  BY InHand DEF Busy
<1> QED
  BY <1>1, <1>2, <1>3 DEF JobAmount, KeepsRows

LEMMA DeployAmount ==
    ASSUME TypeInv, StageInv, NameInv, RowsInv, AmountInv, KeepsRows, NEW d \in Deploys, Deploy(d)
    PROVE  Others(d) /\ JobAmount(d)' /\ PriceAmounts'
PROOF
<1>0. JobAmount(d) /\ PriceAmounts
  BY DEF AmountInv
<1>a. job[d] \in JobType /\ job \in [Deploys -> JobType]
  BY DEF TypeInv
<1>b. DOMAIN job[d].batch \subseteq Slots
  BY <1>a, BatchElim DEF JobType
<1>c. ASSUME stripe' = stripe
      PROVE  PriceAmounts'
  BY <1>0, <1>c DEF PriceAmounts
<1>d. ASSUME NEW j, job' = [job EXCEPT ![d] = j], j.amount = 0, DOMAIN j.batch = {},
             j.at \notin {"mint", "stamp"}
      PROVE  Others(d) /\ JobAmount(d)'
  <2>1. job'[d] = j /\ Others(d)
    BY <1>a, <1>d DEF Others
  <2> QED
    BY <1>d, <2>1 DEF JobAmount
<1>e. ASSUME NEW s, job' = [job EXCEPT ![d] = Done(d, s)]
      PROVE  JobAmount(d)'
  <2>1. /\ job'[d].at = "item" /\ job'[d].amount = 0
        /\ DOMAIN job'[d].batch = DOMAIN job[d].batch \ {s}
    BY <1>e, DoneDetail
  <2>2. \A t \in DOMAIN job[d].batch \ {s} : job'[d].batch[t] = job[d].batch[t]
    BY <1>e, DoneDetail
  <2>3. \A t \in DOMAIN job[d].batch : row[t] # NoRow => row'[t] # NoRow
    BY <1>b DEF KeepsRows
  <2> QED
    BY <1>0, <2>1, <2>2, <2>3 DEF JobAmount
<1>1. CASE Seed(d)
  <2> DEFINE j == [Idle EXCEPT !.at = "sweep"]
  <2>1. job' = [job EXCEPT ![d] = j] /\ stripe' = stripe
    BY <1>1 DEF Seed
  <2>2. j.amount = 0 /\ DOMAIN j.batch = {} /\ j.at = "sweep"
    BY DEF Idle
  <2> HIDE DEF j
  <2> QED
    BY <1>c, <1>d, <2>1, <2>2
<1>2. CASE FeedDown(d)
  <2>1. stripe' = stripe
    BY <1>2 DEF FeedDown
  <2>2. JobAmount(d)'
    BY <1>0, <1>2, <1>b, FeedDownDetail DEF JobAmount, Resumed, KeepsRows
  <2> QED
    BY <1>2, <1>c, <2>1, <2>2, FeedDownDetail
<1>3. CASE Fetch(d)
  <2>1. stripe' = stripe
    BY <1>3 DEF Fetch
  <2> QED
    BY <1>3, <1>c, <2>1, FetchDetail DEF JobAmount
<1>4. CASE NextPass(d)
  <2>1. stripe' = stripe /\ row' = row
    BY <1>4 DEF NextPass
  <2>2. PICK n \in 1..LastPass : n = job[d].pass + 1
    BY <1>4, NextPassDetail
  <2>3. \A s \in Due(n) \ Localized : s \in Slots /\ row[s] # NoRow
    <3>1. PassSlots(n) \subseteq Slots
      BY PassType
    <3> QED
      BY <3>1, AnchorFacts DEF Due
  <2>4. \A s \in Due(n) \ Localized : row[s].amount \in Nat
    BY <2>3 DEF RowsInv
  <2>5. JobAmount(d)'
    BY <1>0, <1>4, <2>1, <2>2, <2>3, <2>4, NextPassDetail DEF JobAmount
  <2> QED
    BY <1>4, <1>c, <2>1, <2>5, NextPassDetail
<1>5. ASSUME NEW s \in DOMAIN job[d].batch, Take(d, s)
      PROVE  Others(d) /\ JobAmount(d)' /\ PriceAmounts'
  <2>1. job[d].at = "item" /\ row' = row
    BY <1>5 DEF Take
  <2>2. CASE s \in Localized /\ row[s] = NoRow
    <3>1. job' = [job EXCEPT ![d].at = "boot", ![d].slot = s] /\ stripe' = stripe
      BY <1>5, <2>2 DEF Take
    <3> QED
      BY <1>0, <1>c, <2>1, <3>1, BootDetail DEF JobAmount
  <2>3. CASE ~(s \in Localized /\ row[s] = NoRow)
    <3>1. Upsert(d, s)
      BY <1>5, <2>3 DEF Take
    <3> QED
      BY <2>1, <2>3, <3>1, UpsertAmount
  <2> QED
    BY <2>2, <2>3
<1>6. CASE TakeBooted(d)
  <2>1. job[d].at = "booted" /\ row' = row /\ job[d].slot \in DOMAIN job[d].batch
    BY <1>6, InHand DEF TakeBooted, Busy
  <2>2. CASE row[job[d].slot] = NoRow
    <3>1. job' = [job EXCEPT ![d] = Done(d, job[d].slot)] /\ stripe' = stripe
      BY <1>6, <2>2 DEF TakeBooted
    <3>2. JobAmount(d)'
      BY <1>0, <1>b, <1>e, <2>1, <3>1
    <3> QED
      BY <1>c, <3>1, <3>2, DoneDetail
  <2>3. CASE row[job[d].slot] # NoRow
    <3>1. Upsert(d, job[d].slot)
      BY <1>6, <2>3 DEF TakeBooted
    <3> QED
      BY <2>1, <2>3, <3>1, UpsertAmount
  <2> QED
    BY <2>2, <2>3
<1>7. CASE Mint(d)
  <2>1. job[d].at = "mint" /\ row' = row
    BY <1>7 DEF Mint
  <2>2. JobAmount(d)'
    BY <1>0, <1>7, <2>1, MintDetail DEF JobAmount
  <2>3. PriceAmounts'
    BY <1>0, <1>7, MintDetail DEF JobAmount, PriceAmounts
  <2> QED
    BY <1>7, <2>2, <2>3, MintDetail
<1>8. CASE Stamp(d)
  <2>1. job' = [job EXCEPT ![d] = Done(d, job[d].slot)] /\ stripe' = stripe
    BY <1>8 DEF Stamp
  <2>2. JobAmount(d)'
    BY <1>e, <2>1
  <2> QED
    BY <1>c, <2>1, <2>2, DoneDetail
<1>9. CASE Finish(d) \/ Die(d)
  <2>1. job' = [job EXCEPT ![d] = Idle] /\ stripe' = stripe
    BY <1>9 DEF Finish, Die
  <2>2. Idle.amount = 0 /\ DOMAIN Idle.batch = {} /\ Idle.at = "idle"
    BY DEF Idle
  <2> QED
    BY <1>c, <1>d, <2>1, <2>2
<1> QED
  BY <1>1, <1>2, <1>3, <1>4, <1>5, <1>6, <1>7, <1>8, <1>9 DEF Deploy

LEMMA AmountStep ==
    ASSUME TypeInv, StageInv, NameInv, RowsInv, AmountInv, CatalogueNext
    PROVE  RowsInv' /\ AmountInv'
PROOF
<1>1. RowsInv' /\ KeepsRows
  BY RowsStep
<1>2. FormHasRow' /\ \A p \in Deploys \cup Beats : SweepAmount(p)'
  BY <1>1, FormRowStep, SweepAmountStep
<1>3. PriceAmounts' /\ \A e \in Deploys : JobAmount(e)'
  <2>1. ASSUME NEW d \in Deploys, Deploy(d)
        PROVE  PriceAmounts' /\ \A e \in Deploys : JobAmount(e)'
    BY <1>1, <2>1, DeployAmount, JobAmountFrame DEF Others
  <2>2. ASSUME NEW d \in Deploys, SweepCommit(d)
        PROVE  PriceAmounts' /\ \A e \in Deploys : JobAmount(e)'
    <3>1. stripe' = stripe
      BY <2>2 DEF SweepCommit
    <3>2. JobAmount(d)'
      <4>1. CASE AfterSweep(d) = Idle
        <5>1. job'[d] = Idle
          BY <2>2, <4>1, SweptDetail
        <5> QED
          BY <5>1 DEF Idle, JobAmount
      <4>2. CASE Resumed(d)
        <5>1. JobAmount(d) /\ DOMAIN job[d].batch \subseteq Slots
          BY BatchElim DEF AmountInv, TypeInv, JobType
        <5> QED
          BY <1>1, <4>2, <5>1 DEF JobAmount, Resumed, KeepsRows
      <4> QED
        BY <2>2, <4>1, <4>2, SweptDetail
    <3>3. Others(d)
      BY <2>2, SweptDetail
    <3> QED
      BY <1>1, <3>1, <3>2, <3>3, JobAmountFrame DEF Others, AmountInv, PriceAmounts
  <2>3. CASE job' = job /\ stripe' = stripe
    BY <1>1, <2>3, JobAmountFrame DEF AmountInv, PriceAmounts
  <2>4. CASE Edit
    BY <2>3, <2>4 DEF Edit, OpenForm, SaveForm, Switch
  <2>5. ASSUME NEW p \in Deploys \cup Beats, Sweep(p)
        PROVE  PriceAmounts' /\ \A e \in Deploys : JobAmount(e)'
    <3>1. CASE SweepCommit(p) /\ p \in Deploys
      BY <2>2, <3>1
    <3>2. CASE ~(SweepCommit(p) /\ p \in Deploys)
      BY <2>3, <2>5, <3>2 DEF Sweep, SweepRead, SweepCommit
    <3> QED
      BY <3>1, <3>2
  <2> QED
    BY <2>1, <2>4, <2>5 DEF CatalogueNext
<1> QED
  BY <1>1, <1>2, <1>3 DEF AmountInv

\* The types of the rest.
MiscInv ==
    /\ active \in [Owners -> BOOLEAN]
    /\ calm \in {"no", "deploying", "settled"}
    /\ torn \subseteq Keys /\ exposed \subseteq Slots

LEMMA MiscStep ==
    ASSUME TypeInv, StageInv, MiscInv, CatalogueNext
    PROVE  MiscInv'
PROOF
<1>1. ASSUME NEW d \in Deploys, Deploy(d)
      PROVE  MiscInv'
  <2>1. active' = active /\ exposed' = exposed
    BY <1>1 DEF Deploy, Seed, FeedDown, Fetch, NextPass, Take, TakeBooted, Mint, Stamp, Finish,
                Die, history
  <2>2. calm' \in {"no", "deploying", "settled"}
    BY <1>1 DEF Deploy, Seed, FeedDown, Fetch, NextPass, Take, TakeBooted, Mint, Stamp, Finish,
                Die, history, MiscInv
  <2>3. torn' \subseteq Keys
    <3>1. CASE Die(d) /\ job[d].at = "mint"
      <4>1. LookupKey(job[d].slot) \in Keys
        BY <3>1, InHand DEF Busy
      <4> QED
        BY <3>1, <4>1 DEF Die, MiscInv
    <3>2. CASE Mint(d)
      <4>1. torn' \subseteq torn
        BY <3>2 DEF Mint
      <4> QED
        BY <4>1 DEF MiscInv
    <3>3. CASE ~(Die(d) /\ job[d].at = "mint") /\ ~Mint(d)
      <4>1. torn' = torn
        BY <1>1, <3>3 DEF Deploy, Seed, FeedDown, Fetch, NextPass, Take, TakeBooted, Stamp,
                          Finish, Die, history
      <4> QED
        BY <4>1 DEF MiscInv
    <3> QED
      BY <3>1, <3>2, <3>3
  <2> QED
    BY <2>1, <2>2, <2>3 DEF MiscInv
<1>2. ASSUME NEW p \in Deploys \cup Beats, Sweep(p)
      PROVE  MiscInv'
  BY <1>2 DEF Sweep, SweepRead, SweepCommit, history, MiscInv
<1>3. CASE \E s \in Slots : OpenForm(s)
  BY <1>3 DEF OpenForm, history, MiscInv
<1>4. ASSUME NEW amount \in Stickers, SaveForm(amount)
      PROVE  MiscInv'
  <2>1. form.slot \in Slots
    BY <1>4 DEF SaveForm, TypeInv
  <2> QED
    BY <1>4, <2>1 DEF SaveForm, MiscInv
<1>5. ASSUME NEW o \in Owners, Switch(o)
      PROVE  MiscInv'
  <2>1. active' = [active EXCEPT ![o] = ~active[o]]
    BY <1>5 DEF Switch
  <2>2. active' \in [Owners -> BOOLEAN]
    BY <2>1 DEF MiscInv
  <2> QED
    BY <1>5, <2>2 DEF Switch, MiscInv
<1> QED
  BY <1>1, <1>2, <1>3, <1>4, <1>5 DEF CatalogueNext, Edit

LEMMA TypesFollow ==
    ASSUME TypeInv, StageInv, RowsInv, AmountInv, MiscInv
    PROVE  CatalogueTypeOK
PROOF
<1>1. row \in [Slots -> Rows]
  <2>1. ASSUME NEW s \in Slots
        PROVE  row[s] \in Rows
    <3>1. row[s] \in RowType /\ (row[s] # NoRow => row[s].amount \in Nat)
      BY DEF TypeInv, RowsInv
    <3> QED
      BY <3>1 DEF RowType, Rows
  <2> QED
    BY <2>1 DEF TypeInv
<1>2. stripe \in Seq([key : Keys, amount : Nat, currency : {USD} \cup Currencies, live : BOOLEAN])
  <2> DEFINE P == [key : Keys, amount : Nat, currency : {USD} \cup Currencies, live : BOOLEAN]
  <2>1. stripe \in Seq(PriceType) /\ \A i \in DOMAIN stripe : stripe[i].amount \in Nat
    BY DEF TypeInv, AmountInv, PriceAmounts
  <2>2. \A i \in DOMAIN stripe : stripe[i] \in PriceType
    BY <2>1
  <2>3. \A i \in DOMAIN stripe : stripe[i] \in P
    BY <2>1, <2>2 DEF PriceType
  <2> HIDE DEF P
  <2>4. stripe \in Seq(P)
    BY <2>1, <2>3
  <2> QED
    BY <2>4 DEF P
<1>3. ASSUME NEW d \in Deploys
      PROVE  /\ job[d].at \in Stages /\ job[d].pass \in 0..LastPass
             /\ job[d].amount \in Nat /\ job[d].id \in Nat
             /\ job[d].at \in {"item", "boot", "booted", "mint", "stamp"} =>
                    /\ job[d].known \in [Slots -> Nat]
                    /\ DOMAIN job[d].batch \subseteq Slots
             /\ job[d].at \in {"boot", "booted", "mint", "stamp"} =>
                    job[d].slot \in DOMAIN job[d].batch
  <2>1. /\ job[d].at \in Stages /\ job[d].pass \in 0..LastPass /\ job[d].id \in Nat
        /\ job[d].batch \in Batch
    BY DEF TypeInv, JobType
  <2>2. DOMAIN job[d].batch \subseteq Slots
    BY <2>1, BatchElim
  <2>3. job[d].amount \in Nat
    BY DEF AmountInv, JobAmount
  <2>4. /\ job[d].at \in Syncing => job[d].known \in [Slots -> Nat]
        /\ job[d].at \in Busy => job[d].slot \in DOMAIN job[d].batch
    BY DEF StageInv
  <2> QED
    BY <2>1, <2>2, <2>3, <2>4 DEF Syncing, Busy
<1>4. \A p \in Deploys \cup Beats : sweep[p].new \subseteq DOMAIN sweep[p].to
  BY DEF AmountInv, SweepAmount
<1>5. /\ holder \in [Keys -> Nat] /\ left \in BudgetType
      /\ form = NoForm \/ form \in [slot : Slots, id : Nat]
  BY DEF TypeInv
<1> QED
  BY <1>1, <1>2, <1>3, <1>4, <1>5 DEF CatalogueTypeOK, MiscInv, BudgetType

----------------------------------------------------------------------------
(* A deployment that nobody disturbs leaves every price it is in charge of *)
(* as the row asks for it.                                                 *)

\* The amount a row asks Stripe for, and the prices that will do.
Asked(s) == IF s \in National THEN DeriveBase(row[s].amount, VatRate[s[2]]) ELSE row[s].amount
Fits(i, s) == PriceMatches(stripe[i], Asked(s), CurrencyIn(s))

\* It can be sold, or is the archived one that a dead deployment left behind.
Usable(d, i, s) == stripe[i].live \/ (LookupKey(s) \in torn /\ i = job[d].known[s])

\* The row that is between the look at its price and the stamp.
Held(d) == IF job[d].at \in {"mint", "stamp"} THEN {job[d].slot} ELSE {}

\* The batch is what the rows are.
BatchOK(d) == \A s \in DOMAIN job[d].batch :
    /\ job[d].pass > 0 /\ s \in PassSlots(job[d].pass) /\ active[s[1]]
    /\ s \notin Localized => job[d].batch[s] = row[s]

\* Rows dealt with have the price they ask for.
PassedOK(d) == \A s \in Passed(d) :
    active[s[1]] /\ row[s] # NoRow =>
        row[s].id # 0 /\ Fits(row[s].id, s) /\ Usable(d, row[s].id, s)

\* What the look at Stripe found has not been archived since, but for prices
\* that this deployment replaces.
KnownOK(d) == \A s \in Slots :
    job[d].known[s] # 0 =>
        \/ stripe[job[d].known[s]].live \/ LookupKey(s) \in torn
        \/ s \in Passed(d) \cup Held(d) /\ ~Fits(job[d].known[s], s)

HandOK(d) ==
    /\ job[d].at \in {"boot", "booted"} => job[d].slot \in Localized
    /\ job[d].at \in {"mint", "stamp"} => job[d].amount = Asked(job[d].slot)
    /\ job[d].at = "mint" =>
           job[d].known[job[d].slot] = 0 \/ ~Fits(job[d].known[job[d].slot], job[d].slot)
    /\ job[d].at = "stamp" =>
           job[d].id # 0 /\ Fits(job[d].id, job[d].slot) /\ Usable(d, job[d].id, job[d].slot)

SyncInv(d) == BatchOK(d) /\ PassedOK(d) /\ KnownOK(d) /\ HandOK(d)

Undisturbed(d) == job[d] # Idle /\ \A e \in Deploys \ {d} : job[e] = Idle

\* What such a deployment leaves.
SettledOK == \A s \in Slots :
    s[2] \in BillingCurrencies \cup Countries /\ active[s[1]] /\ row[s] # NoRow =>
        /\ row[s].id # 0 /\ Fits(row[s].id, s)
        /\ stripe[row[s].id].live \/ LookupKey(s) \in torn

CalmInv ==
    /\ calm = "deploying" =>
           \E d \in Deploys : Undisturbed(d) /\ (job[d].at \in Syncing => SyncInv(d))
    /\ calm = "settled" => (\A d \in Deploys : job[d] = Idle) /\ SettledOK

\* The invariants these steps rest on.
Base == TypeInv /\ StageInv /\ NameInv /\ HoldersAreLive /\ RowsInv /\ AmountInv

LEMMA PassFacts ==
    ASSUME NEW n \in 1..LastPass
    PROVE  /\ PassSlots(n) \subseteq Slots
           /\ n = LastPass => PassSlots(n) = National
           /\ n # LastPass => PassSlots(n) \cap National = {}
PROOF
<1>1. PassSlots(n) \subseteq Slots
  BY PassType
<1>2. n = LastPass => PassSlots(n) = National
  BY DEF PassSlots
<1>3. ASSUME n # LastPass
      PROVE  PassSlots(n) \cap National = {}
  <2>1. Len(Billing) \in Nat /\ LastPass = 2 * Len(Billing) + 1
    BY CatalogueAssumption DEF LastPass
  <2>2. (n + 1) \div 2 \in 1..Len(Billing)
    BY <1>3, <2>1
  <2>3. Billing[(n + 1) \div 2] \in {USD} \cup Currencies
    BY <2>2, CatalogueAssumption
  <2>4. Billing[(n + 1) \div 2] \notin Countries
    BY <2>3, CatalogueAssumption
  <2>5. PassSlots(n) = (IF n % 2 = 1 THEN Plans ELSE Products) \X {Billing[(n + 1) \div 2]}
    BY <1>3 DEF PassSlots
  <2> QED
    BY <2>4, <2>5 DEF National
<1> QED
  BY <1>1, <1>2, <1>3

\* The passes reach every row that can be sold.
LEMMA PassesCover ==
    ASSUME NEW s \in Slots, s[2] \in BillingCurrencies \cup Countries
    PROVE  \E n \in 1..LastPass : s \in PassSlots(n)
PROOF
<1>0. Len(Billing) \in Nat /\ LastPass = 2 * Len(Billing) + 1 /\ DOMAIN Billing = 1..Len(Billing)
  BY CatalogueAssumption DEF LastPass
<1>1. s[1] \in Plans \cup Products /\ s = <<s[1], s[2]>>
  BY PairOfSlot DEF Owners
<1>2. CASE s[2] \in Countries
  <2>1. s \in PassSlots(LastPass)
    BY <1>1, <1>2 DEF PassSlots, National, Owners
  <2> QED
    BY <1>0, <2>1
<1>3. CASE s[2] \in BillingCurrencies
  <2>1. PICK i \in 1..Len(Billing) : s[2] = Billing[i]
    BY <1>0, <1>3 DEF BillingCurrencies
  <2>2. CASE s[1] \in Plans
    <3>1. PICK n \in 1..LastPass : n = 2 * i - 1
      BY <1>0, <2>1
    <3>2. n # LastPass /\ n % 2 = 1 /\ (n + 1) \div 2 = i
      BY <1>0, <2>1, <3>1
    <3>3. PassSlots(n) = Plans \X {Billing[i]}
      BY <3>2 DEF PassSlots
    <3> QED
      BY <1>1, <2>1, <2>2, <3>3
  <2>3. CASE s[1] \in Products
    <3>1. PICK n \in 1..LastPass : n = 2 * i
      BY <1>0, <2>1
    <3>2. n # LastPass /\ n % 2 # 1 /\ (n + 1) \div 2 = i
      BY <1>0, <2>1, <3>1
    <3>3. PassSlots(n) = Products \X {Billing[i]}
      BY <3>2 DEF PassSlots
    <3> QED
      BY <1>1, <2>1, <2>3, <3>3
  <2> QED
    BY <1>1, <2>2, <2>3
<1> QED
  BY <1>2, <1>3

LEMMA PassRange ==
    ASSUME TypeInv, NEW d \in Deploys
    PROVE  job[d].pass \in Nat /\ job[d].pass <= LastPass /\ LastPass \in Nat
BY CatalogueAssumption DEF TypeInv, JobType, LastPass

\* Rows as they are known to Stripe.
LEMMA SameFit ==
    ASSUME NEW s, row'[s].amount = row[s].amount, NEW i,
           stripe'[i].amount = stripe[i].amount, stripe'[i].currency = stripe[i].currency
    PROVE  Asked(s)' = Asked(s) /\ (Fits(i, s)' <=> Fits(i, s))
BY DEF Asked, Fits, PriceMatches

\* A step that leaves the rows, the prices and the deployment alone.
LEMMA SyncFrame ==
    ASSUME NEW d \in Deploys, SyncInv(d), UNCHANGED <<row, active, stripe, torn>>,
           job'[d] = job[d]
    PROVE  SyncInv(d)'
PROOF
<1>1. Passed(d)' = Passed(d) /\ Held(d)' = Held(d)
  BY DEF Passed, Held
<1>2. \A i, s : (Fits(i, s)' <=> Fits(i, s)) /\ Asked(s)' = Asked(s)
                /\ (Usable(d, i, s)' <=> Usable(d, i, s))
  BY DEF Fits, Asked, Usable, PriceMatches
<1> QED
  BY <1>1, <1>2 DEF SyncInv, BatchOK, PassedOK, KnownOK, HandOK

LEMMA BootSync ==
    ASSUME Base, NEW d \in Deploys, SyncInv(d), NEW s \in DOMAIN job[d].batch, Take(d, s),
           s \in Localized, row[s] = NoRow
    PROVE  SyncInv(d)'
PROOF
<1>1. /\ job[d].at = "item" /\ UNCHANGED <<row, active, torn, stripe>>
      /\ job' = [job EXCEPT ![d].at = "boot", ![d].slot = s]
  BY DEF Take, history
<1>2. /\ job'[d].at = "boot" /\ job'[d].slot = s /\ job'[d].known = job[d].known
      /\ job'[d].batch = job[d].batch /\ job'[d].pass = job[d].pass
  BY <1>1, BootDetail DEF Base
<1>3. Passed(d)' = Passed(d) /\ Held(d)' = {} /\ Held(d) = {}
  BY <1>1, <1>2 DEF Passed, Held
<1>4. \A i, t : (Fits(i, t)' <=> Fits(i, t)) /\ (Usable(d, i, t)' <=> Usable(d, i, t))
  BY <1>1, <1>2 DEF Fits, Asked, Usable, PriceMatches
<1>5. BatchOK(d)'
  BY <1>1, <1>2 DEF SyncInv, BatchOK
<1>6. PassedOK(d)'
  BY <1>1, <1>3, <1>4 DEF SyncInv, PassedOK
<1>7. KnownOK(d)'
  BY <1>1, <1>2, <1>3, <1>4 DEF SyncInv, KnownOK
<1>8. HandOK(d)'
  BY <1>2 DEF HandOK
<1> QED
  BY <1>5, <1>6, <1>7, <1>8 DEF SyncInv

LEMMA UpsertSync ==
    ASSUME Base, NEW d \in Deploys, SyncInv(d), NEW s \in DOMAIN job[d].batch,
           job[d].at \in {"item", "booted"}, Upsert(d, s), UNCHANGED <<row, active, torn>>
    PROVE  SyncInv(d)'
PROOF
<1>0. TypeInv /\ StageInv /\ NameInv /\ s \in Slots
  BY UpsertFacts DEF Base
<1>1. UnitAmount(d, s) = Asked(s)
  <2>1. s \in Localized => s \notin National
    BY <1>0, AnchorFacts
  <2>2. s \notin Localized => job[d].batch[s] = row[s]
    BY DEF SyncInv, BatchOK
  <2> QED
    BY <2>1, <2>2 DEF UnitAmount, Asked
<1>2. PICK c : c = job[d].known[s]
  OBVIOUS
<1>3. /\ job'[d].amount = Asked(s) /\ job'[d].slot = s
      /\ job'[d].known = job[d].known /\ job'[d].batch = job[d].batch
      /\ job'[d].pass = job[d].pass
  BY <1>0, <1>1, UpsertDetail
<1>4. \/ /\ stripe' = stripe /\ job'[d].at = "stamp" /\ job'[d].id = c
         /\ c # 0 /\ Fits(c, s)
      \/ stripe' = stripe /\ job'[d].at = "mint" /\ c = 0
      \/ /\ stripe' = [stripe EXCEPT ![c].live = FALSE]
         /\ job'[d].at = "mint" /\ c # 0 /\ ~Fits(c, s)
  BY <1>0, <1>1, <1>2, UpsertDetail DEF Fits
<1>5. Named(c, s)
  BY <1>0, <1>2, UpsertFacts
<1>6. /\ \A i \in DOMAIN stripe : stripe'[i].amount = stripe[i].amount
                                  /\ stripe'[i].currency = stripe[i].currency
      /\ \A i \in DOMAIN stripe : stripe'[i] = stripe[i] \/ (i = c /\ c # 0 /\ ~Fits(c, s))
  <2>1. CASE stripe' = stripe
    BY <2>1
  <2>2. CASE stripe' # stripe
    <3>1. c \in DOMAIN stripe
      BY <1>4, <1>5, <2>2 DEF Named
    <3> QED
      BY <1>0, <1>4, <2>2, <3>1, ArchiveDetail
  <2> QED
    BY <2>1, <2>2
<1>7. \A t : Asked(t)' = Asked(t)
  BY DEF Asked
<1>8. \A i \in DOMAIN stripe : \A t : Fits(i, t)' <=> Fits(i, t)
  BY <1>6, <1>7 DEF Fits, PriceMatches
<1>9. Passed(d)' = Passed(d) /\ Held(d)' = {s} /\ Held(d) = {}
  BY <1>3, <1>4 DEF Passed, Held
<1>10. BatchOK(d)'
  BY <1>3 DEF SyncInv, BatchOK
<1>11. PassedOK(d)'
  <2>1. ASSUME NEW t \in Passed(d), active[t[1]], row[t] # NoRow
        PROVE  row[t].id # 0 /\ Fits(row[t].id, t)' /\ Usable(d, row[t].id, t)'
    <3>1. PICK i : i = row[t].id
      OBVIOUS
    <3>2. i # 0 /\ Fits(i, t) /\ Usable(d, i, t) /\ t \in Slots
      BY <2>1, <3>1 DEF SyncInv, PassedOK, Passed
    <3>3. i \in DOMAIN stripe /\ stripe[i].key = LookupKey(t)
      BY <1>0, <3>1, <3>2 DEF NameInv, Named
    <3>4. i # c \/ c = 0 \/ Fits(c, s)
      <4>1. CASE i = c /\ c # 0
        <5>1. t = s
          BY <1>0, <1>5, <3>2, <3>3, <4>1, KeysAreDistinct DEF Named
        <5> QED
          BY <3>2, <4>1, <5>1
      <4> QED
        BY <4>1
    <3>5. stripe'[i] = stripe[i]
      BY <1>6, <3>3, <3>4
    <3> QED
      BY <1>3, <1>8, <3>1, <3>2, <3>3, <3>5 DEF Usable
  <2> QED
    BY <1>9, <2>1 DEF PassedOK
<1>12. KnownOK(d)'
  <2>1. ASSUME NEW t \in Slots, NEW k, k = job[d].known[t], k # 0
        PROVE  \/ stripe'[k].live \/ LookupKey(t) \in torn
               \/ t \in Passed(d) \cup {s} /\ ~Fits(k, t)'
    <3>1. k \in DOMAIN stripe /\ stripe[k].key = LookupKey(t)
      BY <1>0, <2>1 DEF NameInv, Named, Syncing
    <3>2. \/ stripe[k].live \/ LookupKey(t) \in torn \/ (t \in Passed(d) /\ ~Fits(k, t))
      BY <1>9, <2>1 DEF SyncInv, KnownOK
    <3>3. CASE stripe'[k] = stripe[k]
      BY <1>8, <3>1, <3>2, <3>3
    <3>4. CASE k = c /\ c # 0 /\ ~Fits(c, s)
      <4>1. t = s
        BY <1>0, <1>5, <3>1, <3>4, <2>1, KeysAreDistinct DEF Named
      <4> QED
        BY <1>8, <3>1, <3>4, <4>1
    <3> QED
      BY <1>6, <3>1, <3>3, <3>4
  <2> QED
    BY <1>3, <1>9, <2>1 DEF KnownOK
<1>13. HandOK(d)'
  <2>1. CASE job'[d].at = "stamp"
    <3>1. stripe' = stripe /\ job'[d].id = c /\ c # 0 /\ Fits(c, s)
      BY <1>4, <2>1
    <3>2. stripe[c].live \/ LookupKey(s) \in torn
      BY <1>0, <1>2, <1>9, <3>1 DEF SyncInv, KnownOK
    <3>3. Usable(d, c, s)'
      BY <1>2, <1>3, <3>1, <3>2 DEF Usable
    <3>4. Fits(c, s)'
      BY <1>7, <3>1 DEF Fits
    <3> QED
      BY <1>3, <1>7, <2>1, <3>1, <3>3, <3>4 DEF HandOK
  <2>2. CASE job'[d].at = "mint"
    <3>1. c = 0 \/ ~Fits(c, s)'
      BY <1>4, <1>5, <1>8, <2>2 DEF Named
    <3> QED
      BY <1>2, <1>3, <1>7, <2>2, <3>1 DEF HandOK
  <2> QED
    BY <1>4, <2>1, <2>2
<1> QED
  BY <1>10, <1>11, <1>12, <1>13 DEF SyncInv

\* A row is done with.
LEMMA PassedDone ==
    ASSUME TypeInv, NEW d \in Deploys, NEW s \in DOMAIN job[d].batch,
           job' = [job EXCEPT ![d] = Done(d, s)]
    PROVE  /\ Passed(d) \subseteq Passed(d)' /\ Passed(d)' \subseteq Passed(d) \cup {s}
           /\ job[d].pass > 0 /\ s \in PassSlots(job[d].pass) => s \in Passed(d)'
           /\ Held(d)' = {}
PROOF
<1>1. /\ job'[d].at = "item" /\ job'[d].pass = job[d].pass
      /\ DOMAIN job'[d].batch = DOMAIN job[d].batch \ {s}
  BY DoneDetail
<1>2. s \in Slots
  BY BatchElim DEF TypeInv, JobType
<1>3. job[d].pass \in Nat
  BY PassRange
<1>4. Passed(d) \subseteq Passed(d)' /\ Passed(d)' \subseteq Passed(d) \cup {s}
  BY <1>1 DEF Passed
<1>5. job[d].pass > 0 /\ s \in PassSlots(job[d].pass) => s \in Passed(d)'
  BY <1>1, <1>2, <1>3 DEF Passed
<1> QED
  BY <1>1, <1>4, <1>5 DEF Held

LEMMA SkipSync ==
    ASSUME Base, NEW d \in Deploys, SyncInv(d), TakeBooted(d), row[job[d].slot] = NoRow
    PROVE  SyncInv(d)'
PROOF
<1>0. TypeInv /\ StageInv
  BY DEF Base
<1>1. PICK s \in DOMAIN job[d].batch : s = job[d].slot
  BY <1>0, InHand DEF TakeBooted, Busy
<1>2. /\ job[d].at = "booted" /\ UNCHANGED <<row, active, torn, stripe>>
      /\ job' = [job EXCEPT ![d] = Done(d, s)]
  BY <1>1 DEF TakeBooted, history
<1>3. /\ job'[d].at = "item" /\ job'[d].known = job[d].known /\ job'[d].pass = job[d].pass
      /\ DOMAIN job'[d].batch = DOMAIN job[d].batch \ {s}
      /\ \A t \in DOMAIN job[d].batch \ {s} : job'[d].batch[t] = job[d].batch[t]
  BY <1>0, <1>2, DoneDetail
<1>4. /\ Passed(d) \subseteq Passed(d)' /\ Passed(d)' \subseteq Passed(d) \cup {s}
      /\ Held(d) = {} /\ Held(d)' = {}
  BY <1>0, <1>2, PassedDone DEF Held
<1>5. \A i, t : (Fits(i, t)' <=> Fits(i, t)) /\ (Usable(d, i, t)' <=> Usable(d, i, t))
  BY <1>2, <1>3 DEF Fits, Asked, Usable, PriceMatches
<1>6. BatchOK(d)'
  BY <1>2, <1>3 DEF SyncInv, BatchOK
<1>7. PassedOK(d)'
  BY <1>1, <1>2, <1>4, <1>5 DEF SyncInv, PassedOK
<1>8. KnownOK(d)'
  BY <1>2, <1>3, <1>4, <1>5 DEF SyncInv, KnownOK
<1>9. HandOK(d)'
  BY <1>3 DEF HandOK
<1> QED
  BY <1>6, <1>7, <1>8, <1>9 DEF SyncInv

LEMMA MintSync ==
    ASSUME Base, NEW d \in Deploys, SyncInv(d), Mint(d)
    PROVE  SyncInv(d)'
PROOF
<1>0. TypeInv /\ StageInv /\ NameInv
  BY DEF Base
<1>1. PICK s \in Slots : s = job[d].slot
  BY <1>0, InHand DEF Mint, Busy
<1>2. /\ job[d].at = "mint" /\ UNCHANGED <<row, active>> /\ torn' = torn \ {LookupKey(s)}
  BY <1>1 DEF Mint
<1>3. PICK new : new = Len(stripe) + 1
  OBVIOUS
<1>4. /\ job'[d].at = "stamp" /\ job'[d].id = new /\ new # 0
      /\ job'[d].amount = job[d].amount /\ job'[d].slot = s
      /\ job'[d].known = job[d].known /\ job'[d].batch = job[d].batch
      /\ job'[d].pass = job[d].pass
      /\ \A i \in DOMAIN stripe : stripe'[i] = stripe[i]
      /\ stripe'[new].amount = job[d].amount /\ stripe'[new].currency = CurrencyIn(s)
      /\ stripe'[new].live
  BY <1>0, <1>1, <1>3, MintDetail
<1>5. \A t : Asked(t)' = Asked(t)
  BY <1>2 DEF Asked
<1>6. \A i \in DOMAIN stripe : \A t : Fits(i, t)' <=> Fits(i, t)
  BY <1>4, <1>5 DEF Fits, PriceMatches
<1>7. Passed(d)' = Passed(d) /\ Held(d)' = {s} /\ Held(d) = {s}
  BY <1>1, <1>2, <1>4 DEF Passed, Held
<1>8. job[d].known[s] = 0 \/ ~Fits(job[d].known[s], s)
  BY <1>1, <1>2 DEF SyncInv, HandOK
<1>9. \A t \in Slots : t # s => (LookupKey(t) \in torn' <=> LookupKey(t) \in torn)
  BY <1>2, KeysAreDistinct
<1>10. BatchOK(d)'
  BY <1>2, <1>4 DEF SyncInv, BatchOK
<1>11. PassedOK(d)'
  <2>1. ASSUME NEW t \in Passed(d), active[t[1]], row[t] # NoRow, NEW i, i = row[t].id
        PROVE  i # 0 /\ Fits(i, t)' /\ Usable(d, i, t)'
    <3>2. i # 0 /\ Fits(i, t) /\ Usable(d, i, t) /\ t \in Slots
      BY <2>1 DEF SyncInv, PassedOK, Passed
    <3>3. i \in DOMAIN stripe
      BY <1>0, <2>1, <3>2 DEF NameInv, Named
    <3>4. Usable(d, i, t)'
      <4>1. CASE t = s
        <5>1. stripe[i].live
          BY <1>8, <3>2, <4>1 DEF Usable
        <5> QED
          BY <1>4, <3>3, <5>1 DEF Usable
      <4>2. CASE t # s
        BY <1>4, <1>9, <3>2, <3>3, <4>2 DEF Usable
      <4> QED
        BY <4>1, <4>2
    <3> QED
      BY <1>6, <3>2, <3>3, <3>4
  <2> QED
    BY <1>2, <1>7, <2>1 DEF PassedOK
<1>12. KnownOK(d)'
  <2>1. ASSUME NEW t \in Slots, NEW k, k = job[d].known[t], k # 0
        PROVE  \/ stripe'[k].live \/ LookupKey(t) \in torn'
               \/ t \in Passed(d) \cup {s} /\ ~Fits(k, t)'
    <3>1. k \in DOMAIN stripe
      BY <1>0, <1>2, <2>1 DEF NameInv, Named, Syncing
    <3>2. \/ stripe[k].live \/ LookupKey(t) \in torn
          \/ (t \in Passed(d) \cup {s} /\ ~Fits(k, t))
      BY <1>7, <2>1 DEF SyncInv, KnownOK
    <3>3. CASE t = s
      BY <1>6, <1>8, <2>1, <3>1, <3>3
    <3>4. CASE t # s
      BY <1>4, <1>6, <1>9, <3>1, <3>2, <3>4
    <3> QED
      BY <3>3, <3>4
  <2> QED
    BY <1>4, <1>7, <2>1 DEF KnownOK
<1>13. HandOK(d)'
  <2>1. job[d].amount = Asked(s)
    BY <1>1, <1>2 DEF SyncInv, HandOK
  <2>2. Fits(new, s)' /\ Usable(d, new, s)'
    BY <1>4, <1>5, <2>1 DEF Fits, Usable, PriceMatches
  <2> QED
    BY <1>4, <1>5, <2>1, <2>2 DEF HandOK
<1> QED
  BY <1>10, <1>11, <1>12, <1>13 DEF SyncInv

LEMMA StampSync ==
    ASSUME Base, NEW d \in Deploys, SyncInv(d), Stamp(d)
    PROVE  SyncInv(d)'
PROOF
<1>0. TypeInv /\ StageInv /\ NameInv
  BY DEF Base
<1>1. PICK s \in DOMAIN job[d].batch : s = job[d].slot /\ s \in Slots
  BY <1>0, InHand DEF Stamp, Busy
<1>2. /\ job[d].at = "stamp" /\ UNCHANGED <<active, torn, stripe>>
      /\ job' = [job EXCEPT ![d] = Done(d, s)]
      /\ row' = IF s \in Localized \/ job[d].batch[s].id # job[d].id
                THEN [row EXCEPT ![s].id = job[d].id] ELSE row
  BY <1>1 DEF Stamp, history
<1>3. /\ job'[d].at = "item" /\ job'[d].known = job[d].known /\ job'[d].pass = job[d].pass
      /\ DOMAIN job'[d].batch = DOMAIN job[d].batch \ {s}
      /\ \A t \in DOMAIN job[d].batch \ {s} : job'[d].batch[t] = job[d].batch[t]
  BY <1>0, <1>2, DoneDetail
<1>4. job[d].pass > 0 /\ s \in PassSlots(job[d].pass)
      /\ (s \notin Localized => job[d].batch[s] = row[s])
  BY DEF SyncInv, BatchOK
<1>5. /\ Passed(d) \subseteq Passed(d)' /\ Passed(d)' \subseteq Passed(d) \cup {s}
      /\ s \in Passed(d)' /\ Held(d) = {s} /\ Held(d)' = {}
  BY <1>0, <1>1, <1>2, <1>4, PassedDone DEF Held
<1>6. row \in [Slots -> RowType] /\ \A t \in Slots : t # s => row'[t] = row[t]
  BY <1>0, <1>2 DEF TypeInv
<1>7. row'[s].id = job[d].id /\ row'[s].amount = row[s].amount
  <2>1. CASE s \in Localized \/ job[d].batch[s].id # job[d].id
    <3>1. row'[s] = [row[s] EXCEPT !.id = job[d].id] /\ row[s] \in RowType
      BY <1>1, <1>2, <1>6, <2>1
    <3> QED
      BY <3>1 DEF RowType
  <2>2. CASE ~(s \in Localized \/ job[d].batch[s].id # job[d].id)
    BY <1>2, <1>4, <2>2
  <2> QED
    BY <2>1, <2>2
<1>8. \A t \in Slots : Asked(t)' = Asked(t)
  BY <1>6, <1>7 DEF Asked
<1>9. /\ \A i, t : Usable(d, i, t)' <=> Usable(d, i, t)
      /\ \A i : \A t \in Slots : Fits(i, t)' <=> Fits(i, t)
  BY <1>2, <1>3, <1>8 DEF Fits, Usable, PriceMatches
<1>10. DOMAIN job[d].batch \subseteq Slots /\ Passed(d) \subseteq Slots
  BY <1>0, BatchElim DEF TypeInv, JobType, Passed
<1>11. BatchOK(d)'
  BY <1>2, <1>3, <1>6, <1>10 DEF SyncInv, BatchOK
<1>12. PassedOK(d)'
  <2>1. ASSUME NEW t \in Passed(d)', active'[t[1]], row'[t] # NoRow, NEW i, i = row'[t].id
        PROVE  i # 0 /\ Fits(i, t)' /\ Usable(d, i, t)'
    <3>1. CASE t = s
      <4>1. i = job[d].id
        BY <1>7, <2>1, <3>1
      <4>2. i # 0 /\ Fits(i, s) /\ Usable(d, i, s)
        BY <1>1, <1>2, <4>1 DEF SyncInv, HandOK
      <4> QED
        BY <1>1, <1>9, <3>1, <4>2
    <3>2. CASE t # s
      <4>1. t \in Passed(d) /\ t \in Slots /\ row'[t] = row[t]
        BY <1>5, <1>6, <1>10, <2>1, <3>2
      <4>2. i = row[t].id /\ active[t[1]] /\ row[t] # NoRow
        BY <1>2, <2>1, <4>1
      <4>3. i # 0 /\ Fits(i, t) /\ Usable(d, i, t)
        BY <4>1, <4>2 DEF SyncInv, PassedOK
      <4> QED
        BY <1>9, <4>1, <4>3
    <3> QED
      BY <3>1, <3>2
  <2> QED
    BY <2>1 DEF PassedOK
<1>13. KnownOK(d)'
  <2>1. ASSUME NEW t \in Slots, NEW k, k = job[d].known[t], k # 0
        PROVE  \/ stripe[k].live \/ LookupKey(t) \in torn
               \/ t \in Passed(d)' /\ ~Fits(k, t)'
    <3>1. \/ stripe[k].live \/ LookupKey(t) \in torn
          \/ (t \in Passed(d) \cup {s} /\ ~Fits(k, t))
      BY <1>5, <2>1 DEF SyncInv, KnownOK
    <3> QED
      BY <1>5, <1>9, <3>1
  <2> QED
    BY <1>2, <1>3, <2>1 DEF KnownOK
<1>14. HandOK(d)'
  BY <1>3 DEF HandOK
<1> QED
  BY <1>11, <1>12, <1>13, <1>14 DEF SyncInv

LEMMA NextPassSync ==
    ASSUME Base, NEW d \in Deploys, SyncInv(d), NextPass(d)
    PROVE  SyncInv(d)'
PROOF
<1>0. TypeInv /\ StageInv /\ RowsInv
  BY DEF Base
<1>1. UNCHANGED <<row, active, torn, stripe>>
  BY DEF NextPass, history
<1>2. PICK n \in 1..LastPass : n = job[d].pass + 1
  BY <1>0, NextPassDetail
<1>3. /\ job[d].pass \in Nat /\ PassSlots(n) \subseteq Slots /\ DOMAIN job[d].batch = {}
      /\ job[d].at = "item" /\ job'[d].at = "item" /\ job'[d].known = job[d].known
      /\ job'[d].pass = n /\ DOMAIN job'[d].batch = Due(n)
      /\ \A s \in Due(n) : job'[d].batch[s] = row[s]
  BY <1>0, <1>2, NextPassDetail
<1>4. LastPass \in Nat
  BY <1>0, PassRange
<1>5. Held(d) = {} /\ Held(d)' = {}
  BY <1>3 DEF Held
<1>6. Passed(d) \subseteq Passed(d)'
  <2>1. ASSUME NEW s \in Slots, NEW m \in 1..job[d].pass, s \in PassSlots(m)
        PROVE  s \in Passed(d)'
    <3>1. m \in 1..n /\ m < n
      BY <1>2, <1>3, <1>4
    <3> QED
      BY <1>3, <2>1, <3>1 DEF Passed
  <2> QED
    BY <2>1 DEF Passed
<1>7. ASSUME NEW s \in Passed(d)', s \notin Passed(d)
      PROVE  s \in PassSlots(n) /\ s \notin Due(n)
  <2>1. PICK m \in 1..n : s \in PassSlots(m) /\ (m < n \/ s \notin Due(n))
    BY <1>3, <1>7 DEF Passed
  <2>2. s \in Slots
    BY <1>7 DEF Passed
  <2>3. m \notin 1..job[d].pass
    BY <1>3, <1>7, <2>1, <2>2 DEF Passed
  <2>4. m = n
    BY <1>2, <1>3, <1>4, <2>1, <2>3
  <2> QED
    BY <2>1, <2>4, <1>4
<1>8. \A i, t : (Fits(i, t)' <=> Fits(i, t)) /\ (Usable(d, i, t)' <=> Usable(d, i, t))
  BY <1>1, <1>3 DEF Fits, Asked, Usable, PriceMatches
<1>9. BatchOK(d)'
  BY <1>1, <1>3 DEF BatchOK, Due
<1>10. PassedOK(d)'
  <2>1. ASSUME NEW s \in Passed(d)', s \notin Passed(d), active[s[1]]
        PROVE  row[s] = NoRow
    <3>1. s \in PassSlots(n) /\ s \notin Due(n) /\ s \in Slots
      BY <1>3, <1>7, <2>1
    <3>2. row[s] # NoRow => row[Anchor(s)] # NoRow
      BY <1>0, <3>1 DEF RowsInv
    <3> QED
      BY <2>1, <3>1, <3>2 DEF Due
  <2> QED
    BY <1>1, <1>8, <2>1 DEF SyncInv, PassedOK
<1>11. KnownOK(d)'
  BY <1>1, <1>3, <1>5, <1>6, <1>8 DEF SyncInv, KnownOK
<1>12. HandOK(d)'
  BY <1>3 DEF HandOK
<1> QED
  BY <1>9, <1>10, <1>11, <1>12 DEF SyncInv

LEMMA FetchSync ==
    ASSUME Base, NEW d \in Deploys, Undisturbed(d), Fetch(d)
    PROVE  SyncInv(d)'
PROOF
<1>0. TypeInv /\ HoldersAreLive
  BY DEF Base
<1>1. UNCHANGED <<row, active, torn, stripe>>
  BY DEF Fetch, history
<1>2. /\ job[d].at = "fetch" /\ job'[d].at = "item" /\ job'[d].pass = 0
      /\ DOMAIN job'[d].batch = {}
      /\ \A s \in Slots : job'[d].known[s] \in {0, holder[LookupKey(s)]}
  BY <1>0, FetchDetail
<1>3. Passed(d)' = {}
  BY <1>2 DEF Passed
<1>4. \A e \in Deploys : job[e].at # "mint"
  BY <1>2 DEF Undisturbed, Idle
<1>5. BatchOK(d)'
  BY <1>2 DEF BatchOK
<1>6. PassedOK(d)'
  BY <1>3 DEF PassedOK
<1>7. KnownOK(d)'
  <2>1. ASSUME NEW s \in Slots, NEW k, k = job'[d].known[s], k # 0
        PROVE  stripe[k].live \/ LookupKey(s) \in torn
    <3>1. k = holder[LookupKey(s)]
      BY <1>2, <2>1
    <3> QED
      BY <1>0, <1>4, <2>1, <3>1 DEF HoldersAreLive
  <2> QED
    BY <1>1, <2>1 DEF KnownOK
<1>8. HandOK(d)'
  BY <1>2 DEF HandOK
<1> QED
  BY <1>5, <1>6, <1>7, <1>8 DEF SyncInv

\* The feed does not answer a sweep in the middle of the run.
LEMMA ResumeSync ==
    ASSUME Base, NEW d \in Deploys, SyncInv(d), FeedDown(d), job[d].at = "boot"
    PROVE  SyncInv(d)'
PROOF
<1>1. UNCHANGED <<row, active, torn, stripe>>
  BY DEF FeedDown, history
<1>2. /\ job'[d].at = "booted" /\ job'[d].slot = job[d].slot /\ job'[d].known = job[d].known
      /\ job'[d].batch = job[d].batch /\ job'[d].pass = job[d].pass
  BY FeedDownDetail DEF Base, Resumed
<1>3. Passed(d)' = Passed(d) /\ Held(d)' = {} /\ Held(d) = {}
  BY <1>2 DEF Passed, Held
<1>4. \A i, t : (Fits(i, t)' <=> Fits(i, t)) /\ (Usable(d, i, t)' <=> Usable(d, i, t))
  BY <1>1, <1>2 DEF Fits, Asked, Usable, PriceMatches
<1>5. BatchOK(d)'
  BY <1>1, <1>2 DEF SyncInv, BatchOK
<1>6. PassedOK(d)'
  BY <1>1, <1>3, <1>4 DEF SyncInv, PassedOK
<1>7. KnownOK(d)'
  BY <1>1, <1>2, <1>3, <1>4 DEF SyncInv, KnownOK
<1>8. HandOK(d)'
  BY <1>2 DEF SyncInv, HandOK
<1> QED
  BY <1>5, <1>6, <1>7, <1>8 DEF SyncInv

\* It answers, and no row that has been dealt with moves.
LEMMA SweptSync ==
    ASSUME Base, NEW d \in Deploys, SyncInv(d), SweepCommit(d), job[d].at = "boot",
           AfterSweep(d) # Idle, DOMAIN sweep[d].to \cap Passed(d) = {}
    PROVE  SyncInv(d)'
PROOF
<1>0. TypeInv /\ StageInv /\ AmountInv
  BY DEF Base
<1>1. UNCHANGED <<active, torn, stripe>>
  BY DEF SweepCommit
<1>2. /\ job'[d].at = "booted" /\ job'[d].slot = job[d].slot /\ job'[d].known = job[d].known
      /\ job'[d].batch = job[d].batch /\ job'[d].pass = job[d].pass
  BY <1>0, SweptDetail DEF Resumed
<1>3. Passed(d)' = Passed(d) /\ Held(d)' = {} /\ Held(d) = {}
  BY <1>2 DEF Passed, Held
<1>4. \A s \in Slots : s \notin DOMAIN sweep[d].to => row'[s] = row[s]
  BY DEF SweepCommit, SweptRow
<1>5. DOMAIN sweep[d].to \subseteq Localized \cup National
  BY <1>0 DEF AmountInv, SweepAmount
<1>6. Passed(d) \subseteq Slots /\ DOMAIN job[d].batch \subseteq Slots
  BY <1>0, BatchElim DEF Passed, TypeInv, JobType
<1>7. \A s \in Passed(d) : row'[s] = row[s]
  BY <1>4, <1>6
<1>8. \A s \in DOMAIN job[d].batch : s \notin National
  <2>1. job[d].slot \in DOMAIN job[d].batch /\ job[d].slot \in Localized
    BY <1>0, InHand DEF Busy, SyncInv, HandOK
  <2>2. job[d].slot \notin National
    BY <1>6, <2>1, AnchorFacts
  <2>3. PICK n : n = job[d].pass
    OBVIOUS
  <2>4. n \in 1..LastPass /\ \A s \in DOMAIN job[d].batch : s \in PassSlots(n)
    BY <1>0, <2>1, <2>3, PassRange DEF SyncInv, BatchOK
  <2> QED
    BY <2>1, <2>2, <2>4, PassFacts
<1>9. \A s \in DOMAIN job[d].batch \ Localized : row'[s] = row[s]
  BY <1>4, <1>5, <1>6, <1>8
<1>10. \A i : \A t \in Passed(d) : (Fits(i, t)' <=> Fits(i, t))
                                   /\ (Usable(d, i, t)' <=> Usable(d, i, t))
  BY <1>1, <1>2, <1>7 DEF Fits, Asked, Usable, PriceMatches
<1>11. BatchOK(d)'
  BY <1>1, <1>2, <1>9 DEF SyncInv, BatchOK
<1>12. PassedOK(d)'
  BY <1>1, <1>3, <1>7, <1>10 DEF SyncInv, PassedOK
<1>13. KnownOK(d)'
  BY <1>1, <1>2, <1>3, <1>10 DEF SyncInv, KnownOK
<1>14. HandOK(d)'
  BY <1>2 DEF SyncInv, HandOK
<1> QED
  BY <1>11, <1>12, <1>13, <1>14 DEF SyncInv

\* All rows have been dealt with.
LEMMA FinishSettles ==
    ASSUME Base, NEW d \in Deploys, SyncInv(d), Finish(d)
    PROVE  SettledOK'
PROOF
<1>1. UNCHANGED <<row, active, torn, stripe>> /\ job[d].pass = LastPass /\ DOMAIN job[d].batch = {}
  BY DEF Finish
<1>2. ASSUME NEW s \in Slots, s[2] \in BillingCurrencies \cup Countries
      PROVE  s \in Passed(d)
  BY <1>1, <1>2, PassesCover DEF Passed
<1>3. \A i, s : Fits(i, s)' <=> Fits(i, s)
  BY <1>1 DEF Fits, Asked, PriceMatches
<1>4. SettledOK
  BY <1>2 DEF SyncInv, PassedOK, Usable, SettledOK
<1> QED
  BY <1>1, <1>3, <1>4 DEF SettledOK

\* Only a seed starts a deployment.
LEMMA IdleSeeds ==
    ASSUME NEW e \in Deploys, job[e] = Idle, Deploy(e)
    PROVE  Seed(e)
PROOF
<1>1. job[e].at = "idle" /\ DOMAIN job[e].batch = {}
  BY DEF Idle
<1> QED
  BY <1>1 DEF Deploy, FeedDown, Fetch, NextPass, Take, TakeBooted, Mint, Stamp, Finish, Die

LEMMA SeedCalm ==
    ASSUME Base, NEW e \in Deploys, Seed(e)
    PROVE  CalmInv'
PROOF
<1> DEFINE j == [Idle EXCEPT !.at = "sweep"]
<1>1. job' = [job EXCEPT ![e] = j] /\ calm' = IF AllIdle THEN "deploying" ELSE "no"
  BY DEF Seed
<1>2. j.at = "sweep" /\ j # Idle
  BY DEF Idle
<1> HIDE DEF j
<1>3. job'[e] = j /\ \A f \in Deploys \ {e} : job'[f] = job[f]
  BY <1>1 DEF Base, TypeInv
<1>4. CASE AllIdle
  <2>1. Undisturbed(e)'
    BY <1>2, <1>3, <1>4 DEF Undisturbed, AllIdle
  <2>2. job'[e].at \notin Syncing
    BY <1>2, <1>3 DEF Syncing
  <2> QED
    BY <1>1, <1>4, <2>1, <2>2 DEF CalmInv
<1>5. CASE ~AllIdle
  BY <1>1, <1>5 DEF CalmInv
<1> QED
  BY <1>4, <1>5

\* An undisturbed deployment takes a step of its own.
LEMMA DeployCalm ==
    ASSUME Base, NEW d \in Deploys, Undisturbed(d), job[d].at \in Syncing => SyncInv(d),
           calm = "deploying", Deploy(d)
    PROVE  CalmInv'
PROOF
<1>0. TypeInv /\ StageInv
  BY DEF Base
<1>1. ASSUME Others(d), job'[d].at # "idle", calm' = calm, job'[d].at \in Syncing => SyncInv(d)'
      PROVE  CalmInv'
  <2>1. Undisturbed(d)'
    BY <1>1 DEF Undisturbed, Others, Idle
  <2> QED
    BY <1>1, <2>1 DEF CalmInv
<1>2. CASE Seed(d)
  BY <1>2, SeedCalm
<1>3. CASE FeedDown(d)
  <2>1. Others(d) /\ Resumed(d) /\ calm' = calm
    BY <1>0, <1>3, FeedDownDetail DEF FeedDown, history
  <2>2. CASE job[d].at = "sweep"
    BY <1>1, <2>1, <2>2 DEF Resumed, Syncing
  <2>3. CASE job[d].at = "boot"
    <3>1. SyncInv(d)'
      BY <1>3, <2>3, ResumeSync DEF Syncing
    <3> QED
      BY <1>1, <2>1, <2>3, <3>1 DEF Resumed
  <2> QED
    BY <2>1, <2>2, <2>3 DEF Resumed
<1>4. CASE Fetch(d)
  <2>1. Others(d) /\ job'[d].at = "item" /\ calm' = calm
    BY <1>0, <1>4, FetchDetail DEF Fetch, history
  <2> QED
    BY <1>1, <1>4, <2>1, FetchSync
<1>5. CASE NextPass(d)
  <2>1. Others(d) /\ job[d].at = "item" /\ job'[d].at = "item" /\ calm' = calm
    BY <1>0, <1>5, NextPassDetail DEF NextPass, history
  <2>2. SyncInv(d)'
    BY <1>5, <2>1, NextPassSync DEF Syncing
  <2> QED
    BY <1>1, <2>1, <2>2
<1>6. ASSUME NEW s \in DOMAIN job[d].batch, Take(d, s)
      PROVE  CalmInv'
  <2>1. job[d].at = "item" /\ SyncInv(d) /\ calm' = calm /\ UNCHANGED <<row, active, torn>>
    BY <1>6 DEF Take, history, Syncing
  <2>2. CASE s \in Localized /\ row[s] = NoRow
    <3>1. Others(d) /\ job'[d].at = "boot"
      BY <1>0, <1>6, <2>2, BootDetail DEF Take
    <3>2. SyncInv(d)'
      BY <1>6, <2>1, <2>2, BootSync
    <3> QED
      BY <1>1, <2>1, <3>1, <3>2
  <2>3. CASE ~(s \in Localized /\ row[s] = NoRow)
    <3>1. Upsert(d, s)
      BY <1>6, <2>3 DEF Take
    <3>2. Others(d) /\ job'[d].at \in {"mint", "stamp"}
      BY <1>0, <2>1, <3>1, UpsertDetail
    <3>3. SyncInv(d)'
      BY <2>1, <3>1, UpsertSync
    <3> QED
      BY <1>1, <2>1, <3>2, <3>3
  <2> QED
    BY <2>2, <2>3
<1>7. CASE TakeBooted(d)
  <2>1. PICK s \in DOMAIN job[d].batch : s = job[d].slot
    BY <1>0, <1>7, InHand DEF TakeBooted, Busy
  <2>2. job[d].at = "booted" /\ SyncInv(d) /\ calm' = calm /\ UNCHANGED <<row, active, torn>>
    BY <1>7 DEF TakeBooted, history, Syncing
  <2>3. CASE row[s] = NoRow
    <3>1. Others(d) /\ job'[d].at = "item"
      BY <1>0, <1>7, <2>1, <2>3, DoneDetail DEF TakeBooted
    <3>2. SyncInv(d)'
      BY <1>7, <2>1, <2>2, <2>3, SkipSync
    <3> QED
      BY <1>1, <2>2, <3>1, <3>2
  <2>4. CASE row[s] # NoRow
    <3>1. Upsert(d, s)
      BY <1>7, <2>1, <2>4 DEF TakeBooted
    <3>2. Others(d) /\ job'[d].at \in {"mint", "stamp"}
      BY <1>0, <2>2, <3>1, UpsertDetail
    <3>3. SyncInv(d)'
      BY <2>2, <3>1, UpsertSync
    <3> QED
      BY <1>1, <2>2, <3>2, <3>3
  <2> QED
    BY <2>3, <2>4
<1>8. CASE Mint(d)
  <2>1. Others(d) /\ job'[d].at = "stamp" /\ calm' = calm /\ SyncInv(d)
    BY <1>0, <1>8, MintDetail DEF Mint, Syncing
  <2>2. SyncInv(d)'
    BY <1>8, <2>1, MintSync
  <2> QED
    BY <1>1, <2>1, <2>2
<1>9. CASE Stamp(d)
  <2>1. Others(d) /\ job'[d].at = "item" /\ calm' = calm /\ SyncInv(d)
    BY <1>0, <1>9, DoneDetail DEF Stamp, Syncing, history
  <2>2. SyncInv(d)'
    BY <1>9, <2>1, StampSync
  <2> QED
    BY <1>1, <2>1, <2>2
<1>10. CASE Finish(d)
  <2>1. SyncInv(d) /\ job' = [job EXCEPT ![d] = Idle] /\ calm' = "settled"
    BY <1>10 DEF Finish, Syncing
  <2>2. SettledOK'
    BY <1>10, <2>1, FinishSettles
  <2>3. \A e \in Deploys : job'[e] = Idle
    BY <1>0, <2>1 DEF Undisturbed, TypeInv
  <2> QED
    BY <2>1, <2>2, <2>3 DEF CalmInv
<1>11. CASE Die(d)
  BY <1>11 DEF Die, CalmInv
<1> QED
  BY <1>2, <1>3, <1>4, <1>5, <1>6, <1>7, <1>8, <1>9, <1>10, <1>11 DEF Deploy

\* Nothing that matters to it changes.
LEMMA CalmFrame ==
    ASSUME CalmInv, UNCHANGED <<row, active, stripe, job, calm, torn>>
    PROVE  CalmInv'
PROOF
<1>1. CASE calm = "deploying"
  <2>1. PICK d \in Deploys : Undisturbed(d) /\ (job[d].at \in Syncing => SyncInv(d))
    BY <1>1 DEF CalmInv
  <2>2. Undisturbed(d)' /\ (job'[d].at \in Syncing => SyncInv(d)')
    BY <2>1, SyncFrame DEF Undisturbed
  <2> QED
    BY <1>1, <2>2 DEF CalmInv
<1>2. CASE calm = "settled"
  <2>1. \A i, s : Fits(i, s)' <=> Fits(i, s)
    BY DEF Fits, Asked, PriceMatches
  <2>2. SettledOK'
    BY <1>2, <2>1 DEF CalmInv, SettledOK
  <2> QED
    BY <1>2, <2>2 DEF CalmInv
<1>3. CASE calm \notin {"deploying", "settled"}
  BY <1>3 DEF CalmInv
<1> QED
  BY <1>1, <1>2, <1>3

LEMMA SweepCalm ==
    ASSUME Base, CalmInv, NEW p \in Deploys \cup Beats, SweepCommit(p)
    PROVE  CalmInv'
PROOF
<1>0. TypeInv /\ StageInv /\ AmountInv
  BY DEF Base
<1>1. CASE calm' = "no"
  BY <1>1 DEF CalmInv
<1>2. CASE calm' # "no"
  <2>1. p \in Deploys /\ calm' = calm
    BY <1>2 DEF SweepCommit
  <2>2. AfterSweep(p) # Idle /\ DOMAIN sweep[p].to \cap Passed(p) = {}
    BY <1>2, <2>1 DEF SweepCommit
  <2>3. Others(p) /\ job[p].at \in {"sweep", "boot"} /\ Resumed(p)
    BY <1>0, <2>1, <2>2, SweptDetail
  <2>4. job[p] # Idle /\ job'[p] # Idle
    BY <2>3 DEF Idle, Resumed
  <2>5. CASE calm = "deploying"
    <3>1. Undisturbed(p) /\ (job[p].at \in Syncing => SyncInv(p))
      BY <2>1, <2>4, <2>5 DEF CalmInv, Undisturbed
    <3>2. Undisturbed(p)'
      BY <2>3, <2>4, <3>1 DEF Undisturbed, Others
    <3>3. CASE job[p].at = "sweep"
      BY <2>1, <2>3, <2>5, <3>2, <3>3 DEF CalmInv, Resumed, Syncing
    <3>4. CASE job[p].at = "boot"
      <4>1. SyncInv(p)'
        BY <2>1, <2>2, <3>1, <3>4, SweptSync DEF Syncing
      <4> QED
        BY <2>1, <2>5, <3>2, <4>1 DEF CalmInv
    <3> QED
      BY <2>3, <3>3, <3>4
  <2>6. CASE calm = "settled"
    BY <2>1, <2>4, <2>6 DEF CalmInv
  <2>7. CASE calm \notin {"deploying", "settled"}
    BY <2>1, <2>7 DEF CalmInv
  <2> QED
    BY <2>5, <2>6, <2>7
<1> QED
  BY <1>1, <1>2

LEMMA CalmStep ==
    ASSUME Base, CalmInv, CatalogueNext
    PROVE  CalmInv'
PROOF
<1>1. ASSUME NEW e \in Deploys, Deploy(e)
      PROVE  CalmInv'
  <2>1. CASE Seed(e)
    BY <2>1, SeedCalm
  <2>2. CASE job[e] = Idle
    BY <1>1, <2>2, IdleSeeds, SeedCalm
  <2>3. CASE ~Seed(e) /\ job[e] # Idle
    <3>1. CASE calm = "deploying"
      <4>1. PICK d \in Deploys : Undisturbed(d) /\ (job[d].at \in Syncing => SyncInv(d))
        BY <3>1 DEF CalmInv
      <4>2. d = e
        BY <2>3, <4>1 DEF Undisturbed
      <4> QED
        BY <1>1, <3>1, <4>1, <4>2, DeployCalm
    <3>2. CASE calm = "settled"
      BY <2>3, <3>2 DEF CalmInv
    <3>3. CASE calm \notin {"deploying", "settled"}
      <4>1. calm' = calm \/ calm' = "no"
        BY <1>1, <2>3, <3>3 DEF Deploy, FeedDown, Fetch, NextPass, Take, TakeBooted, Mint, Stamp,
                                Finish, Die, history
      <4> QED
        BY <3>3, <4>1 DEF CalmInv
    <3> QED
      BY <3>1, <3>2, <3>3
  <2> QED
    BY <2>1, <2>2, <2>3
<1>2. ASSUME NEW p \in Deploys \cup Beats, NEW quote \in Quotes, SweepRead(p, quote)
      PROVE  CalmInv'
  BY <1>2, CalmFrame DEF SweepRead, history
<1>3. ASSUME NEW p \in Deploys \cup Beats, SweepCommit(p)
      PROVE  CalmInv'
  BY <1>3, SweepCalm
<1>4. ASSUME NEW s \in Slots, OpenForm(s)
      PROVE  CalmInv'
  BY <1>4, CalmFrame DEF OpenForm, history
<1>5. ASSUME NEW amount \in Stickers, SaveForm(amount)
      PROVE  CalmInv'
  BY <1>5 DEF SaveForm, CalmInv
<1>6. ASSUME NEW o \in Owners, Switch(o)
      PROVE  CalmInv'
  BY <1>6 DEF Switch, CalmInv
<1> QED
  BY <1>1, <1>2, <1>3, <1>4, <1>5, <1>6 DEF CatalogueNext, Sweep, Edit

----------------------------------------------------------------------------
(* The inductive invariant.                                                *)

CatInv == Base /\ CuratedInv /\ MiscInv /\ CalmInv

LEMMA CatInit == Init => CatInv
PROOF
<1> SUFFICES ASSUME Init PROVE CatInv
  OBVIOUS
<1>1. TypeInv
  <2>1. left \in BudgetType
    BY CatalogueAssumption DEF Init, BudgetType
  <2>2. job \in [Deploys -> JobType] /\ sweep \in [Deploys \cup Beats -> SweepType]
        /\ row \in [Slots -> RowType]
    BY IdleType DEF Init
  <2>3. stripe \in Seq(PriceType) /\ holder \in [Keys -> Nat]
    BY DEF Init
  <2> QED
    BY <2>1, <2>2, <2>3 DEF Init, TypeInv
<1>2. /\ \A d \in Deploys : job[d] = Idle /\ sweep[d] = NoSweep
      /\ \A p \in Deploys \cup Beats : sweep[p] = NoSweep
      /\ Idle.at = "idle" /\ DOMAIN Idle.batch = {} /\ Idle.amount = 0
  BY DEF Init, Idle
<1>3. StageInv
  BY <1>2 DEF StageInv, Syncing, Busy, NoSweep
<1>4. \A s \in Slots : row[s] = NoRow /\ holder[LookupKey(s)] = 0
  BY KeyIsKey DEF Init
<1>5. NameInv
  BY <1>2, <1>4 DEF NameInv, Named, NoRow, Init, Syncing
<1>6. RowsInv
  <2>1. \A o \in Owners : <<o, USD>> \in Slots
    BY DEF Slots, Markets
  <2> QED
    BY <1>4, <2>1 DEF RowsInv
<1>7. AmountInv
  <2>1. FormHasRow /\ PriceAmounts
    BY DEF Init, FormHasRow, PriceAmounts
  <2>2. \A p \in Deploys \cup Beats : SweepAmount(p)
    BY <1>2 DEF SweepAmount, NoSweep
  <2>3. \A d \in Deploys : JobAmount(d)
    BY <1>2 DEF JobAmount
  <2> QED
    BY <2>1, <2>2, <2>3 DEF AmountInv
<1>8. MiscInv /\ CalmInv
  BY DEF Init, MiscInv, CalmInv
<1>9. CuratedInv /\ HoldersAreLive
  BY <1>4 DEF CuratedInv, HoldersAreLive, NoRow
<1> QED
  BY <1>1, <1>3, <1>5, <1>6, <1>7, <1>8, <1>9 DEF CatInv, Base

LEMMA CatStep == CatInv /\ CatalogueNext => CatInv'
PROOF
<1> SUFFICES ASSUME CatInv, CatalogueNext PROVE CatInv'
  OBVIOUS
<1>1. TypeInv /\ StageInv /\ NameInv /\ CuratedInv /\ HoldersAreLive /\ RowsInv /\ AmountInv
  BY DEF CatInv, Base
<1>2. TypeInv' /\ StageInv' /\ NameInv' /\ CuratedInv' /\ HoldersAreLive'
  BY <1>1, TypeStep, NameStep, CuratedStep, LiveStep
<1>3. RowsInv' /\ AmountInv'
  BY <1>1, AmountStep
<1>4. MiscInv' /\ CalmInv'
  BY MiscStep, CalmStep DEF CatInv, Base
<1> QED
  BY <1>2, <1>3, <1>4 DEF CatInv, Base

\* The bounds of a behaviour matter to nothing but the type.
LEMMA CatFrame ==
    ASSUME CatInv, UNCHANGED <<row, active, stripe, holder, job, sweep, form, history>>,
           left' \in BudgetType
    PROVE  CatInv'
PROOF
<1>1. TypeInv' /\ StageInv' /\ CuratedInv'
  BY DEF CatInv, Base, TypeInv, StageInv, CuratedInv, history
<1>2. NameInv' /\ HoldersAreLive'
  BY DEF CatInv, Base, NameInv, Named, HoldersAreLive, history
<1>3. RowsInv' /\ AmountInv' /\ MiscInv'
  BY DEF CatInv, Base, RowsInv, AmountInv, FormHasRow, SweepAmount, JobAmount, PriceAmounts,
         MiscInv, history
<1>4. CalmInv'
  BY CalmFrame DEF CatInv, history
<1> QED
  BY <1>1, <1>2, <1>3, <1>4 DEF CatInv, Base

\* Two rows that named one price would have one key.
LEMMA NamesAreUnique == NameInv => OneRowPerPrice
BY KeysAreDistinct DEF NameInv, Named, OneRowPerPrice
=============================================================================
