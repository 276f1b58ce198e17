---------------------------- MODULE MCStorefront ----------------------------
(* A personal plan, a team plan and a credit pack in USD and EUR, with      *)
(* Spain as the only launch country; releases change prices, the rate moves *)
(* the charm price or is missing from the feed.                             *)
EXTENDS Storefront, TLC

CONSTANTS d1, d2, r1, r2
Interchangeable == Permutations({d1, d2}) \cup Permutations({r1, r2})

plans == {"basic", "crew"}
teamPlans == {"crew"}
products == {"pack"}
billing == <<"usd", "eur">>
currencies == {"eur"}
countries == {"ES"}
currencyOf == [c \in countries |-> "eur"]
vatRate == [c \in countries |-> 210]
stickers == {2237}
quotes == {[c \in currencies |-> r] : r \in {925, 990, 0}}
orgOf == [u \in Users |-> IF u = "ann" THEN "acme" ELSE NoOrg]

\* Releases: prices of 19.99 or 24.99 for some of the owners.
Low(owners) == [o \in owners |-> 1999]
High(owners) == [o \in owners |-> 2499]
releases == UNION {{Low(owners), High(owners)} : owners \in SUBSET (plans \cup products)}

Budget(rollout, abreast, crashes, sweeps, edits, requests) ==
    [rollout |-> rollout, abreast |-> abreast, crashes |-> crashes, sweeps |-> sweeps,
     edits |-> edits, requests |-> requests]
basic == {"basic"}
budgets ==
    {\* overlapping deployments
     Budget(<<Low(basic), High(basic)>>, 2, 0, 0, 0, 0),
     \* deployments that die
     Budget(<<Low(basic), High(basic), Low(basic)>>, 1, 2, 0, 0, 0),
     Budget(<<Low({"basic", "crew"}), High({"basic", "pack"})>>, 1, 1, 0, 0, 0),
     \* the daily sweep and the admin in between
     Budget(<<Low(basic), High(basic)>>, 1, 1, 1, 1, 0),
     Budget(<<Low(basic), Low(basic)>>, 1, 0, 0, 2, 0),
     \* visitors during and after the first deployment
     Budget(<<Low(plans \cup products)>>, 1, 0, 0, 0, 1),
     Budget(<<Low(basic)>>, 1, 0, 0, 0, 2),
     Budget(<<Low({"crew"})>>, 1, 0, 0, 0, 2)}
=============================================================================
