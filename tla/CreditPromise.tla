---------------------------- MODULE CreditPromise ----------------------------
(***************************************************************************)
(* What the credit ledger promises its callers, without transactions,      *)
(* locks or retries: a paid Checkout session turns into credits in one     *)
(* step, at most once, and an erased owner takes its credits along.        *)
(***************************************************************************)
EXTENDS Integers

CONSTANTS Sessions,    \* Stripe Checkout sessions of mode "payment"
          Owners,      \* users and orgs that can hold a balance
          OwnerOf,     \* the owner named in the session's metadata
          CreditsOf,   \* Product.credits of the session's product, 0 if unknown
          MaxBalance   \* largest value of the balance column

VARIABLES owners,      \* owner rows that exist
          granted,     \* sessions whose credits were granted
          balance      \* CreditBalance.balance per owner, 0 when no row exists

vars == <<owners, granted, balance>>

Init ==
    /\ owners = Owners
    /\ granted = {}
    /\ balance = [o \in Owners |-> 0]

\* One session's credits reach its owner: the ledger row and the balance
\* change together, and never for a session granted before.
Grant(s) ==
    /\ s \notin granted
    /\ OwnerOf[s] \in owners
    /\ CreditsOf[s] > 0
    /\ balance[OwnerOf[s]] + CreditsOf[s] <= MaxBalance
    /\ granted' = granted \cup {s}
    /\ balance' = [balance EXCEPT ![OwnerOf[s]] = @ + CreditsOf[s]]
    /\ UNCHANGED owners

\* An owner is erased; ledger rows and balance cascade.
Forget(o) ==
    /\ o \in owners
    /\ owners' = owners \ {o}
    /\ granted' = {s \in granted : OwnerOf[s] # o}
    /\ balance' = [balance EXCEPT ![o] = 0]

Next ==
    \/ \E s \in Sessions : Grant(s)
    \/ \E o \in Owners : Forget(o)

Spec == Init /\ [][Next]_vars
=============================================================================
