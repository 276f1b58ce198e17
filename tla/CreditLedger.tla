---------------------------- MODULE CreditLedger -----------------------------
(***************************************************************************)
(* Credit grants for one-time products: on_product_checkout_completed and  *)
(* grant_credits_for_session in apps/billing/services.py, with the         *)
(* database transaction opened up into the statements other transactions   *)
(* can run between.  Each process is one execution of the callback by a    *)
(* Celery worker; several run at once, for the same or different sessions, *)
(* and any of them can be cut off at any statement.                        *)
(*                                                                         *)
(* Locks are read off the program counter: between its INSERT and its      *)
(* commit a transaction holds the unique key on stripe_session_id, and     *)
(* between SELECT ... FOR UPDATE and its commit the balance row.           *)
(***************************************************************************)
EXTENDS Integers, FiniteSetsExt

CONSTANTS Procs,       \* concurrent executions of the callback
          Sessions, Owners, OwnerOf, CreditsOf, MaxBalance

ASSUME LedgerAssumption ==
    /\ Sessions # {}
    /\ OwnerOf \in [Sessions -> Owners]
    /\ CreditsOf \in [Sessions -> Nat]
    /\ MaxBalance \in Nat

VARIABLES owners,      \* User and Org rows that exist
          ledger,      \* sessions with a committed CreditTransaction row
          balance,     \* committed CreditBalance.balance, 0 when no row exists
          pc,          \* where each process is
          sess,        \* the session each process works on
          read         \* the balance its SELECT ... FOR UPDATE returned

dbVars == <<owners, ledger, balance>>
procVars == <<pc, sess, read>>
ledgerVars == <<owners, ledger, balance, pc, sess, read>>

InTransaction == {"lookup", "insert", "lock", "save"}
Returned == {"granted", "duplicate", "skipped", "failed"}

LedgerTypeOK ==
    /\ owners \subseteq Owners
    /\ ledger \subseteq Sessions
    /\ balance \in [Owners -> 0..MaxBalance]
    /\ pc \in [Procs -> {"idle"} \cup InTransaction \cup Returned]
    /\ sess \in [Procs -> Sessions]
    /\ read \in [Procs -> 0..MaxBalance]

LedgerInit ==
    /\ owners = Owners
    /\ ledger = {}
    /\ balance = [o \in Owners |-> 0]
    /\ pc = [p \in Procs |-> "idle"]
    /\ sess = [p \in Procs |-> CHOOSE s \in Sessions : TRUE]
    /\ read = [p \in Procs |-> 0]

----------------------------------------------------------------------------
\* Mutant of SessionKeyFree: stripe_session_id is not unique.
SessionKeyNeverHeld(p) == TRUE

\* The unique index on stripe_session_id makes an INSERT wait for any open
\* transaction that has inserted the same session.
SessionKeyFree(p) ==
    \A q \in Procs \ {p} : sess[q] = sess[p] => pc[q] \notin {"lock", "save"}

\* Mutant of BalanceRowFree: the balance is read without FOR UPDATE.
BalanceRowNeverHeld(p) == TRUE

\* SELECT ... FOR UPDATE waits for the transaction that holds the row (or,
\* for a row that does not exist yet, that has inserted it).
BalanceRowFree(p) ==
    \A q \in Procs \ {p} :
        OwnerOf[sess[q]] = OwnerOf[sess[p]] => pc[q] # "save"

\* The callback is called for session s.
Begin(p, s) ==
    /\ pc[p] = "idle"
    /\ pc' = [pc EXCEPT ![p] = "lookup"]
    /\ sess' = [sess EXCEPT ![p] = s]
    /\ UNCHANGED <<dbVars, read>>

\* Product and owner are looked up outside the transaction; an unknown
\* product, one without credits, or an unknown owner ends the call quietly.
Lookup(p) ==
    /\ pc[p] = "lookup"
    /\ pc' = [pc EXCEPT ![p] =
                 IF CreditsOf[sess[p]] > 0 /\ OwnerOf[sess[p]] \in owners
                 THEN "insert" ELSE "skipped"]
    /\ UNCHANGED <<dbVars, sess, read>>

\* Mutant of Insert: a conflict on the session is ignored.
InsertRegardless(p) ==
    /\ pc[p] = "insert"
    /\ SessionKeyFree(p)
    /\ pc' = [pc EXCEPT ![p] = "lock"]
    /\ UNCHANGED <<dbVars, sess, read>>

\* Mutant of Insert: a conflict on the session is tried again.
InsertUntilFree(p) ==
    /\ pc[p] = "insert"
    /\ SessionKeyFree(p)
    /\ sess[p] \notin ledger
    /\ pc' = [pc EXCEPT ![p] = "lock"]
    /\ UNCHANGED <<dbVars, sess, read>>

\* CreditTransaction.objects.create; a conflict on the session ends the call.
Insert(p) ==
    /\ pc[p] = "insert"
    /\ SessionKeyFree(p)
    /\ pc' = [pc EXCEPT ![p] = IF sess[p] \in ledger THEN "duplicate" ELSE "lock"]
    /\ UNCHANGED <<dbVars, sess, read>>

\* CreditBalance.objects.select_for_update().get_or_create.
Lock(p) ==
    /\ pc[p] = "lock"
    /\ BalanceRowFree(p)
    /\ pc' = [pc EXCEPT ![p] = "save"]
    /\ read' = [read EXCEPT ![p] = balance[OwnerOf[sess[p]]]]
    /\ UNCHANGED <<dbVars, sess>>

\* Mutant of Save: the column's width is not enforced.
SaveUnbounded(p) ==
    LET o == OwnerOf[sess[p]]
    IN  /\ pc[p] = "save"
        /\ o \in owners
        /\ ledger' = ledger \cup {sess[p]}
        /\ balance' = [balance EXCEPT ![o] = read[p] + CreditsOf[sess[p]]]
        /\ pc' = [pc EXCEPT ![p] = "granted"]
        /\ UNCHANGED <<owners, sess, read>>

\* balance.save and the commit.  The commit checks the deferred foreign key
\* to the owner, the UPDATE the width of the column; either rolls all back.
Save(p) ==
    LET o == OwnerOf[sess[p]]
        new == read[p] + CreditsOf[sess[p]]
    IN  /\ pc[p] = "save"
        /\ \/ /\ o \in owners /\ new <= MaxBalance
              /\ ledger' = ledger \cup {sess[p]}
              /\ balance' = [balance EXCEPT ![o] = new]
              /\ pc' = [pc EXCEPT ![p] = "granted"]
           \/ /\ o \notin owners \/ new > MaxBalance
              /\ pc' = [pc EXCEPT ![p] = "failed"]
              /\ UNCHANGED <<ledger, balance>>
        /\ UNCHANGED <<owners, sess, read>>

\* The call returns to the dispatcher.
Return(p) ==
    /\ pc[p] \in Returned
    /\ pc' = [pc EXCEPT ![p] = "idle"]
    /\ UNCHANGED <<dbVars, sess, read>>

\* The connection or the worker fails: an open transaction rolls back and
\* nothing is returned.
Abort(p) ==
    /\ pc[p] # "idle"
    /\ pc' = [pc EXCEPT ![p] = "idle"]
    /\ UNCHANGED <<dbVars, sess, read>>

\* A user or an org is hard-deleted.  Its rows cascade, which waits for a
\* grant that holds the committed balance row.
DeleteOwner(o) ==
    /\ o \in owners
    /\ balance[o] > 0 => \A p \in Procs : OwnerOf[sess[p]] = o => pc[p] # "save"
    /\ owners' = owners \ {o}
    /\ ledger' = {s \in ledger : OwnerOf[s] # o}
    /\ balance' = [balance EXCEPT ![o] = 0]
    /\ UNCHANGED procVars

Step(p) == Lookup(p) \/ Insert(p) \/ Lock(p) \/ Save(p) \/ Return(p)

LedgerNext ==
    \/ \E p \in Procs : \/ \E s \in Sessions : Begin(p, s)
                        \/ Step(p)
                        \/ Abort(p)
    \/ \E o \in Owners : DeleteOwner(o)

LedgerSpec == LedgerInit /\ [][LedgerNext]_ledgerVars

\* A worker keeps executing the call it is in; Postgres grants a lock that
\* stays free.  Waiting for a lock that others take in turn is strong
\* fairness: Postgres queues waiters, so none is passed over for ever.
LedgerFairSpec ==
    /\ LedgerSpec
    /\ \A p \in Procs : /\ WF_ledgerVars(Lookup(p) \/ Save(p) \/ Return(p))
                        /\ SF_ledgerVars(Insert(p))
                        /\ SF_ledgerVars(Lock(p))

----------------------------------------------------------------------------
SessionsOf(o) == {s \in ledger : OwnerOf[s] = o}

\* The denormalised balance is the sum of the owner's ledger rows, whatever
\* grants, rollbacks and erasures ran concurrently (models.CreditBalance:
\* "a denormalised cache; CreditTransaction is the audit log").
BalanceIsLedgerSum ==
    \A o \in Owners :
        balance[o] = MapThenSumSet(LAMBDA s : CreditsOf[s], SessionsOf(o))

\* What the unique key and the row lock give a grant between its statements:
\* nobody else is granting its session, nobody else is changing its owner's
\* balance, and the balance it read is still the committed one.  This is the
\* inductive strengthening that ImplementsPromise rests on.
LocksProtectGrants ==
    /\ \A p \in Procs :
        /\ pc[p] \in {"insert", "lock", "save"} => CreditsOf[sess[p]] > 0
        /\ pc[p] \in {"lock", "save"} => sess[p] \notin ledger
        /\ pc[p] = "save" => read[p] = balance[OwnerOf[sess[p]]]
    /\ \A p, q \in Procs : p # q =>
        /\ pc[p] \in {"lock", "save"} /\ pc[q] \in {"lock", "save"}
              => sess[p] # sess[q]
        /\ pc[p] = "save" /\ pc[q] = "save"
              => OwnerOf[sess[p]] # OwnerOf[sess[q]]

\* Grants implement the one-step promise: never twice for a session, and
\* ledger row and balance together or not at all.
Promise == INSTANCE CreditPromise WITH granted <- ledger
ImplementsPromise == Promise!Spec

\* No call waits for ever: the transactions take the session key and the
\* balance row in one order, so they cannot block one another for good.
EveryCallReturns ==
    \A p \in Procs : pc[p] \in InTransaction ~> pc[p] = "idle"
=============================================================================
