------------------------- MODULE CreditLedgerProofs --------------------------
(***************************************************************************)
(* Proofs about CreditLedger: its type invariant, the protection its locks *)
(* give, and that it implements CreditPromise, for any number of workers,  *)
(* sessions and owners.                                                    *)
(***************************************************************************)
EXTENDS CreditLedger, FiniteSetTheorems, TLAPS

\* Every variable keeps its type; in particular a committed balance never
\* leaves the column's range, although the addition in Save could.
THEOREM LedgerTypeCorrect == LedgerSpec => []LedgerTypeOK
<1>1. LedgerInit => LedgerTypeOK
  BY LedgerAssumption DEF LedgerInit, LedgerTypeOK
<1>2. LedgerTypeOK /\ [LedgerNext]_ledgerVars => LedgerTypeOK'
  <2> SUFFICES ASSUME LedgerTypeOK, [LedgerNext]_ledgerVars
               PROVE  LedgerTypeOK'
    OBVIOUS
  <2> USE LedgerAssumption DEF LedgerTypeOK, InTransaction, Returned
  <2>1. ASSUME NEW p \in Procs, NEW s \in Sessions, Begin(p, s)
        PROVE  LedgerTypeOK'
    BY <2>1 DEF Begin, dbVars
  <2>2. ASSUME NEW p \in Procs, Lookup(p)
        PROVE  LedgerTypeOK'
    BY <2>2 DEF Lookup, dbVars
  <2>3. ASSUME NEW p \in Procs, Insert(p)
        PROVE  LedgerTypeOK'
    BY <2>3 DEF Insert, dbVars
  <2>4. ASSUME NEW p \in Procs, Lock(p)
        PROVE  LedgerTypeOK'
    BY <2>4 DEF Lock, dbVars
  <2>5. ASSUME NEW p \in Procs, Save(p)
        PROVE  LedgerTypeOK'
    <3> DEFINE o == OwnerOf[sess[p]]
               new == read[p] + CreditsOf[sess[p]]
    <3>1. o \in Owners /\ new \in Nat
      OBVIOUS
    <3>2. CASE /\ o \in owners /\ new <= MaxBalance
               /\ ledger' = ledger \cup {sess[p]}
               /\ balance' = [balance EXCEPT ![o] = new]
               /\ pc' = [pc EXCEPT ![p] = "granted"]
      <4>1. new \in 0..MaxBalance
        BY <3>1, <3>2
      <4>2. balance' \in [Owners -> 0..MaxBalance]
        BY <3>2, <4>1
      <4> QED
        BY <2>5, <3>2, <4>2 DEF Save
    <3>3. CASE /\ pc' = [pc EXCEPT ![p] = "failed"]
               /\ UNCHANGED <<ledger, balance>>
      BY <2>5, <3>3 DEF Save
    <3> QED
      BY <2>5, <3>2, <3>3 DEF Save
  <2>6. ASSUME NEW p \in Procs, Return(p)
        PROVE  LedgerTypeOK'
    BY <2>6 DEF Return, dbVars
  <2>7. ASSUME NEW p \in Procs, Abort(p)
        PROVE  LedgerTypeOK'
    BY <2>7 DEF Abort, dbVars
  <2>8. ASSUME NEW o \in Owners, DeleteOwner(o)
        PROVE  LedgerTypeOK'
    BY <2>8 DEF DeleteOwner, procVars
  <2>9. CASE UNCHANGED ledgerVars
    BY <2>9 DEF ledgerVars
  <2> QED
    BY <2>1, <2>2, <2>3, <2>4, <2>5, <2>6, <2>7, <2>8, <2>9 DEF LedgerNext, Step
<1> QED
  BY <1>1, <1>2, PTL DEF LedgerSpec

\* The locks protect an open grant: its session and its owner's balance are
\* nobody else's until it commits, and what it read is still current.
THEOREM LocksProtectGrantsCorrect == LedgerSpec => []LocksProtectGrants
<1>1. LedgerInit => LocksProtectGrants
  BY DEF LedgerInit, LocksProtectGrants
<1>2. /\ LedgerTypeOK /\ LedgerTypeOK'
      /\ LocksProtectGrants /\ [LedgerNext]_ledgerVars
      => LocksProtectGrants'
  <2> SUFFICES ASSUME LedgerTypeOK, LedgerTypeOK',
                      LocksProtectGrants, [LedgerNext]_ledgerVars
               PROVE  LocksProtectGrants'
    OBVIOUS
  <2> USE LedgerAssumption DEF LedgerTypeOK, LocksProtectGrants
  <2>1. ASSUME NEW p \in Procs, NEW s \in Sessions, Begin(p, s)
        PROVE  LocksProtectGrants'
    BY <2>1 DEF Begin, dbVars
  <2>2. ASSUME NEW p \in Procs, Lookup(p)
        PROVE  LocksProtectGrants'
    BY <2>2 DEF Lookup, dbVars
  <2>3. ASSUME NEW p \in Procs, Insert(p)
        PROVE  LocksProtectGrants'
    BY <2>3 DEF Insert, SessionKeyFree, dbVars
  <2>4. ASSUME NEW p \in Procs, Lock(p)
        PROVE  LocksProtectGrants'
    BY <2>4 DEF Lock, BalanceRowFree, dbVars
  <2>5. ASSUME NEW p \in Procs, Save(p)
        PROVE  LocksProtectGrants'
    <3>1. CASE pc' = [pc EXCEPT ![p] = "granted"]
      BY <2>5, <3>1 DEF Save
    <3>2. CASE pc' = [pc EXCEPT ![p] = "failed"]
      BY <2>5, <3>2 DEF Save
    <3> QED
      BY <2>5, <3>1, <3>2 DEF Save
  <2>6. ASSUME NEW p \in Procs, Return(p)
        PROVE  LocksProtectGrants'
    BY <2>6 DEF Return, Returned, dbVars
  <2>7. ASSUME NEW p \in Procs, Abort(p)
        PROVE  LocksProtectGrants'
    BY <2>7 DEF Abort, dbVars
  <2>8. ASSUME NEW o \in Owners, DeleteOwner(o)
        PROVE  LocksProtectGrants'
    BY <2>8 DEF DeleteOwner, procVars
  <2>9. CASE UNCHANGED ledgerVars
    BY <2>9 DEF ledgerVars
  <2> QED
    BY <2>1, <2>2, <2>3, <2>4, <2>5, <2>6, <2>7, <2>8, <2>9 DEF LedgerNext, Step
<1> QED
  BY <1>1, <1>2, LedgerTypeCorrect, PTL DEF LedgerSpec

\* Every step of the interleaved transactions is a step of CreditPromise or
\* invisible to it: the locks make Save a Grant.
LEMMA LedgerStepsArePromised ==
    LedgerTypeOK /\ LocksProtectGrants /\ [LedgerNext]_ledgerVars
    => [Promise!Next]_Promise!vars
<1> SUFFICES ASSUME LedgerTypeOK, LocksProtectGrants, [LedgerNext]_ledgerVars
             PROVE  [Promise!Next]_Promise!vars
  OBVIOUS
<1> USE LedgerAssumption DEF LedgerTypeOK
<1>1. ASSUME NEW p \in Procs, Save(p)
      PROVE  [Promise!Next]_Promise!vars
  <2> DEFINE o == OwnerOf[sess[p]]
             new == read[p] + CreditsOf[sess[p]]
  <2>1. CASE /\ o \in owners /\ new <= MaxBalance
             /\ ledger' = ledger \cup {sess[p]}
             /\ balance' = [balance EXCEPT ![o] = new]
    <3>1. /\ sess[p] \notin ledger
          /\ CreditsOf[sess[p]] > 0
          /\ read[p] = balance[o]
      BY <1>1 DEF Save, LocksProtectGrants
    <3>2. Promise!Grant(sess[p])
      BY <1>1, <2>1, <3>1 DEF Save, Promise!Grant
    <3> QED
      BY <3>2 DEF Promise!Next
  <2>2. CASE UNCHANGED <<ledger, balance>>
    BY <1>1, <2>2 DEF Save, Promise!vars
  <2> QED
    BY <1>1, <2>1, <2>2 DEF Save
<1>2. ASSUME NEW o \in Owners, DeleteOwner(o)
      PROVE  [Promise!Next]_Promise!vars
  <2>1. Promise!Forget(o)
    BY <1>2 DEF DeleteOwner, Promise!Forget
  <2> QED
    BY <2>1 DEF Promise!Next
<1>3. ASSUME NEW p \in Procs,
             \/ \E s \in Sessions : Begin(p, s)
             \/ Lookup(p) \/ Insert(p) \/ Lock(p) \/ Return(p) \/ Abort(p)
      PROVE  [Promise!Next]_Promise!vars
  BY <1>3 DEF Begin, Lookup, Insert, Lock, Return, Abort, dbVars, Promise!vars
<1>4. CASE UNCHANGED ledgerVars
  BY <1>4 DEF ledgerVars, Promise!vars
<1> QED
  BY <1>1, <1>2, <1>3, <1>4 DEF LedgerNext, Step

\* Credits are granted at most once per Checkout session, and the ledger row
\* and the balance change in one step.
THEOREM LedgerImplementsPromise == LedgerSpec => ImplementsPromise
<1>1. LedgerInit => Promise!Init
  BY DEF LedgerInit, Promise!Init
<1> QED
  BY <1>1, LedgerStepsArePromised, LedgerTypeCorrect, LocksProtectGrantsCorrect, PTL
     DEF LedgerSpec, ImplementsPromise, Promise!Spec

----------------------------------------------------------------------------
(* Sums over finite sets.  MapThenSumSet is a recursive function on the     *)
(* subsets of its argument; what it computes follows by induction over      *)
(* finite sets, in the form of a minimal counterexample.                    *)

\* A nonempty family of finite sets has a member with no smaller one in the
\* family: induction over finite sets, as a statement about sets.
LEMMA MinimalFiniteSet ==
    ASSUME NEW F, F # {}, \A T \in F : IsFiniteSet(T)
    PROVE  \E T \in F : \A U \in F : U \subseteq T => U = T
<1> DEFINE S == UNION F
<1>1. F \subseteq FiniteSubsetsOf(S)
  BY DEF FiniteSubsetsOf
<1>2. IsWellFoundedOn(StrictSubsetOrdering(S), FiniteSubsetsOf(S))
  BY FS_StrictSubsetOrderingWellFounded
<1>3. PICK T \in F : \A U \in F : ~(<<U, T>> \in StrictSubsetOrdering(S))
  BY <1>1, <1>2, WFMin
<1>4. ASSUME NEW U \in F, U \subseteq T, U # T
      PROVE  FALSE
  BY <1>3, <1>4 DEF StrictSubsetOrdering
<1> QED
  BY <1>4

\* A nonempty set of naturals has a least member.
LEMMA LeastNatural ==
    ASSUME NEW F \in SUBSET Nat, F # {}
    PROVE  \E n \in F : \A m \in F : n <= m
<1> DEFINE R == {ss \in Nat \X Nat : ss[1] < ss[2]}
<1>1. IsWellFoundedOn(R, Nat)
  BY NatLessThanWellFounded DEF OpToRel
<1>2. \A m, n \in Nat : m < n => <<m, n>> \in R
  OBVIOUS
<1> HIDE DEF R
<1>3. PICK n \in F : \A m \in F : ~(<<m, n>> \in R)
  BY <1>1, WFMin
<1>4. ASSUME NEW m \in F
      PROVE  n <= m
  <2>1. m \in Nat /\ n \in Nat
    OBVIOUS
  <2>2. ~(m < n)
    BY Zenon, <1>2, <1>3, <2>1
  <2> QED
    BY <2>1, <2>2
<1> QED
  BY <1>4

\* The element MapThenSumSet takes out of a set, the recursive equation its
\* partial sums g satisfy, and the sum itself.
Choice(s) == CHOOSE x \in s : TRUE
IsSum(g, C, S) ==
    g = [s \in SUBSET S |-> IF s = {} THEN 0 ELSE C[Choice(s)] + g[s \ {Choice(s)}]]

SumOver(C, S) == MapThenSumSet(LAMBDA x : C[x], S)

\* Where the recursive equation has a solution, the sum is a solution's value.
LEMMA SumUnfold ==
    ASSUME NEW C, NEW S, \E g : IsSum(g, C, S)
    PROVE  \E g : IsSum(g, C, S) /\ SumOver(C, S) = g[S]
  BY DEF SumOver, MapThenSumSet, MapThenFoldSet, IsSum, Choice

\* Taking the chosen element out of a nonempty finite set.
LEMMA WithoutChoice ==
    ASSUME NEW s, IsFiniteSet(s), s # {}
    PROVE  /\ Choice(s) \in s
           /\ IsFiniteSet(s \ {Choice(s)})
           /\ Cardinality(s) \in Nat \ {0}
           /\ Cardinality(s \ {Choice(s)}) = Cardinality(s) - 1
<1>1. Choice(s) \in s
  BY DEF Choice
<1>2. Cardinality(s) \in Nat /\ Cardinality(s) # 0
  BY FS_CardinalityType, FS_EmptySet
<1> QED
  BY <1>1, <1>2, FS_RemoveElement

\* The recursive equation of a sum over a finite set has a solution, built up
\* by the size of the subsets.
LEMMA SumExists ==
    ASSUME NEW S, IsFiniteSet(S), NEW C
    PROVE  \E g : IsSum(g, C, S)
<1> DEFINE D(n) == {s \in SUBSET S : Cardinality(s) <= n}
           Body(g, s) == IF s = {} THEN 0 ELSE C[Choice(s)] + g[s \ {Choice(s)}]
           Good(n) == \E g : g = [s \in D(n) |-> Body(g, s)]
           Bad == {n \in Nat : ~Good(n)}
<1>1. \A s \in SUBSET S : IsFiniteSet(s) /\ Cardinality(s) \in Nat
  BY FS_Subset, FS_CardinalityType
<1>2. Bad = {}
  <2> SUFFICES ASSUME Bad # {} PROVE FALSE
    OBVIOUS
  <2>1. PICK n \in Bad : \A m \in Bad : n <= m
    <3>1. Bad \in SUBSET Nat
      OBVIOUS
    <3> HIDE DEF Bad
    <3> QED
      BY <3>1, LeastNatural
  <2>2. CASE n = 0
    <3>1. \A s \in D(0) : s = {}
      BY <1>1, FS_EmptySet
    <3>2. [s \in D(0) |-> 0] = [s \in D(0) |-> Body([t \in D(0) |-> 0], s)]
      BY <3>1
    <3> QED
      BY <2>1, <2>2, <3>2
  <2>3. CASE n # 0
    <3>1. n - 1 \in Nat /\ Good(n - 1)
      <4>1. n - 1 \in Nat /\ ~(n <= n - 1)
        BY <2>3
      <4>2. n - 1 \notin Bad
        BY <2>1, <4>1
      <4> QED
        BY <4>1, <4>2
    <3>2. PICK h : h = [s \in D(n - 1) |-> Body(h, s)]
      BY <3>1
    <3> DEFINE g == [s \in D(n) |-> Body(h, s)]
    <3>3. ASSUME NEW s \in D(n)
          PROVE  Body(h, s) = Body(g, s)
      <4>1. CASE s = {}
        BY <4>1
      <4>2. CASE s # {}
        <5> DEFINE t == s \ {Choice(s)}
        <5>1. t \in D(n - 1)
          BY <1>1, <2>1, <3>1, <4>2, WithoutChoice
        <5>2. t \in D(n)
          BY <1>1, <2>1, <5>1
        <5>3. g[t] = Body(h, t)
          BY <5>2
        <5>4. h[t] = Body(h, t)
          BY <3>2, <5>1
        <5> QED
          BY <4>2, <5>3, <5>4
      <4> QED
        BY <4>1, <4>2
    <3>4. g = [s \in D(n) |-> Body(g, s)]
      BY <3>3
    <3> QED
      BY <2>1, <3>4
  <2> QED
    BY <2>2, <2>3
<1>3. Good(Cardinality(S))
  BY <1>1, <1>2
<1>4. D(Cardinality(S)) = SUBSET S
  BY <1>1, FS_Subset
<1> QED
  BY <1>3, <1>4 DEF IsSum

\* A sum of naturals is a natural, and any element can be taken out first, not
\* only the chosen one.
LEMMA SumRemoves ==
    ASSUME NEW S, IsFiniteSet(S), NEW C, \A x \in S : C[x] \in Nat,
           NEW g, IsSum(g, C, S)
    PROVE  /\ \A s \in SUBSET S : g[s] \in Nat
           /\ \A s \in SUBSET S : \A x \in s : g[s] = C[x] + g[s \ {x}]
<1> DEFINE Ok(s) == g[s] \in Nat /\ \A x \in s : g[s] = C[x] + g[s \ {x}]
           Bad == {s \in SUBSET S : ~Ok(s)}
<1>1. \A s \in SUBSET S : IsFiniteSet(s)
  BY FS_Subset
<1>2. ASSUME NEW s \in SUBSET S, \A t \in SUBSET s : t # s => Ok(t)
      PROVE  Ok(s)
  <2>1. CASE s = {}
    BY <2>1 DEF IsSum
  <2>2. CASE s # {}
    <3> DEFINE c == Choice(s)
    <3>1. c \in s
      BY <1>1, <2>2, WithoutChoice
    <3>2. g[s] = C[c] + g[s \ {c}]
      BY <2>2 DEF IsSum
    <3> HIDE DEF c
    <3>3. Ok(s \ {c})
      BY <1>2, <3>1
    <3>4. C[c] \in Nat /\ g[s] \in Nat
      BY <3>1, <3>2, <3>3
    <3>5. ASSUME NEW x \in s, x # c
          PROVE  g[s] = C[x] + g[s \ {x}]
      <4>1. Ok(s \ {x}) /\ c \in s \ {x} /\ x \in s \ {c}
        BY <1>2, <3>1, <3>5
      <4>2. (s \ {x}) \ {c} = (s \ {c}) \ {x}
        OBVIOUS
      <4>3. g[s \ {c}] = C[x] + g[(s \ {c}) \ {x}]
        BY <3>3, <4>1
      <4>4. g[s \ {x}] = C[c] + g[(s \ {c}) \ {x}]
        BY <4>1, <4>2
      <4>5. Ok((s \ {c}) \ {x})
        BY <1>2, <3>1
      <4>6. C[x] \in Nat
        OBVIOUS
      <4> QED
        BY <3>2, <3>4, <4>3, <4>4, <4>5, <4>6
    <3> QED
      BY <3>2, <3>4, <3>5
  <2> QED
    BY <2>1, <2>2
<1>3. Bad = {}
  <2> SUFFICES ASSUME Bad # {} PROVE FALSE
    OBVIOUS
  <2>1. \A T \in Bad : IsFiniteSet(T)
    BY <1>1
  <2>2. PICK s \in Bad : \A t \in Bad : t \subseteq s => t = s
    <3> HIDE DEF Bad
    <3> QED
      BY <2>1, MinimalFiniteSet
  <2>3. \A t \in SUBSET s : t # s => Ok(t)
    BY <2>2
  <2> QED
    BY <1>2, <2>2, <2>3
<1> QED
  BY <1>3

\* The partial sums over two sets agree on what the sets share.
LEMMA SumAgrees ==
    ASSUME NEW S, IsFiniteSet(S), NEW T \in SUBSET S, NEW C,
           NEW g, IsSum(g, C, S), NEW h, IsSum(h, C, T)
    PROVE  g[T] = h[T]
<1> DEFINE Bad == {s \in SUBSET T : g[s] # h[s]}
<1>1. \A s \in SUBSET T : s \in SUBSET S /\ IsFiniteSet(s)
  BY FS_Subset
<1>2. Bad = {}
  <2> SUFFICES ASSUME Bad # {} PROVE FALSE
    OBVIOUS
  <2>1. \A s \in Bad : IsFiniteSet(s)
    BY <1>1
  <2>2. PICK s \in Bad : \A t \in Bad : t \subseteq s => t = s
    <3> HIDE DEF Bad
    <3> QED
      BY <2>1, MinimalFiniteSet
  <2>3. s # {}
    BY <1>1, <2>2 DEF IsSum
  <2>4. /\ g[s] = C[Choice(s)] + g[s \ {Choice(s)}]
        /\ h[s] = C[Choice(s)] + h[s \ {Choice(s)}]
    BY <1>1, <2>2, <2>3 DEF IsSum
  <2>5. g[s \ {Choice(s)}] = h[s \ {Choice(s)}]
    <3>1. Choice(s) \in s
      BY <1>1, <2>2, <2>3, WithoutChoice
    <3>2. s \ {Choice(s)} \in SUBSET T /\ s \ {Choice(s)} # s
      BY <2>2, <3>1
    <3> QED
      BY <2>2, <3>2
  <2> QED
    BY <2>2, <2>4, <2>5
<1> QED
  BY <1>2

\* Nothing sums to 0.
LEMMA SumOverNothing == \A C : SumOver(C, {}) = 0
<1> SUFFICES ASSUME NEW C PROVE SumOver(C, {}) = 0
  OBVIOUS
<1>1. PICK g : IsSum(g, C, {}) /\ SumOver(C, {}) = g[{}]
  BY FS_EmptySet, SumExists, SumUnfold
<1> QED
  BY <1>1 DEF IsSum

\* One more element adds its amount.
LEMMA SumOverOneMore ==
    ASSUME NEW S, IsFiniteSet(S), NEW x, x \notin S,
           NEW C, \A y \in S \cup {x} : C[y] \in Nat
    PROVE  SumOver(C, S \cup {x}) = SumOver(C, S) + C[x]
<1> DEFINE T == S \cup {x}
<1>1. IsFiniteSet(T)
  BY FS_AddElement
<1>2. PICK g : IsSum(g, C, T) /\ SumOver(C, T) = g[T]
  BY <1>1, SumExists, SumUnfold
<1>3. PICK h : IsSum(h, C, S) /\ SumOver(C, S) = h[S]
  BY SumExists, SumUnfold
<1>4. g[T] = C[x] + g[T \ {x}] /\ g[T \ {x}] \in Nat
  <2>1. x \in T /\ T \in SUBSET T /\ T \ {x} \in SUBSET T /\ \A y \in T : C[y] \in Nat
    OBVIOUS
  <2> HIDE DEF T
  <2>2. /\ \A s \in SUBSET T : g[s] \in Nat
        /\ \A s \in SUBSET T : \A y \in s : g[s] = C[y] + g[s \ {y}]
    BY <1>1, <1>2, <2>1, SumRemoves
  <2> QED
    BY <2>1, <2>2
<1>5. T \ {x} = S
  OBVIOUS
<1>6. g[S] = h[S]
  BY <1>1, <1>2, <1>3, SumAgrees
<1>7. C[x] \in Nat /\ g[T \ {x}] = SumOver(C, S)
  BY <1>3, <1>5, <1>6
<1> QED
  BY <1>2, <1>4, <1>7

----------------------------------------------------------------------------
\* What BalanceIsLedgerSum needs of the state to be inductive: only finitely
\* many sessions have been granted, however many Stripe may create.
SumInv ==
    /\ ledger \subseteq Sessions /\ IsFiniteSet(ledger)
    /\ balance \in [Owners -> Nat]
    /\ BalanceIsLedgerSum

\* Both steps of CreditPromise keep the balances equal to the sums of the
\* ledger rows.
LEMMA PromiseKeepsSums ==
    SumInv /\ [Promise!Next]_Promise!vars => SumInv'
<1> SUFFICES ASSUME SumInv, [Promise!Next]_Promise!vars
             PROVE  SumInv'
  OBVIOUS
<1>1. /\ ledger \subseteq Sessions /\ IsFiniteSet(ledger)
      /\ balance \in [Owners -> Nat]
  BY DEF SumInv
<1>2. \A o \in Owners : /\ balance[o] = SumOver(CreditsOf, SessionsOf(o))
                        /\ IsFiniteSet(SessionsOf(o))
  <2>1. \A o \in Owners : SessionsOf(o) \in SUBSET ledger
    BY DEF SessionsOf
  <2>2. \A o \in Owners : IsFiniteSet(SessionsOf(o))
    BY <1>1, <2>1, FS_Subset
  <2>3. \A o \in Owners : balance[o] = SumOver(CreditsOf, SessionsOf(o))
    BY DEF SumInv, BalanceIsLedgerSum, SumOver
  <2> QED
    BY <2>2, <2>3
<1>3. ASSUME ledger' \subseteq Sessions, IsFiniteSet(ledger'),
             balance' \in [Owners -> Nat],
             \A o \in Owners :
                 balance'[o] = SumOver(CreditsOf, {s \in ledger' : OwnerOf[s] = o})
      PROVE  SumInv'
  <2>1. \A o \in Owners : balance'[o] = SumOver(CreditsOf, SessionsOf(o)')
    BY <1>3 DEF SessionsOf
  <2>2. BalanceIsLedgerSum'
    BY <2>1 DEF BalanceIsLedgerSum, SumOver, MapThenSumSet, MapThenFoldSet
  <2> QED
    BY <1>3, <2>2 DEF SumInv
<1>4. ASSUME NEW s \in Sessions, Promise!Grant(s)
      PROVE  SumInv'
  <2> DEFINE o == OwnerOf[s]
  <2>1. /\ s \notin ledger /\ ledger' = ledger \cup {s}
        /\ o \in Owners /\ CreditsOf[s] \in Nat
        /\ balance' = [balance EXCEPT ![o] = balance[o] + CreditsOf[s]]
    BY <1>4, LedgerAssumption DEF Promise!Grant
  <2>2. IsFiniteSet(ledger') /\ ledger' \subseteq Sessions
    BY <1>1, <2>1, FS_AddElement
  <2>3. balance' \in [Owners -> Nat]
    BY <1>1, <2>1
  <2>4. ASSUME NEW u \in Owners
        PROVE  balance'[u] = SumOver(CreditsOf, {x \in ledger' : OwnerOf[x] = u})
    <3>1. CASE u = o
      <4>1. {x \in ledger' : OwnerOf[x] = u} = SessionsOf(u) \cup {s}
        BY <2>1, <3>1 DEF SessionsOf
      <4>2. s \notin SessionsOf(u) /\ \A x \in SessionsOf(u) \cup {s} : CreditsOf[x] \in Nat
        BY <1>1, <2>1, LedgerAssumption DEF SessionsOf
      <4>3. SumOver(CreditsOf, SessionsOf(u) \cup {s})
                = SumOver(CreditsOf, SessionsOf(u)) + CreditsOf[s]
        BY <1>2, <4>2, SumOverOneMore
      <4>4. balance'[u] = balance[u] + CreditsOf[s]
        BY <1>1, <2>1, <3>1
      <4> QED
        BY <1>2, <4>1, <4>3, <4>4
    <3>2. CASE u # o
      <4>1. {x \in ledger' : OwnerOf[x] = u} = SessionsOf(u)
        BY <2>1, <3>2 DEF SessionsOf
      <4>2. balance'[u] = balance[u]
        BY <1>1, <2>1, <3>2
      <4> QED
        BY <1>2, <4>1, <4>2
    <3> QED
      BY <3>1, <3>2
  <2> QED
    BY <1>3, <2>2, <2>3, <2>4
<1>5. ASSUME NEW o \in Owners, Promise!Forget(o)
      PROVE  SumInv'
  <2>1. /\ ledger' = {s \in ledger : OwnerOf[s] # o}
        /\ balance' = [balance EXCEPT ![o] = 0]
    BY <1>5 DEF Promise!Forget
  <2>2. IsFiniteSet(ledger') /\ ledger' \subseteq Sessions
    <3>1. ledger' \in SUBSET ledger
      BY <2>1
    <3> QED
      BY <1>1, <3>1, FS_Subset
  <2>3. balance' \in [Owners -> Nat]
    BY <1>1, <2>1
  <2>4. ASSUME NEW u \in Owners
        PROVE  balance'[u] = SumOver(CreditsOf, {x \in ledger' : OwnerOf[x] = u})
    <3>1. CASE u = o
      <4>1. {x \in ledger' : OwnerOf[x] = u} = {}
        BY <2>1, <3>1
      <4>2. balance'[u] = 0
        BY <1>1, <2>1, <3>1
      <4> QED
        BY <4>1, <4>2, SumOverNothing
    <3>2. CASE u # o
      <4>1. {x \in ledger' : OwnerOf[x] = u} = SessionsOf(u)
        BY <2>1, <3>2 DEF SessionsOf
      <4>2. balance'[u] = balance[u]
        BY <1>1, <2>1, <3>2
      <4> QED
        BY <1>2, <4>1, <4>2
    <3> QED
      BY <3>1, <3>2
  <2> QED
    BY <1>3, <2>2, <2>3, <2>4
<1>6. CASE UNCHANGED Promise!vars
  <2>1. ledger' = ledger /\ balance' = balance
    BY <1>6 DEF Promise!vars
  <2>2. \A u \in Owners :
            balance'[u] = SumOver(CreditsOf, {x \in ledger' : OwnerOf[x] = u})
    BY <1>2, <2>1 DEF SessionsOf
  <2> QED
    BY <1>1, <1>3, <2>1, <2>2
<1> QED
  BY <1>4, <1>5, <1>6 DEF Promise!Next

\* The denormalised balance is the sum of the owner's ledger rows, for any
\* number of workers, sessions and owners: it holds of CreditPromise, and
\* grant_credits_for_session implements CreditPromise.
THEOREM BalanceIsLedgerSumCorrect == LedgerSpec => []BalanceIsLedgerSum
<1>1. Promise!Init => SumInv
  <2> SUFFICES ASSUME Promise!Init PROVE SumInv
    OBVIOUS
  <2>1. ledger = {} /\ balance = [o \in Owners |-> 0]
    BY DEF Promise!Init
  <2>2. \A o \in Owners : SessionsOf(o) = {}
    BY <2>1 DEF SessionsOf
  <2>3. \A o \in Owners : balance[o] = SumOver(CreditsOf, SessionsOf(o))
    BY <2>1, <2>2, SumOverNothing
  <2>4. BalanceIsLedgerSum
    BY <2>3 DEF BalanceIsLedgerSum, SumOver
  <2> QED
    BY <2>1, <2>4, FS_EmptySet DEF SumInv
<1>2. SumInv => BalanceIsLedgerSum
  BY DEF SumInv
<1> QED
  BY <1>1, <1>2, PromiseKeepsSums, LedgerImplementsPromise, PTL
     DEF ImplementsPromise, Promise!Spec
=============================================================================
