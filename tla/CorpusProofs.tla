---------------------------- MODULE CorpusProofs ----------------------------
(***************************************************************************)
(* Lemmas about the list of contracts that the proofs about the corpus     *)
(* test and about the performance gate share.                              *)
(***************************************************************************)
EXTENDS Corpus, FiniteSetTheorems, TLAPS

\* A set of numbers that is not empty has a least element.
LEMMA LeastNat ==
  ASSUME NEW T, T \subseteq Nat, T # {}
  PROVE  /\ Min(T) \in T
         /\ \A n \in T : Min(T) <= n
<1>1. \E x \in T : \A y \in T : ~ (<<y, x>> \in OpToRel(<, Nat))
  BY WFMin, NatLessThanWellFounded
<1>2. \A x, y \in Nat : ~ (<<y, x>> \in OpToRel(<, Nat)) => x <= y
  BY DEF OpToRel
<1>3. \E x \in T : \A y \in T : x <= y
  BY <1>1, <1>2
<1> QED
  BY <1>3 DEF Min

\* The next of some contracts is one of them.
LEMMA FirstIsListed ==
  ASSUME NEW cs, cs \subseteq Names, cs # {}
  PROVE  First(cs) \in cs
<1> DEFINE places == {i \in DOMAIN Contracts : Contracts[i] \in cs}
<1>1. places \subseteq Nat
  BY ContractsAssumption
<1>2. places # {}
  BY DEF Names, Range
<1>3. Min(places) \in places
  BY <1>1, <1>2, LeastNat
<1> QED
  BY <1>3 DEF First
=============================================================================
