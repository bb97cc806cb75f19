---------------------------- MODULE DuplexPipeProofs ----------------------------
(***************************************************************************)
(* What DuplexPipe says, proved from the module alone.  UpgradeChainProofs *)
(* carries it over to the chain of edge, stream and target by refinement.  *)
(***************************************************************************)
EXTENDS DuplexPipe, TLAPS

\* A sink has a prefix of what its source has sent, each item in its place.
InOrder ==
  \A d \in Directions :
    Len(got[d]) <= sent[d] /\ \A i \in 1 .. Len(got[d]) : got[d][i] = i

\* Unless something has broken, whoever is told of the end has everything.
EndIsComplete == \A d \in Directions : told[d] /\ ~broken => Len(got[d]) = sent[d]

Types ==
  /\ sent   \in [Directions -> Nat]
  /\ got    \in [Directions -> Seq(Nat)]
  /\ closed \in [Directions -> BOOLEAN]
  /\ told   \in [Directions -> BOOLEAN]
  /\ broken \in BOOLEAN

\* A source that has ended its direction sends no more.
ToldInv == \A d \in Directions : told[d] /\ ~broken => closed[d] /\ Len(got[d]) = sent[d]

PipeInv == Types /\ InOrder /\ ToldInv

LEMMA PipeInvInit == Init => PipeInv
<1> SUFFICES ASSUME Init PROVE PipeInv
  OBVIOUS
<1>1. Types
  <2>1. <<>> \in Seq(Nat) /\ 0 \in Nat
    OBVIOUS
  <2>2. got \in [Directions -> Seq(Nat)]
    BY <2>1 DEF Init
  <2>3. QED BY <2>1, <2>2 DEF Init, Types
<1>2. \A d \in Directions : got[d] = <<>> /\ sent[d] = 0 /\ ~told[d]
  BY DEF Init
<1>3. QED BY <1>1, <1>2 DEF PipeInv, InOrder, ToldInv

LEMMA PipeInvStep == PipeInv /\ [Next]_vars => PipeInv'
<1> SUFFICES ASSUME PipeInv, [Next]_vars PROVE PipeInv'
  OBVIOUS
<1> USE DEF PipeInv
<1>1. CASE UNCHANGED vars
  BY <1>1 DEF vars, Types, InOrder, ToldInv
<1>2. CASE Break
  BY <1>2 DEF Break, Types, InOrder, ToldInv
<1>3. ASSUME NEW d \in Directions, Send(d) PROVE PipeInv'
  <2>1. \A e \in Directions : sent'[e] = (IF e = d THEN sent[e] + 1 ELSE sent[e])
    BY <1>3 DEF Send, Types
  <2>2. Types'
    BY <1>3 DEF Send, Types
  <2>3. InOrder'
    BY <1>3, <2>1 DEF Send, Types, InOrder
  <2>4. ToldInv'
    BY <1>3, <2>1 DEF Send, Types, ToldInv
  <2>5. QED BY <2>2, <2>3, <2>4
<1>4. ASSUME NEW d \in Directions, Close(d) \/ TellEnd(d) PROVE PipeInv'
  BY <1>4 DEF Close, TellEnd, Types, InOrder, ToldInv
<1>5. ASSUME NEW d \in Directions, Deliver(d) PROVE PipeInv'
  <2> DEFINE n == Len(got[d])
  <2>1. n \in Nat /\ n < sent[d] /\ got[d] \in Seq(Nat) /\ ~told[d]
    BY <1>5 DEF Deliver, Types
  <2>2. /\ Append(got[d], n + 1) \in Seq(Nat) /\ Len(Append(got[d], n + 1)) = n + 1
        /\ \A i \in 1 .. n : Append(got[d], n + 1)[i] = got[d][i]
        /\ Append(got[d], n + 1)[n + 1] = n + 1
    BY <2>1
  <2>3. /\ got'[d] = Append(got[d], n + 1)
        /\ \A e \in Directions \ {d} : got'[e] = got[e]
        /\ UNCHANGED <<sent, closed, told, broken>>
    BY <1>5 DEF Deliver, Types
  <2>4. Types'
    BY <1>5, <2>2 DEF Deliver, Types
  <2>5. InOrder'
    <3>1. Len(got'[d]) <= sent[d] /\ \A i \in 1 .. Len(got'[d]) : got'[d][i] = i
      <4>1. \A i \in 1 .. n : got[d][i] = i
        BY DEF InOrder
      <4> DEFINE a == Append(got[d], n + 1)
      <4>2. \A i \in 1 .. n + 1 : i \in 1 .. n \/ i = n + 1
        BY <2>1
      <4> HIDE DEF n, a
      <4>3. \A i \in 1 .. n + 1 : a[i] = i
        BY <2>2, <4>1, <4>2 DEF a
      <4>4. Len(a) = n + 1 /\ n + 1 <= sent[d]
        BY <2>1, <2>2 DEF a, Types
      <4>5. QED BY <2>3, <4>3, <4>4 DEF a
    <3>2. QED BY <2>3, <3>1 DEF InOrder
  <2>6. ToldInv'
    BY <2>1, <2>3 DEF ToldInv
  <2>7. QED BY <2>4, <2>5, <2>6
<1>6. QED BY <1>1, <1>2, <1>3, <1>4, <1>5 DEF Next

LEMMA Invariance == Spec => []PipeInv
BY PipeInvInit, PipeInvStep, PTL DEF Spec

\* A pipe delivers a prefix of what was sent, and its end means all of it.
THEOREM PipeDelivers == Spec => [](InOrder /\ EndIsComplete)
<1>1. PipeInv => InOrder /\ EndIsComplete
  BY DEF PipeInv, ToldInv, EndIsComplete
<1>2. QED BY <1>1, Invariance, PTL

\* Nothing follows the end: a sink that has been told gets nothing more.
NothingAfterEnd ==
  [][\A d \in Directions : told[d] => told'[d] /\ got'[d] = got[d]]_vars

\* The end is told once, and is the last thing a sink is told.
THEOREM EndIsFinal == Spec => NothingAfterEnd
<1>1. PipeInv /\ [Next]_vars
        => [\A d \in Directions : told[d] => told'[d] /\ got'[d] = got[d]]_vars
  <2> SUFFICES ASSUME PipeInv, Next, NEW d \in Directions, told[d]
               PROVE  told'[d] /\ got'[d] = got[d]
    BY DEF vars
  <2>1. CASE Break
    BY <2>1 DEF Break
  <2>2. ASSUME NEW e \in Directions, Send(e) \/ Close(e) \/ Deliver(e) \/ TellEnd(e)
        PROVE  told'[d] /\ got'[d] = got[d]
    BY <2>2 DEF Send, Close, Deliver, TellEnd, PipeInv, Types
  <2>3. QED BY <2>1, <2>2 DEF Next
<1>2. QED BY <1>1, Invariance, PTL DEF Spec, NothingAfterEnd
==============================================================================
