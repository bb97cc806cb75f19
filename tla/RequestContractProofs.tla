------------------------- MODULE RequestContractProofs -------------------------
(***************************************************************************)
(* What RequestContract says, proved from the module alone.                *)
(* TunnelStreamProofs carries it over to the tunnel by refinement.         *)
(***************************************************************************)
EXTENDS RequestContract, TLAPS

\* A 504 is safe to retry; a response is one the app gave to this request, and
\* an app that has had nothing of the request has said nothing.
VerdictsAreTrue ==
  \A q \in Requests :
    /\ outcome[q] = "page504" => delivered[q] = 0 /\ produced[q] = 0
    /\ outcome[q] = "ok" => delivered[q] > 0 /\ produced[q] > 0
    /\ returned[q] <= produced[q]

\* The browser is told one thing, and nothing reaches an app after a 504.
VerdictsAreFinal ==
  [][\A q \in Requests :
       /\ outcome[q] # "none" => outcome'[q] = outcome[q]
       /\ outcome[q] = "page504" => delivered'[q] = delivered[q]]_vars

OneInv(q) ==
  /\ q \notin granted => delivered[q] = 0
  /\ delivered[q] = 0 => produced[q] = 0
  /\ returned[q] <= produced[q]
  /\ outcome[q] = "page504" => q \notin granted
  /\ outcome[q] = "ok" <=> returned[q] > 0

Types ==
  /\ outcome   \in [Requests -> Outcomes]
  /\ granted   \subseteq Requests
  /\ delivered \in [Requests -> Nat]
  /\ produced  \in [Requests -> Nat]
  /\ returned  \in [Requests -> Nat]

ContractInv == Types /\ \A q \in Requests : OneInv(q)

LEMMA ContractInvInit == Init => ContractInv
BY DEF Init, ContractInv, Types, OneInv, Outcomes

LEMMA ContractInvStep == ContractInv /\ [Next]_vars => ContractInv'
<1> SUFFICES ASSUME ContractInv, [Next]_vars PROVE ContractInv'
  OBVIOUS
<1> USE DEF ContractInv
<1>1. CASE UNCHANGED vars
  BY <1>1 DEF vars, Types, OneInv
<1>2. ASSUME NEW q \in Requests, Grant(q) PROVE ContractInv'
  BY <1>2 DEF Grant, Types, OneInv
<1>3. ASSUME NEW q \in Requests, Deliver(q) PROVE ContractInv'
  BY <1>3 DEF Deliver, Types, OneInv
<1>4. ASSUME NEW q \in Requests, Produce(q) PROVE ContractInv'
  BY <1>4 DEF Produce, Types, OneInv
<1>5. ASSUME NEW q \in Requests, Return(q) PROVE ContractInv'
  BY <1>5 DEF Return, Types, OneInv, Outcomes
<1>6. ASSUME NEW q \in Requests, NEW verdict \in Outcomes, Conclude(q, verdict)
      PROVE  ContractInv'
  BY <1>6 DEF Conclude, Types, OneInv
<1>7. QED BY <1>1, <1>2, <1>3, <1>4, <1>5, <1>6 DEF Next

LEMMA Invariance == Spec => []ContractInv
BY ContractInvInit, ContractInvStep, PTL DEF Spec

\* What the browser is told agrees with what the app has had and has said.
THEOREM VerdictsTrue == Spec => []VerdictsAreTrue
<1>1. ContractInv => VerdictsAreTrue
  <2> SUFFICES ASSUME ContractInv, NEW q \in Requests
               PROVE  /\ outcome[q] = "page504" => delivered[q] = 0 /\ produced[q] = 0
                      /\ outcome[q] = "ok" => delivered[q] > 0 /\ produced[q] > 0
                      /\ returned[q] <= produced[q]
    BY DEF VerdictsAreTrue
  <2>1. OneInv(q) /\ delivered[q] \in Nat /\ produced[q] \in Nat /\ returned[q] \in Nat
    BY DEF ContractInv, Types
  <2>2. QED BY <2>1 DEF OneInv
<1>2. QED BY <1>1, Invariance, PTL

\* A verdict is never taken back, and a 504 closes the way to the app.
THEOREM VerdictsFinal == Spec => VerdictsAreFinal
<1>1. ContractInv /\ [Next]_vars
        => [\A q \in Requests :
              /\ outcome[q] # "none" => outcome'[q] = outcome[q]
              /\ outcome[q] = "page504" => delivered'[q] = delivered[q]]_vars
  <2> SUFFICES ASSUME ContractInv, Next, NEW q \in Requests, outcome[q] # "none"
               PROVE  /\ outcome'[q] = outcome[q]
                      /\ outcome[q] = "page504" => delivered'[q] = delivered[q]
    BY DEF vars
  <2>1. PICK r \in Requests : \/ Grant(r) \/ Deliver(r) \/ Produce(r) \/ Return(r)
                              \/ \E verdict \in Outcomes : Conclude(r, verdict)
    BY DEF Next
  <2>2. outcome'[q] = outcome[q]
    BY <2>1 DEF Grant, Deliver, Produce, Return, Conclude, ContractInv, Types
  <2>3. outcome[q] = "page504" => delivered'[q] = delivered[q]
    BY <2>1 DEF Grant, Deliver, Produce, Return, Conclude, ContractInv, Types, OneInv
  <2>4. QED BY <2>2, <2>3
<1>2. QED BY <1>1, Invariance, PTL DEF Spec, VerdictsAreFinal
==============================================================================
