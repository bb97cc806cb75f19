------------------------------ MODULE DuplexPipe ------------------------------
(***************************************************************************)
(* What an upgraded connection is to the browser and the app: one pipe in  *)
(* each direction.  Items arrive in order, each once, and a sink is told   *)
(* of the end only after it has got everything, unless the pipe has been   *)
(* broken; then it may be told at any time, but still gets nothing that    *)
(* was not sent.  UpgradeChain implements this.                            *)
(***************************************************************************)
EXTENDS Naturals, Sequences

CONSTANT Directions

VARIABLES sent,    \* items a source has sent
          got,     \* the items its sink has received, in order
          closed,  \* the source has ended its direction
          told,    \* the sink has been told of the end
          broken   \* a fault has happened

vars == <<sent, got, closed, told, broken>>

Init ==
  /\ sent   = [d \in Directions |-> 0]
  /\ got    = [d \in Directions |-> <<>>]
  /\ closed = [d \in Directions |-> FALSE]
  /\ told   = [d \in Directions |-> FALSE]
  /\ broken = FALSE

Send(d) ==
  /\ ~closed[d]
  /\ sent' = [sent EXCEPT ![d] = @ + 1]
  /\ UNCHANGED <<got, closed, told, broken>>

Close(d) ==
  /\ closed' = [closed EXCEPT ![d] = TRUE]
  /\ UNCHANGED <<sent, got, told, broken>>

Deliver(d) ==
  /\ ~told[d]
  /\ Len(got[d]) < sent[d]
  /\ got' = [got EXCEPT ![d] = Append(@, Len(@) + 1)]
  /\ UNCHANGED <<sent, closed, told, broken>>

TellEnd(d) ==
  /\ broken \/ (closed[d] /\ Len(got[d]) = sent[d])
  /\ told' = [told EXCEPT ![d] = TRUE]
  /\ UNCHANGED <<sent, got, closed, broken>>

\* A fault; one who leaves ends what it sends as well.
Break ==
  /\ broken' = TRUE
  /\ closed' \in [Directions -> BOOLEAN]
  /\ \A d \in Directions : closed[d] => closed'[d]
  /\ UNCHANGED <<sent, got, told>>

Next == Break \/ \E d \in Directions : Send(d) \/ Close(d) \/ Deliver(d) \/ TellEnd(d)

Spec == Init /\ [][Next]_vars
==============================================================================
