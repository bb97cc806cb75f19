--------------------------- MODULE RequestContract ---------------------------
(***************************************************************************)
(* What the tunnel promises for one HTTP request, without saying how: the  *)
(* vocabulary of the two ends only.  A request is a sequence of ReqLen     *)
(* chunks, a response one of RespLen chunks.                               *)
(*                                                                         *)
(*   - nothing of a request reaches the app before the far side has        *)
(*     granted the stream, and a 504 forecloses the grant for good;        *)
(*   - the browser gets chunks of the response in order and only ones the  *)
(*     app produced;                                                       *)
(*   - the browser is told one thing: a response, an error page, or        *)
(*     nothing because it left.                                            *)
(*                                                                         *)
(* TunnelStream implements this module (see Contract there).               *)
(***************************************************************************)
EXTENDS Naturals

CONSTANTS Requests,   \* the requests browsers send to one edge
          ReqLen,     \* chunks of a request
          RespLen     \* chunks of a response, the head first

VARIABLES outcome,    \* what the browser of a request has been told
          granted,    \* the requests whose far side reached the app, to the edge's knowledge
          delivered,  \* how many chunks of the request the app has
          produced,   \* how many chunks of the response the app has sent
          returned    \* how many chunks of the response the browser's side has

vars == <<outcome, granted, delivered, produced, returned>>

Outcomes == {"none", "ok", "page502", "page504", "gone"}

Init ==
  /\ outcome   = [q \in Requests |-> "none"]
  /\ granted   = {}
  /\ delivered = [q \in Requests |-> 0]
  /\ produced  = [q \in Requests |-> 0]
  /\ returned  = [q \in Requests |-> 0]

\* The edge learns that the app accepted: only while it still waits.
Grant(q) ==
  /\ outcome[q] = "none"
  /\ q \notin granted
  /\ granted' = granted \cup {q}
  /\ UNCHANGED <<outcome, delivered, produced, returned>>

\* One more chunk of a granted request reaches the app.
Deliver(q) ==
  /\ q \in granted
  /\ delivered[q] < ReqLen
  /\ delivered' = [delivered EXCEPT ![q] = @ + 1]
  /\ UNCHANGED <<outcome, granted, produced, returned>>

\* The app, having seen some of the request, sends one more chunk.
Produce(q) ==
  /\ delivered[q] > 0
  /\ produced[q] < RespLen
  /\ produced' = [produced EXCEPT ![q] = @ + 1]
  /\ UNCHANGED <<outcome, granted, delivered, returned>>

\* The next chunk of the response comes back; the first one is the verdict.
Return(q) ==
  /\ q \in granted
  /\ outcome[q] \in {"none", "ok"}
  /\ returned[q] < produced[q]
  /\ returned' = [returned EXCEPT ![q] = @ + 1]
  /\ outcome' = [outcome EXCEPT ![q] = "ok"]
  /\ UNCHANGED <<granted, delivered, produced>>

\* A verdict other than a response.  A timeout is one only before the grant.
Conclude(q, verdict) ==
  /\ outcome[q] = "none"
  /\ verdict \in {"page502", "page504", "gone"}
  /\ verdict = "page504" => q \notin granted
  /\ outcome' = [outcome EXCEPT ![q] = verdict]
  /\ UNCHANGED <<granted, delivered, produced, returned>>

Next ==
  \E q \in Requests :
    \/ Grant(q)
    \/ Deliver(q)
    \/ Produce(q)
    \/ Return(q)
    \/ \E verdict \in Outcomes : Conclude(q, verdict)

Spec == Init /\ [][Next]_vars
==============================================================================
