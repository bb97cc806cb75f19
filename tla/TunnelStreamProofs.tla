-------------------------- MODULE TunnelStreamProofs --------------------------
(***************************************************************************)
(* Theorems about TunnelStream, for every set of requests, every length of *)
(* request and response, every stream limit and every mix of versions.     *)
(***************************************************************************)
EXTENDS TunnelStream, TLAPS

USE DEF EdgePhases, OpenPhases, Outcomes, TargetPhases, Directions, Statuses,
        HelloLen, TimedPhases, AfterHello, StatusBytes, RequestLeft, BothEnded

\* The edge's steps change the edge's variables only ...
LEMMA EdgeFrame ==
  ASSUME NEW q \in Requests, EdgeStep(q)
  PROVE  UNCHANGED <<targetVars, appVars, linkVars>>
BY DEF EdgeStep, OpenStep, ProxyStep, Arrive, OpenBi, OpenBiFails, WriteHello,
       WriteHelloFails, ReadStatusOk, ReadStatusFails, OpenTimeout, SendChunk,
       RecvChunk, ProxyFails, ProxyDone, BrowserLeaves

\* ... and the target's leave the edge's and the connection's alone.
LEMMA TargetFrame ==
  ASSUME NEW q \in Requests, TargetStep(q)
  PROVE  UNCHANGED <<edgeVars, linkVars>>
BY DEF TargetStep, HandshakeStep, ForwardStep, BackwardStep, AcceptBi, ReadHead,
       ReadName, ReadHelloFails, DialOk, DialFails, ReportOk, ReportFailed,
       ReportFails, FwdCopy, FwdEof, FwdFails, BwdCopy, EndBackward, BwdEof,
       BwdFails, SpliceDone, appVars

LEMMA EdgeTypes ==
  ASSUME TypeOK, HelloProgress, NEW q \in Requests, EdgeStep(q)
  PROVE  TypeOK' /\ HelloProgress'
<1>1. TargetTypeOK' /\ AppTypeOK' /\ LinkTypeOK'
  BY EdgeFrame
  DEF TypeOK, TargetTypeOK, AppTypeOK, LinkTypeOK, targetVars, appVars, linkVars
<1>2. EdgeTypeOK /\ \A r \in Requests : downSent[r] \in 0 .. RespLen
  BY DEF TypeOK, TargetTypeOK
<1>3. EdgeTypeOK' /\ HelloProgress'
  <2> USE <1>2, LenAssumption DEF EdgeTypeOK, HelloProgress, EndRequest
  <2>1. CASE Arrive(q)          BY <2>1 DEF Arrive
  <2>2. CASE OpenBi(q)          BY <2>2 DEF OpenBi
  <2>3. CASE OpenBiFails(q)     BY <2>3 DEF OpenBiFails
  <2>4. CASE WriteHello(q)      BY <2>4 DEF WriteHello
  <2>5. CASE WriteHelloFails(q) BY <2>5 DEF WriteHelloFails
  <2>6. CASE ReadStatusOk(q)
    <3>1. 1 \in 0 .. 1 + RespLen
      OBVIOUS
    <3>2. QED BY <2>6, <3>1 DEF ReadStatusOk
  <2>7. CASE ReadStatusFails(q) BY <2>7 DEF ReadStatusFails
  <2>8. CASE OpenTimeout(q)     BY <2>8 DEF OpenTimeout
  <2>9. CASE SendChunk(q)
    <3>1. upSent[q] + 1 \in 0 .. HelloLen + ReqLen
      BY <2>9 DEF SendChunk
    <3>2. QED BY <2>9, <3>1 DEF SendChunk
  <2>10. CASE RecvChunk(q)
    <3>1. downRead[q] + 1 \in 0 .. 1 + RespLen /\ downRead[q] \in 0 .. RespLen
      BY <2>10 DEF RecvChunk, DownWritten
    <3>2. Append(edgeGot[q], DownItem(downRead[q] + 1)) \in Seq(0 .. RespLen)
      BY <3>1 DEF DownItem
    <3>3. QED BY <2>10, <3>1, <3>2 DEF RecvChunk
  <2>11. CASE ProxyFails(q)     BY <2>11 DEF ProxyFails
  <2>12. CASE ProxyDone(q)      BY <2>12 DEF ProxyDone
  <2>13. CASE BrowserLeaves(q)  BY <2>13 DEF BrowserLeaves
  <2>14. QED
    BY <2>1, <2>2, <2>3, <2>4, <2>5, <2>6, <2>7, <2>8, <2>9, <2>10, <2>11,
       <2>12, <2>13 DEF EdgeStep, OpenStep, ProxyStep
<1>4. QED BY <1>1, <1>3 DEF TypeOK

LEMMA TargetTypes ==
  ASSUME TypeOK, HelloProgress, NEW q \in Requests, TargetStep(q)
  PROVE  TypeOK' /\ HelloProgress'
<1>1. EdgeTypeOK' /\ HelloProgress' /\ LinkTypeOK'
  BY TargetFrame DEF TypeOK, EdgeTypeOK, LinkTypeOK, HelloProgress, edgeVars, linkVars
<1>2. /\ TargetTypeOK /\ AppTypeOK
      /\ \A r \in Requests : upSent[r] \in 0 .. HelloLen + ReqLen
  BY DEF TypeOK, EdgeTypeOK
<1>3. TargetTypeOK' /\ AppTypeOK'
  <2> USE <1>2, LenAssumption DEF TargetTypeOK, AppTypeOK, EndStream, EndBackward,
                                  appVars
  <2>1. CASE AcceptBi(q)       BY <2>1 DEF AcceptBi
  <2>2. CASE ReadHead(q)
    <3>1. upRead[q] + 1 \in 0 .. HelloLen + ReqLen
      BY <2>2 DEF ReadHead
    <3>2. QED BY <2>2, <3>1 DEF ReadHead
  <2>3. CASE ReadName(q)
    <3>1. upRead[q] + 1 \in 0 .. HelloLen + ReqLen
      BY <2>3 DEF ReadName
    <3>2. QED BY <2>3, <3>1 DEF ReadName
  <2>4. CASE ReadHelloFails(q) BY <2>4 DEF ReadHelloFails
  <2>5. CASE DialOk(q)         BY <2>5 DEF DialOk
  <2>6. CASE DialFails(q)      BY <2>6 DEF DialFails
  <2>7. CASE ReportOk(q)       BY <2>7 DEF ReportOk
  <2>8. CASE ReportFailed(q)   BY <2>8 DEF ReportFailed
  <2>9. CASE ReportFails(q)    BY <2>9 DEF ReportFails
  <2>10. CASE FwdCopy(q)
    <3>1. upRead[q] + 1 \in 0 .. HelloLen + ReqLen
      BY <2>10 DEF FwdCopy
    <3>2. Append(appGot[q], UpItem(upRead[q] + 1)) \in Seq(Int)
      BY <3>1 DEF UpItem
    <3>3. QED BY <2>10, <3>1, <3>2 DEF FwdCopy
  <2>11. CASE FwdEof(q)        BY <2>11 DEF FwdEof
  <2>12. CASE FwdFails(q)      BY <2>12 DEF FwdFails
  <2>13. CASE BwdCopy(q)
    <3>1. appSent[q] \in 0 .. RespLen /\ downSent[q] \in 0 .. RespLen
          /\ downSent[q] < appSent[q]
      BY <2>13 DEF BwdCopy
    <3>2. downSent[q] + 1 \in 0 .. RespLen
      BY <3>1
    <3>3. QED BY <2>13, <3>2 DEF BwdCopy
  <2>14. CASE BwdEof(q)        BY <2>14 DEF BwdEof
  <2>15. CASE BwdFails(q)      BY <2>15 DEF BwdFails
  <2>16. CASE SpliceDone(q)    BY <2>16 DEF SpliceDone
  <2>17. QED
    BY <2>1, <2>2, <2>3, <2>4, <2>5, <2>6, <2>7, <2>8, <2>9, <2>10, <2>11,
       <2>12, <2>13, <2>14, <2>15, <2>16
    DEF TargetStep, HandshakeStep, ForwardStep, BackwardStep
<1>4. QED BY <1>1, <1>3 DEF TypeOK

USE DEF EdgeTypeOK, TargetTypeOK, AppTypeOK, LinkTypeOK

LEMMA AppTypes ==
  ASSUME TypeOK, HelloProgress, NEW q \in Requests, AppStep(q)
  PROVE  TypeOK' /\ HelloProgress'
<1> USE LenAssumption DEF TypeOK, HelloProgress, edgeVars, targetVars, linkVars
<1>1. CASE AppResponds(q)
  <2>1. appSent[q] \in 0 .. RespLen /\ appSent[q] < RespLen
    BY <1>1 DEF AppResponds
  <2>2. appSent[q] + 1 \in 0 .. RespLen
    BY <2>1
  <2>3. QED BY <1>1, <2>2 DEF AppResponds
<1>2. CASE AppShutsDown(q) BY <1>2 DEF AppShutsDown
<1>3. CASE AppCloses(q)    BY <1>3 DEF AppCloses
<1>4. CASE AppResets(q)    BY <1>4 DEF AppResets
<1>5. QED BY <1>1, <1>2, <1>3, <1>4 DEF AppStep

LEMMA LinkTypes ==
  ASSUME TypeOK, HelloProgress, LinkStep \/ UNCHANGED vars
  PROVE  TypeOK' /\ HelloProgress'
<1> USE DEF TypeOK, HelloProgress, edgeVars, targetVars, appVars, linkVars
<1>1. CASE AppToggles      BY <1>1 DEF AppToggles
<1>2. CASE EdgeLosesConn   BY <1>2 DEF EdgeLosesConn
<1>3. CASE TargetLosesConn BY <1>3 DEF TargetLosesConn
<1>4. CASE UNCHANGED vars  BY <1>4 DEF vars
<1>5. QED BY <1>1, <1>2, <1>3, <1>4 DEF LinkStep

\* Every variable keeps its range: no counter passes the length of the
\* message it counts, on either side of the tunnel.
THEOREM TypeCorrect == Spec => [](TypeOK /\ HelloProgress)
<1>1. Init => TypeOK /\ HelloProgress
  BY LenAssumption DEF Init, TypeOK, HelloProgress
<1>2. TypeOK /\ HelloProgress /\ [Next]_vars => (TypeOK /\ HelloProgress)'
  BY EdgeTypes, TargetTypes, AppTypes, LinkTypes DEF Next
<1>3. QED BY <1>1, <1>2, PTL DEF Spec
------------------------------------------------------------------------------
(***************************************************************************)
(* The inductive invariant behind the safety properties: what each task    *)
(* knows of a request in each phase, and what each end of a direction      *)
(* means.  The properties alone are not inductive: that a 504 forecloses   *)
(* delivery rests on the request's bytes waiting for the status byte, that *)
(* on the target writing STATUS_OK only after it has the whole hello, and  *)
(* so on through both programs.                                            *)
(***************************************************************************)
Counts(s) == \A i \in 1 .. Len(s) : s[i] = i

EdgeInv(q) ==
  /\ edge[q] \in OpenPhases \cup {"idle"} => outcome[q] = "none" /\ downRead[q] = 0
  /\ edge[q] = "proxying" => downRead[q] > 0 /\ outcome[q] \in {"none", "ok"}
  /\ edgeGot[q] # <<>> => outcome[q] = "ok"
  /\ outcome[q] = "page504" => edge[q] = "ended" /\ downRead[q] = 0
  /\ downRead[q] = 0 => upSent[q] <= HelloLen /\ edgeGot[q] = <<>>
  /\ downRead[q] > 0 => status[q] = "STATUS_OK" /\ Len(edgeGot[q]) = downRead[q] - 1
  /\ downRead[q] <= DownWritten(q)
  /\ Counts(edgeGot[q])
  /\ upFin[q] => edge[q] = "ended"

TargetInv(q) ==
  /\ upRead[q] <= upSent[q]
  /\ tgt[q] \in {"none", "readHead"} => upRead[q] = 0
  /\ tgt[q] = "readName" => upRead[q] = 1
  /\ tgt[q] \in {"dialing", "reportOk", "reportFailed"} => upRead[q] = HelloLen
  /\ tgt[q] \notin {"splicing", "ended"} => status[q] = "none" /\ ~downFin[q]
  /\ tgt[q] \in {"none", "readHead", "readName", "dialing", "reportFailed"}
       => appConn[q] = "none"
  /\ tgt[q] = "reportOk" => appConn[q] # "none"
  /\ tgt[q] = "splicing" => status[q] = "STATUS_OK"
  /\ status[q] = "STATUS_OK" => fwd[q] # "none" /\ bwd[q] # "none" /\ appConn[q] # "none"
  /\ status[q] # "STATUS_OK" => fwd[q] = "none" /\ bwd[q] = "none" /\ appSent[q] = 0
  /\ fwd[q] = "copying" \/ bwd[q] = "copying" => tgt[q] = "splicing"
  /\ downSent[q] <= appSent[q]

AppInv(q) ==
  /\ appConn[q] = "none" => ~appReads[q] /\ appGot[q] = <<>>
  /\ appConn[q] # "none" => upRead[q] >= HelloLen /\ Len(appGot[q]) <= upRead[q] - HelloLen
  /\ appReads[q] => Len(appGot[q]) = upRead[q] - HelloLen
  /\ appConn[q] = "open" => appReads[q]
  /\ Counts(appGot[q])

EndInv(q) ==
  /\ fwd[q] = "eof"   => upFin[q] /\ upRead[q] = upSent[q]
  /\ fwd[q] = "error" => ~appReads[q] \/ connTarget = "lost"
  /\ bwd[q] = "eof"   => downSent[q] = appSent[q] /\ appConn[q] # "open"
  /\ bwd[q] = "error" => appConn[q] = "reset" \/ upFin[q] \/ connTarget = "lost"
  /\ tgt[q] = "ended" /\ status[q] # "STATUS_OK" /\ appConn[q] # "none"
       => upFin[q] \/ connTarget = "lost"
  /\ downFin[q] => tgt[q] = "ended" \/ bwd[q] \in {"eof", "error"}
  /\ tgt[q] = "ended" \/ bwd[q] \in {"eof", "error"}
       => downFin[q] \/ connTarget = "lost"

StreamInv(q) == EdgeInv(q) /\ TargetInv(q) /\ AppInv(q) /\ EndInv(q)

IInv == TypeOK /\ HelloProgress /\ \A q \in Requests : StreamInv(q)

Same(p) ==
  /\ edge'[p] = edge[p] /\ outcome'[p] = outcome[p] /\ opened'[p] = opened[p]
  /\ upSent'[p] = upSent[p] /\ upFin'[p] = upFin[p]
  /\ downRead'[p] = downRead[p] /\ edgeGot'[p] = edgeGot[p]
  /\ tgt'[p] = tgt[p] /\ upRead'[p] = upRead[p] /\ status'[p] = status[p]
  /\ fwd'[p] = fwd[p] /\ bwd'[p] = bwd[p]
  /\ downSent'[p] = downSent[p] /\ downFin'[p] = downFin[p]
  /\ appConn'[p] = appConn[p] /\ appReads'[p] = appReads[p]
  /\ appGot'[p] = appGot[p] /\ appSent'[p] = appSent[p]

LEMMA Frame ==
  ASSUME NEW p \in Requests, StreamInv(p), Same(p),
         connTarget' = connTarget \/ connTarget' = "lost"
  PROVE  StreamInv(p)'
BY DEF StreamInv, EdgeInv, TargetInv, AppInv, EndInv, Same, DownWritten

LEMMA EdgeLeavesOthers ==
  ASSUME TypeOK, NEW q \in Requests, NEW p \in Requests \ {q}, EdgeStep(q)
  PROVE  Same(p) /\ connTarget' = connTarget
<1>1. UNCHANGED <<targetVars, appVars, linkVars>> /\ EdgeTypeOK
  BY EdgeFrame DEF TypeOK
<1>2. /\ edge'[p] = edge[p] /\ outcome'[p] = outcome[p] /\ opened'[p] = opened[p]
      /\ upSent'[p] = upSent[p] /\ upFin'[p] = upFin[p]
      /\ downRead'[p] = downRead[p] /\ edgeGot'[p] = edgeGot[p]
  <2> USE <1>1 DEF EndRequest
  <2>1. CASE Arrive(q) \/ OpenStep(q)
    BY <2>1 DEF Arrive, OpenStep, OpenBi, OpenBiFails, WriteHello,
                WriteHelloFails, ReadStatusOk, ReadStatusFails
  <2>2. CASE ProxyStep(q)
    BY <2>2 DEF ProxyStep, SendChunk, RecvChunk, ProxyFails, ProxyDone
  <2>3. CASE OpenTimeout(q) \/ BrowserLeaves(q)
    BY <2>3 DEF OpenTimeout, BrowserLeaves
  <2>4. QED BY <2>1, <2>2, <2>3 DEF EdgeStep
<1>3. QED BY <1>1, <1>2 DEF Same, targetVars, appVars, linkVars

LEMMA TargetLeavesOthers ==
  ASSUME TypeOK, NEW q \in Requests, NEW p \in Requests \ {q}, TargetStep(q)
  PROVE  Same(p) /\ connTarget' = connTarget
<1>1. UNCHANGED <<edgeVars, linkVars>> /\ TargetTypeOK /\ AppTypeOK
  BY TargetFrame DEF TypeOK
<1>2. /\ tgt'[p] = tgt[p] /\ upRead'[p] = upRead[p] /\ status'[p] = status[p]
      /\ fwd'[p] = fwd[p] /\ bwd'[p] = bwd[p]
      /\ downSent'[p] = downSent[p] /\ downFin'[p] = downFin[p]
      /\ appConn'[p] = appConn[p] /\ appReads'[p] = appReads[p]
      /\ appGot'[p] = appGot[p] /\ appSent'[p] = appSent[p]
  <2> USE <1>1 DEF EndStream, EndBackward, appVars
  <2>1. CASE AcceptBi(q) \/ ReadHead(q) \/ ReadName(q) \/ ReadHelloFails(q)
    BY <2>1 DEF AcceptBi, ReadHead, ReadName, ReadHelloFails
  <2>2. CASE DialOk(q) \/ DialFails(q)
    BY <2>2 DEF DialOk, DialFails
  <2>3. CASE ReportOk(q) \/ ReportFailed(q) \/ ReportFails(q)
    BY <2>3 DEF ReportOk, ReportFailed, ReportFails
  <2>4. CASE ForwardStep(q)
    BY <2>4 DEF ForwardStep, FwdCopy, FwdEof, FwdFails
  <2>5. CASE BackwardStep(q)
    BY <2>5 DEF BackwardStep, BwdCopy, BwdEof, BwdFails
  <2>6. CASE SpliceDone(q)
    BY <2>6 DEF SpliceDone
  <2>7. QED BY <2>1, <2>2, <2>3, <2>4, <2>5, <2>6 DEF TargetStep, HandshakeStep
<1>3. QED BY <1>1, <1>2 DEF Same, edgeVars, linkVars

LEMMA AppLeavesOthers ==
  ASSUME TypeOK, NEW q \in Requests, NEW p \in Requests \ {q}, AppStep(q)
  PROVE  Same(p) /\ connTarget' = connTarget
<1>1. UNCHANGED <<edgeVars, targetVars, linkVars>> /\ AppTypeOK
  BY DEF TypeOK, AppStep, AppResponds, AppShutsDown, AppCloses, AppResets
<1>2. /\ appConn'[p] = appConn[p] /\ appReads'[p] = appReads[p]
      /\ appGot'[p] = appGot[p] /\ appSent'[p] = appSent[p]
  BY <1>1 DEF AppStep, AppResponds, AppShutsDown, AppCloses, AppResets
<1>3. QED BY <1>1, <1>2 DEF Same, edgeVars, targetVars, linkVars

\* A sequence that counts from 1 still does when its next number is appended.
LEMMA AppendNext ==
  ASSUME NEW S, NEW s \in Seq(S), Counts(s), Len(s) + 1 \in S
  PROVE  /\ Len(Append(s, Len(s) + 1)) = Len(s) + 1
         /\ Counts(Append(s, Len(s) + 1))
BY DEF Counts

LEMMA EdgeKeepsStream ==
  ASSUME TypeOK, HelloProgress, NEW q \in Requests, StreamInv(q), EdgeStep(q)
  PROVE  StreamInv(q)'
<1> USE LenAssumption
    DEF TypeOK, HelloProgress, EndRequest, edgeVars, targetVars, appVars,
        linkVars, StreamInv, EdgeInv, TargetInv, AppInv, EndInv, DownWritten
<1>1. CASE Arrive(q)
  BY <1>1 DEF Arrive
<1>2. CASE OpenBi(q)
  BY <1>2 DEF OpenBi
<1>3. CASE OpenBiFails(q)
  BY <1>3 DEF OpenBiFails
<1>4. CASE WriteHello(q)
  BY <1>4 DEF WriteHello
<1>5. CASE WriteHelloFails(q)
  BY <1>5 DEF WriteHelloFails
<1>6. CASE ReadStatusOk(q)
  BY <1>6 DEF ReadStatusOk
<1>7. CASE ReadStatusFails(q)
  BY <1>7 DEF ReadStatusFails
<1>8. CASE OpenTimeout(q)
  <2>1. EdgeInv(q)'   BY <1>8 DEF OpenTimeout
  <2>2. TargetInv(q)' BY <1>8 DEF OpenTimeout
  <2>3. AppInv(q)'    BY <1>8 DEF OpenTimeout
  <2>4. EndInv(q)'    BY <1>8 DEF OpenTimeout
  <2>5. QED BY <2>1, <2>2, <2>3, <2>4
<1>9. CASE SendChunk(q)
  BY <1>9 DEF SendChunk
<1>10. CASE RecvChunk(q)
  <2>1. /\ edgeGot[q] \in Seq(0 .. RespLen)
        /\ downRead[q] \in 0 .. RespLen
        /\ Len(edgeGot[q]) + 1 = downRead[q]
    <3>1. /\ edgeGot[q] \in Seq(0 .. RespLen)
          /\ downRead[q] \in Nat /\ downSent[q] \in 0 .. RespLen
      OBVIOUS
    <3> HIDE DEF TypeOK, HelloProgress, TargetInv, AppInv, EndInv
    <3>2. edge[q] = "proxying" /\ downRead[q] < DownWritten(q)
      BY <1>10 DEF RecvChunk
    <3>3. /\ downRead[q] > 0 /\ status[q] = "STATUS_OK"
          /\ Len(edgeGot[q]) = downRead[q] - 1
      BY <3>1, <3>2
    <3>4. QED BY <3>1, <3>2, <3>3
  <2>2. Len(edgeGot'[q]) = Len(edgeGot[q]) + 1 /\ Counts(edgeGot'[q])
    <3>1. edgeGot'[q] = Append(edgeGot[q], Len(edgeGot[q]) + 1)
      BY <1>10, <2>1 DEF RecvChunk, DownItem
    <3>2. QED BY <2>1, <3>1, AppendNext
  <2>3. /\ downRead[q] \in Nat /\ downRead[q] > 0
        /\ downRead'[q] = downRead[q] + 1
        /\ downRead'[q] <= DownWritten(q)'
    <3> HIDE DEF HelloProgress, EdgeInv, TargetInv, AppInv, EndInv
    <3>1. downRead'[q] = downRead[q] + 1 /\ DownWritten(q)' = DownWritten(q)
      BY <1>10 DEF RecvChunk
    <3>2. downRead[q] < DownWritten(q) /\ downSent[q] \in Nat
      BY <1>10 DEF RecvChunk
    <3> HIDE DEF TypeOK
    <3>3. QED BY <2>1, <3>1, <3>2
  <2>4. EdgeInv(q)'
    <3>1. /\ edge'[q] = "proxying" /\ outcome'[q] = "ok" /\ ~upFin'[q]
          /\ status'[q] = "STATUS_OK" /\ Len(edgeGot'[q]) = downRead'[q] - 1
      BY <1>10, <2>1, <2>2, <2>3 DEF RecvChunk
    <3> HIDE DEF TypeOK, HelloProgress
    <3>2. QED BY <2>2, <2>3, <3>1
  <2>5. TargetInv(q)' BY <1>10 DEF RecvChunk
  <2>6. AppInv(q)'    BY <1>10 DEF RecvChunk
  <2>7. EndInv(q)'    BY <1>10 DEF RecvChunk
  <2>8. QED BY <2>4, <2>5, <2>6, <2>7
<1>11. CASE ProxyFails(q)
  BY <1>11 DEF ProxyFails
<1>12. CASE ProxyDone(q)
  BY <1>12 DEF ProxyDone
<1>13. CASE BrowserLeaves(q)
  BY <1>13 DEF BrowserLeaves
<1>14. QED
  BY <1>1, <1>2, <1>3, <1>4, <1>5, <1>6, <1>7, <1>8, <1>9, <1>10, <1>11, <1>12, <1>13
  DEF EdgeStep, OpenStep, ProxyStep

LEMMA TargetKeepsStream ==
  ASSUME TypeOK, HelloProgress, NEW q \in Requests, StreamInv(q), TargetStep(q)
  PROVE  StreamInv(q)'
<1> USE LenAssumption
    DEF TypeOK, HelloProgress, EndStream, EndBackward, edgeVars, targetVars,
        appVars, linkVars, StreamInv, EdgeInv, TargetInv, AppInv, EndInv,
        DownWritten
<1>1. CASE AcceptBi(q)
  BY <1>1 DEF AcceptBi
<1>2. CASE ReadHead(q)
  <2>1. EdgeInv(q)'   BY <1>2 DEF ReadHead
  <2>2. TargetInv(q)' BY <1>2 DEF ReadHead
  <2>3. AppInv(q)'    BY <1>2 DEF ReadHead
  <2>4. EndInv(q)'    BY <1>2 DEF ReadHead
  <2>5. QED BY <2>1, <2>2, <2>3, <2>4
<1>3. CASE ReadName(q)
  BY <1>3 DEF ReadName
<1>4. CASE ReadHelloFails(q)
  BY <1>4 DEF ReadHelloFails
<1>5. CASE DialOk(q)
  BY <1>5 DEF DialOk
<1>6. CASE DialFails(q)
  BY <1>6 DEF DialFails
<1>7. CASE ReportOk(q)
  <2>1. EdgeInv(q)'
    <3>1. status[q] = "none" /\ downRead[q] = 0 /\ downSent'[q] \in Nat
      BY <1>7 DEF ReportOk
    <3>2. downRead'[q] = 0 /\ DownWritten(q)' = 1 + downSent'[q]
      BY <1>7, <3>1 DEF ReportOk
    <3>3. QED BY <1>7, <3>1, <3>2 DEF ReportOk
  <2>2. TargetInv(q)' BY <1>7 DEF ReportOk
  <2>3. AppInv(q)'    BY <1>7 DEF ReportOk
  <2>4. EndInv(q)'    BY <1>7 DEF ReportOk
  <2>5. QED BY <2>1, <2>2, <2>3, <2>4
<1>8. CASE ReportFailed(q)
  <2>1. EdgeInv(q)'   BY <1>8 DEF ReportFailed
  <2>2. TargetInv(q)' BY <1>8 DEF ReportFailed
  <2>3. AppInv(q)'    BY <1>8 DEF ReportFailed
  <2>4. EndInv(q)'    BY <1>8 DEF ReportFailed
  <2>5. QED BY <2>1, <2>2, <2>3, <2>4
<1>9. CASE ReportFails(q)
  BY <1>9 DEF ReportFails
<1>10. CASE FwdCopy(q)
  <2>1. upRead'[q] = upRead[q] + 1 /\ upRead[q] >= HelloLen /\ appConn[q] # "none"
    BY <1>10 DEF FwdCopy
  <2>2. EdgeInv(q)'   BY <1>10 DEF FwdCopy
  <2>3. TargetInv(q)' BY <1>10, <2>1 DEF FwdCopy
  <2>4. EndInv(q)'    BY <1>10, <2>1 DEF FwdCopy
  <2>5. /\ upRead[q] \in Nat /\ appGot[q] \in Seq(Int) /\ Counts(appGot[q])
        /\ Len(appGot[q]) <= upRead[q] - HelloLen
        /\ appReads[q] => Len(appGot[q]) = upRead[q] - HelloLen
    BY <2>1
  <2>6. AppInv(q)'
    <3>1. CASE appReads[q]
      <4>1. /\ appGot'[q] = Append(appGot[q], Len(appGot[q]) + 1)
            /\ UNCHANGED <<appConn, appReads>>
        <5> HIDE DEF HelloProgress, EdgeInv, TargetInv, AppInv, EndInv
        <5>1. /\ appGot'[q] = Append(appGot[q], UpItem(upRead[q] + 1))
              /\ UNCHANGED <<appConn, appReads>>
          BY <1>10, <3>1 DEF FwdCopy
        <5> HIDE DEF TypeOK
        <5>2. UpItem(upRead[q] + 1) = Len(appGot[q]) + 1
          BY <2>5, <3>1 DEF UpItem
        <5>3. QED BY <5>1, <5>2
      <4>2. Len(appGot'[q]) = Len(appGot[q]) + 1 /\ Counts(appGot'[q])
        BY <2>5, <4>1, AppendNext
      <4> HIDE DEF TypeOK, HelloProgress, EdgeInv, TargetInv, EndInv
      <4>3. Len(appGot'[q]) = upRead'[q] - HelloLen /\ upRead'[q] >= HelloLen
        BY <2>1, <2>5, <3>1, <4>2
      <4>4. QED BY <2>1, <4>1, <4>2, <4>3
    <3>2. CASE ~appReads[q]
      <4>1. UNCHANGED <<appConn, appReads, appGot[q]>>
        BY <1>10, <3>2 DEF FwdCopy
      <4> HIDE DEF TypeOK, HelloProgress, EdgeInv, TargetInv, EndInv
      <4>2. QED BY <2>1, <2>5, <3>2, <4>1
    <3>3. QED BY <3>1, <3>2
  <2>7. QED BY <2>2, <2>3, <2>4, <2>6
<1>11. CASE FwdEof(q)
  BY <1>11 DEF FwdEof
<1>12. CASE FwdFails(q)
  BY <1>12 DEF FwdFails
<1>13. CASE BwdCopy(q)
  <2>1. downSent'[q] = downSent[q] + 1 /\ downSent'[q] <= appSent'[q]
    BY <1>13 DEF BwdCopy
  <2>2. EdgeInv(q)'   BY <1>13, <2>1 DEF BwdCopy
  <2>3. TargetInv(q)' BY <1>13, <2>1 DEF BwdCopy
  <2>4. AppInv(q)'    BY <1>13 DEF BwdCopy
  <2>5. EndInv(q)'    BY <1>13 DEF BwdCopy
  <2>6. QED BY <2>2, <2>3, <2>4, <2>5
<1>14. CASE BwdEof(q)
  BY <1>14 DEF BwdEof
<1>15. CASE BwdFails(q)
  BY <1>15 DEF BwdFails
<1>16. CASE SpliceDone(q)
  BY <1>16 DEF SpliceDone
<1>17. QED
  BY <1>1, <1>2, <1>3, <1>4, <1>5, <1>6, <1>7, <1>8, <1>9, <1>10, <1>11, <1>12, <1>13, <1>14, <1>15, <1>16
  DEF TargetStep, HandshakeStep, ForwardStep, BackwardStep

LEMMA AppKeepsStream ==
  ASSUME TypeOK, HelloProgress, NEW q \in Requests, StreamInv(q), AppStep(q)
  PROVE  StreamInv(q)'
<1> USE LenAssumption
    DEF TypeOK, HelloProgress, edgeVars, targetVars, appVars, linkVars,
        StreamInv, EdgeInv, TargetInv, AppInv, EndInv, DownWritten
<1>1. CASE AppResponds(q)
  BY <1>1 DEF AppResponds
<1>2. CASE AppShutsDown(q)
  BY <1>2 DEF AppShutsDown
<1>3. CASE AppCloses(q)
  BY <1>3 DEF AppCloses
<1>4. CASE AppResets(q)
  BY <1>4 DEF AppResets
<1>5. QED BY <1>1, <1>2, <1>3, <1>4 DEF AppStep

LEMMA LinkLeavesAll ==
  ASSUME TypeOK, NEW p \in Requests, LinkStep \/ UNCHANGED vars
  PROVE  Same(p) /\ (connTarget' = connTarget \/ connTarget' = "lost")
BY DEF Same, vars, edgeVars, targetVars, appVars, linkVars, LinkStep,
       AppToggles, EdgeLosesConn, TargetLosesConn

LEMMA InvInit == Init => IInv
BY LenAssumption DEF Init, IInv, TypeOK, HelloProgress, StreamInv, EdgeInv,
                     TargetInv, AppInv, EndInv, Counts, DownWritten

LEMMA InvStep == IInv /\ [Next]_vars => IInv'
<1> SUFFICES ASSUME IInv, [Next]_vars PROVE IInv'
  OBVIOUS
<1>1. TypeOK' /\ HelloProgress'
  BY EdgeTypes, TargetTypes, AppTypes, LinkTypes DEF Next, IInv
<1>2. ASSUME NEW p \in Requests PROVE StreamInv(p)'
  <2> USE DEF IInv
  <2>1. ASSUME NEW q \in Requests, EdgeStep(q) PROVE StreamInv(p)'
    <3>1. CASE p = q BY <2>1, <3>1, EdgeKeepsStream
    <3>2. CASE p # q BY <2>1, <3>2, EdgeLeavesOthers, Frame
    <3>3. QED BY <3>1, <3>2
  <2>2. ASSUME NEW q \in Requests, TargetStep(q) PROVE StreamInv(p)'
    <3>1. CASE p = q BY <2>2, <3>1, TargetKeepsStream
    <3>2. CASE p # q BY <2>2, <3>2, TargetLeavesOthers, Frame
    <3>3. QED BY <3>1, <3>2
  <2>3. ASSUME NEW q \in Requests, AppStep(q) PROVE StreamInv(p)'
    <3>1. CASE p = q BY <2>3, <3>1, AppKeepsStream
    <3>2. CASE p # q BY <2>3, <3>2, AppLeavesOthers, Frame
    <3>3. QED BY <3>1, <3>2
  <2>4. CASE LinkStep \/ UNCHANGED vars
    BY <2>4, LinkLeavesAll, Frame
  <2>5. QED BY <2>1, <2>2, <2>3, <2>4 DEF Next
<1>3. QED BY <1>1, <1>2 DEF IInv

THEOREM Invariance == Spec => []IInv
BY InvInit, InvStep, PTL DEF Spec

\* A request answered with 504 has reached no app, whatever is delayed, lost
\* or dropped between the two programs.
THEOREM TimeoutSafe == Spec => []TimeoutIsSafeToRetry
<1>1. IInv => TimeoutIsSafeToRetry
  <2> SUFFICES ASSUME IInv, NEW q \in Requests, outcome[q] = "page504"
               PROVE  appGot[q] = <<>> /\ upSent[q] <= HelloLen
    BY DEF TimeoutIsSafeToRetry
  <2>1. upSent[q] <= HelloLen /\ upRead[q] <= HelloLen
    BY DEF IInv, StreamInv, EdgeInv, TargetInv, TypeOK
  <2>2. appGot[q] \in Seq(Int) /\ (appGot[q] # <<>> => Len(appGot[q]) <= 0)
    BY <2>1 DEF IInv, StreamInv, AppInv, TypeOK
  <2>3. QED BY <2>1, <2>2
<1>2. QED BY <1>1, Invariance, PTL

\* What the app and hyper's client are given is the other end's message from
\* its first chunk on, in order and unframed.
THEOREM Transparent == Spec => []StreamsTransparent
<1>1. IInv => StreamsTransparent
  <2> SUFFICES ASSUME IInv, NEW q \in Requests
               PROVE  /\ Counts(appGot[q]) /\ Counts(edgeGot[q])
                      /\ Len(edgeGot[q]) <= appSent[q]
    BY DEF StreamsTransparent, Counts
  <2>1. Counts(appGot[q]) /\ Counts(edgeGot[q])
    BY DEF IInv, StreamInv, EdgeInv, AppInv
  <2>2. Len(edgeGot[q]) <= downSent[q]
    <3>1. /\ downSent[q] \in Nat /\ downRead[q] \in Nat
          /\ downRead[q] <= DownWritten(q)
      BY DEF IInv, StreamInv, EdgeInv, TypeOK
    <3>2. CASE downRead[q] = 0
      BY <3>1, <3>2 DEF IInv, StreamInv, EdgeInv
    <3>3. CASE downRead[q] > 0
      BY <3>1, <3>3 DEF IInv, StreamInv, EdgeInv, DownWritten
    <3>4. QED BY <3>1, <3>2, <3>3
  <2>3. QED BY <2>1, <2>2 DEF IInv, StreamInv, TargetInv, TypeOK
<1>2. QED BY <1>1, Invariance, PTL

\* splice loses nothing that precedes a half-close, in either direction.
THEOREM HalfCloseSafe == Spec => []HalfCloseLosesNothing
<1>1. IInv => HalfCloseLosesNothing
  <2> SUFFICES ASSUME IInv, NEW q \in Requests
               PROVE  /\ AppSeesEof(q) /\ appReads[q] /\ connTarget = "up"
                           => Len(appGot[q]) + HelloLen >= upSent[q]
                      /\ downFin[q] /\ downSent[q] < appSent[q]
                           => appConn[q] = "reset" \/ upFin[q] \/ connTarget = "lost"
    BY DEF HalfCloseLosesNothing
  <2> USE DEF IInv, TypeOK, StreamInv
  <2>1. ASSUME AppSeesEof(q), appReads[q], connTarget = "up"
        PROVE  Len(appGot[q]) + HelloLen >= upSent[q]
    <3>1. Len(appGot[q]) = upRead[q] - HelloLen /\ fwd[q] # "error"
      BY <2>1 DEF AppInv, EndInv
    <3>2. CASE fwd[q] = "eof"
      BY <3>1, <3>2 DEF EndInv
    <3>3. CASE tgt[q] = "ended" /\ fwd[q] # "eof"
      <4>1. status[q] # "STATUS_OK"
        BY <3>1, <3>3 DEF TargetInv
      <4>2. upSent[q] <= HelloLen
        BY <4>1 DEF EdgeInv
      <4>3. QED BY <4>2
    <3>4. QED BY <2>1, <3>1, <3>2, <3>3 DEF AppSeesEof
  <2>2. ASSUME downFin[q], downSent[q] < appSent[q]
        PROVE  appConn[q] = "reset" \/ upFin[q] \/ connTarget = "lost"
    <3>1. status[q] = "STATUS_OK"
      BY <2>2 DEF TargetInv
    <3>2. bwd[q] \in {"eof", "error"}
      BY <2>2, <3>1 DEF TargetInv, EndInv
    <3>3. QED BY <2>2, <3>2 DEF EndInv
  <2>3. QED BY <2>1, <2>2
<1>2. QED BY <1>1, Invariance, PTL

\* The tunnel's two sides never wait for each other: whoever still waits on a
\* connection that is up waits for the app, which owes the rest of its answer.
THEOREM OnlyTheApp == Spec => []OnlyTheAppIsWaitedFor
<1>1. IInv => OnlyTheAppIsWaitedFor
  <2> SUFFICES ASSUME IInv, NEW q \in Requests, connTarget = "up",
                      EdgeWaits(q), TargetWaits(q)
               PROVE  /\ appConn[q] = "open" /\ appReads[q]
                      /\ Len(appGot[q]) = ReqLen /\ appSent[q] < RespLen
    BY DEF OnlyTheAppIsWaitedFor
  <2> USE DEF IInv, TypeOK, StreamInv
  <2>1. tgt[q] # "ended" /\ ~downFin[q] /\ bwd[q] \notin {"eof", "error"}
    <3>1. ~downFin[q]
      BY DEF EdgeWaits
    <3>2. QED BY <3>1 DEF EndInv
  <2>2. edge[q] # "awaitStatus"
    <3> SUFFICES ASSUME edge[q] = "awaitStatus" PROVE FALSE
      OBVIOUS
    <3>1. upSent[q] = HelloLen /\ status[q] = "none"
      BY DEF HelloProgress, EdgeWaits
    <3>2. tgt[q] # "splicing" /\ (tgt[q] \in {"readHead", "readName"} => upRead[q] < HelloLen)
      BY <3>1 DEF TargetInv
    <3>3. QED BY <2>1, <3>1, <3>2 DEF TargetWaits
  <2>3. /\ edge[q] = "proxying" /\ upSent[q] = HelloLen + ReqLen
        /\ downRead[q] = DownWritten(q) /\ Len(edgeGot[q]) < RespLen
    BY <2>2, LenAssumption DEF EdgeWaits
  <2>4. /\ status[q] = "STATUS_OK" /\ ~upFin[q]
        /\ downSent[q] = Len(edgeGot[q])
    BY <2>3 DEF EdgeInv, DownWritten
  <2>5. tgt[q] = "splicing" /\ bwd[q] = "copying"
    BY <2>1, <2>4 DEF TargetWaits, TargetInv
  <2>6. appConn[q] = "open" /\ appReads[q] /\ appSent[q] = downSent[q]
    BY <2>5 DEF TargetWaits, AppInv
  <2>7. fwd[q] = "copying"
    BY <2>4, <2>6 DEF EndInv, TargetInv
  <2>8. upRead[q] = HelloLen + ReqLen
    BY <2>3, <2>5, <2>7 DEF TargetWaits
  <2>9. Len(appGot[q]) = ReqLen
    BY <2>6, <2>8, LenAssumption DEF AppInv
  <2>10. QED BY <2>3, <2>4, <2>6, <2>9
<1>2. QED BY <1>1, Invariance, PTL
------------------------------------------------------------------------------
(***************************************************************************)
(* The refinement: TunnelStream implements RequestContract.  One lemma per *)
(* kind of step, each of which the contract sees as one of its own or not  *)
(* at all.                                                                 *)
(***************************************************************************)
LEMMA ContractStutters ==
  ASSUME UNCHANGED <<outcome, downRead, edgeGot, appGot, appSent>>
  PROVE  UNCHANGED Contract!vars
BY DEF Contract!vars

LEMMA ContractEnds ==
  ASSUME IInv, NEW q \in Requests, NEW verdict \in Outcomes,
         EndRequest(q, verdict), UNCHANGED <<appGot, appSent>>,
         verdict = "page504" => downRead[q] = 0,
         verdict = "ok" => edgeGot[q] # <<>>, verdict # "none"
  PROVE  [Contract!Next]_Contract!vars
<1>1. CASE outcome[q] = "none"
  <2>1. verdict # "ok"
    BY <1>1 DEF IInv, StreamInv, EdgeInv
  <2>2. outcome' = [outcome EXCEPT ![q] = verdict]
    BY <1>1 DEF EndRequest
  <2>3. UNCHANGED <<downRead, edgeGot, appGot, appSent>>
    BY DEF EndRequest
  <2>4. Contract!Conclude(q, verdict)
    BY <1>1, <2>1, <2>2, <2>3 DEF Contract!Conclude
  <2>5. QED BY <2>4 DEF Contract!Next, Contract!Outcomes
<1>2. CASE outcome[q] # "none"
  <2>1. outcome' = outcome
    BY <1>2 DEF EndRequest, IInv, TypeOK
  <2>2. QED BY <2>1, ContractStutters DEF EndRequest
<1>3. QED BY <1>1, <1>2

LEMMA EdgeSimulates ==
  ASSUME IInv, NEW q \in Requests, EdgeStep(q)
  PROVE  [Contract!Next]_Contract!vars
<1> USE DEF edgeVars, targetVars, appVars, linkVars
<1>1. CASE Arrive(q) \/ OpenBi(q) \/ WriteHello(q) \/ SendChunk(q)
  BY <1>1, ContractStutters DEF Arrive, OpenBi, WriteHello, SendChunk
<1>2. CASE OpenBiFails(q) \/ WriteHelloFails(q) \/ ReadStatusFails(q) \/ ProxyFails(q)
  BY <1>2, ContractEnds DEF OpenBiFails, WriteHelloFails, ReadStatusFails, ProxyFails
<1>3. CASE BrowserLeaves(q)
  BY <1>3, ContractEnds DEF BrowserLeaves
<1>4. CASE OpenTimeout(q)
  <2>1. downRead[q] = 0
    BY <1>4 DEF OpenTimeout, IInv, StreamInv, EdgeInv
  <2>2. QED BY <1>4, <2>1, ContractEnds DEF OpenTimeout
<1>5. CASE ProxyDone(q)
  <2>1. edgeGot[q] # <<>>
    BY <1>5, LenAssumption DEF ProxyDone
  <2>2. QED BY <1>5, <2>1, ContractEnds DEF ProxyDone
<1>6. CASE ReadStatusOk(q)
  <2>1. outcome[q] = "none" /\ downRead[q] = 0
    BY <1>6 DEF ReadStatusOk, IInv, StreamInv, EdgeInv
  <2>2. {r \in Requests : downRead'[r] > 0}
           = {r \in Requests : downRead[r] > 0} \cup {q}
    BY <1>6 DEF ReadStatusOk, IInv, TypeOK
  <2>3. Contract!Grant(q)
    BY <1>6, <2>1, <2>2 DEF ReadStatusOk, Contract!Grant
  <2>4. QED BY <2>3 DEF Contract!Next
<1>7. CASE RecvChunk(q)
  <2>1. /\ outcome[q] \in {"none", "ok"} /\ downRead[q] > 0
        /\ downRead[q] < DownWritten(q) /\ status[q] = "STATUS_OK"
        /\ Len(edgeGot[q]) = downRead[q] - 1
    BY <1>7 DEF RecvChunk, IInv, StreamInv, EdgeInv
  <2>2. Len(edgeGot[q]) < appSent[q]
    BY <2>1 DEF DownWritten, IInv, TypeOK, StreamInv, TargetInv
  <2>3. Len(edgeGot'[q]) = Len(edgeGot[q]) + 1
    BY <1>7 DEF RecvChunk, DownItem, IInv, TypeOK
  <2>4. [r \in Requests |-> Len(edgeGot'[r])]
           = [[r \in Requests |-> Len(edgeGot[r])] EXCEPT ![q] = Len(edgeGot[q]) + 1]
    BY <1>7, <2>3 DEF RecvChunk, IInv, TypeOK
  <2>5. {r \in Requests : downRead'[r] > 0} = {r \in Requests : downRead[r] > 0}
    BY <1>7, <2>1 DEF RecvChunk, IInv, TypeOK
  <2>6. Contract!Return(q)
    BY <1>7, <2>1, <2>2, <2>4, <2>5 DEF RecvChunk, Contract!Return
  <2>7. QED BY <2>6 DEF Contract!Next
<1>8. QED
  BY <1>1, <1>2, <1>3, <1>4, <1>5, <1>6, <1>7 DEF EdgeStep, OpenStep, ProxyStep

LEMMA TargetSimulates ==
  ASSUME IInv, NEW q \in Requests, TargetStep(q)
  PROVE  [Contract!Next]_Contract!vars
<1> USE DEF edgeVars, targetVars, appVars, linkVars
<1>1. CASE FwdCopy(q)
  <2>1. CASE appReads[q]
    <3>1. /\ upRead[q] >= HelloLen /\ upRead[q] < upSent[q]
          /\ upRead[q] \in Nat /\ upSent[q] \in 0 .. HelloLen + ReqLen
          /\ Len(appGot[q]) = upRead[q] - HelloLen
      BY <1>1, <2>1 DEF FwdCopy, IInv, TypeOK, StreamInv, TargetInv, AppInv
    <3>2. downRead[q] > 0
      BY <3>1 DEF IInv, TypeOK, StreamInv, EdgeInv
    <3>3. Len(appGot[q]) < ReqLen
      BY <3>1, LenAssumption
    <3>4. Len(appGot'[q]) = Len(appGot[q]) + 1
      BY <1>1, <2>1 DEF FwdCopy, UpItem, IInv, TypeOK
    <3>5. [r \in Requests |-> Len(appGot'[r])]
             = [[r \in Requests |-> Len(appGot[r])] EXCEPT ![q] = Len(appGot[q]) + 1]
      BY <1>1, <3>4 DEF FwdCopy, IInv, TypeOK
    <3>6. Contract!Deliver(q)
      BY <1>1, <3>2, <3>3, <3>5 DEF FwdCopy, Contract!Deliver
    <3>7. QED BY <3>6 DEF Contract!Next
  <2>2. CASE ~appReads[q]
    <3>1. appGot' = appGot
      BY <1>1, <2>2 DEF FwdCopy, IInv, TypeOK
    <3>2. QED BY <1>1, <3>1, ContractStutters DEF FwdCopy
  <2>3. QED BY <2>1, <2>2
<1>2. CASE HandshakeStep(q)
  <2>1. UNCHANGED <<outcome, downRead, edgeGot, appGot, appSent>>
    BY <1>2 DEF HandshakeStep, AcceptBi, ReadHead, ReadName, ReadHelloFails,
                DialOk, DialFails, ReportOk, ReportFailed, ReportFails
  <2>2. QED BY <2>1, ContractStutters
<1>3. CASE FwdEof(q) \/ FwdFails(q) \/ BackwardStep(q) \/ SpliceDone(q)
  <2>1. UNCHANGED <<outcome, downRead, edgeGot, appGot, appSent>>
    BY <1>3 DEF FwdEof, FwdFails, BackwardStep, BwdCopy, BwdEof, BwdFails,
                EndBackward, SpliceDone
  <2>2. QED BY <2>1, ContractStutters
<1>4. QED BY <1>1, <1>2, <1>3 DEF TargetStep, ForwardStep

LEMMA EnvironmentSimulates ==
  ASSUME IInv,
         (\E q \in Requests : AppStep(q)) \/ LinkStep \/ UNCHANGED vars
  PROVE  [Contract!Next]_Contract!vars
<1> USE DEF edgeVars, targetVars, appVars, linkVars
<1>1. ASSUME NEW q \in Requests, AppResponds(q)
      PROVE  [Contract!Next]_Contract!vars
  <2>1. Len(appGot[q]) > 0
    BY <1>1 DEF AppResponds, IInv, TypeOK
  <2>2. Contract!Produce(q)
    BY <1>1, <2>1 DEF AppResponds, Contract!Produce
  <2>3. QED BY <2>2 DEF Contract!Next
<1>2. ASSUME NEW q \in Requests,
             AppShutsDown(q) \/ AppCloses(q) \/ AppResets(q)
      PROVE  [Contract!Next]_Contract!vars
  BY <1>2, ContractStutters DEF AppShutsDown, AppCloses, AppResets
<1>3. CASE LinkStep \/ UNCHANGED vars
  BY <1>3, ContractStutters
  DEF LinkStep, AppToggles, EdgeLosesConn, TargetLosesConn, vars
<1>4. QED BY <1>1, <1>2, <1>3 DEF AppStep

\* The two programs, the stream between them and the app behind them keep
\* the contract of a request.
THEOREM Implements == Spec => KeepsContract
<1>1. Init => Contract!Init
  BY DEF Init, Contract!Init
<1>2. IInv /\ [Next]_vars => [Contract!Next]_Contract!vars
  BY EdgeSimulates, TargetSimulates, EnvironmentSimulates DEF Next
<1>3. QED
  BY <1>1, <1>2, Invariance, PTL DEF Spec, KeepsContract, Contract!Spec

Promise == INSTANCE RequestContractProofs WITH
  granted   <- {q \in Requests : downRead[q] > 0},
  delivered <- [q \in Requests |-> Len(appGot[q])],
  produced  <- appSent,
  returned  <- [q \in Requests |-> Len(edgeGot[q])]

\* So the tunnel inherits what follows from the contract: a response is one
\* that the app gave to this request, the browser's verdict is never taken
\* back, and nothing of a request reaches the app after a 504.
THEOREM VerdictsHold == Spec => []Promise!VerdictsAreTrue /\ Promise!VerdictsAreFinal
<1>1. Contract!Init <=> Promise!Init
  BY DEF Contract!Init, Promise!Init
<1>2. [Contract!Next]_Contract!vars <=> [Promise!Next]_Promise!vars
  BY DEF Contract!Next, Contract!vars, Contract!Grant, Contract!Deliver, Contract!Produce,
         Contract!Return, Contract!Conclude, Contract!Outcomes,
         Promise!Next, Promise!vars, Promise!Grant, Promise!Deliver, Promise!Produce,
         Promise!Return, Promise!Conclude, Promise!Outcomes
<1>3. KeepsContract => Promise!Spec
  BY <1>1, <1>2, PTL DEF KeepsContract, Contract!Spec, Promise!Spec
<1>4. Promise!Spec => []Promise!VerdictsAreTrue
  BY Promise!VerdictsTrue
<1>5. Promise!Spec => Promise!VerdictsAreFinal
  BY Promise!VerdictsFinal
<1>6. QED BY <1>3, <1>4, <1>5, Implements
==============================================================================
