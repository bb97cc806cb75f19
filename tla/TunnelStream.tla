---------------------------- MODULE TunnelStream ----------------------------
(***************************************************************************)
(* The path of a request through the tunnel: the edge's handle_request and *)
(* TunnelClient::open on the receiving side (edge.rs), one QUIC stream per *)
(* request on one connection, handle_stream and splice on the serving side *)
(* (target.rs, splice.rs), and the local app behind them.                  *)
(*                                                                         *)
(* A stream's two directions are positions in a list of items.  Up: item 1 *)
(* is the hello's header, item 2 its name, item k+2 chunk k of the         *)
(* request.  Down: item 1 is the status byte, item k+1 chunk k of the      *)
(* response.  What a side has written and what the other has read are      *)
(* counters, so a reader may lag behind by any amount; what hyper and the  *)
(* app get is recorded item by item.                                       *)
(*                                                                         *)
(* Dropping a noq SendStream finishes it and dropping a RecvStream stops   *)
(* it, so every way out of a handler ends in the same bookkeeping.  A      *)
(* connection is lost at each side on its own: whoever has not noticed     *)
(* yet still writes into the void.                                         *)
(***************************************************************************)
EXTENDS Integers, Sequences, FiniteSets

CONSTANTS Requests,      \* the requests browsers send to this edge
          ReqLen,        \* chunks of a request, the HTTP head first
          RespLen,       \* chunks of a response, the HTTP head first
          MaxStreams,    \* bidirectional streams the connection allows at once
          PeerVersions,  \* protocol versions an edge's build may speak
          VERSION        \* the protocol version of this target's build

ASSUME LenAssumption == ReqLen \in Nat \ {0} /\ RespLen \in Nat \ {0}
ASSUME StreamsAssumption == MaxStreams \in Nat \ {0}

VARIABLES
  \* the edge's task of a request
  edge,        \* where handle_request stands
  outcome,     \* what the browser has been told
  opened,      \* open_bi has returned a stream
  upSent,      \* items written on the stream
  upFin,       \* the edge has dropped it: finished one way, stopped the other
  downRead,    \* items read from the stream
  edgeGot,     \* the items handed to hyper's client, in order
  \* the target's task of a stream
  tgt,         \* where handle_stream stands
  upRead,      \* items read from the stream
  status,      \* the status byte written on the stream
  fwd, bwd,    \* splice's two directions
  downSent,    \* chunks of the response written on the stream
  downFin,     \* its sending half is finished
  \* the app's side of the TCP connection made for a stream
  appConn,     \* the app's sending half
  appReads,    \* the app still reads
  appGot,      \* the items the app has read, in order
  appSent,     \* chunks of the response the app has sent
  \* shared by all requests
  connEdge,    \* the edge's view of the QUIC connection
  connTarget,  \* the target's view of it
  appUp,       \* something listens on the configured port
  peerVersion  \* the protocol version the edge's build speaks

edgeVars   == <<edge, outcome, opened, upSent, upFin, downRead, edgeGot>>
targetVars == <<tgt, upRead, status, fwd, bwd, downSent, downFin>>
appVars    == <<appConn, appReads, appGot, appSent>>
linkVars   == <<connEdge, connTarget, appUp, peerVersion>>
vars       == <<edgeVars, targetVars, appVars, linkVars>>

HelloLen == 2

OpenPhases   == {"opening", "writeHead", "writeName", "awaitStatus"}
EdgePhases   == {"idle", "proxying", "ended"} \cup OpenPhases
Outcomes     == {"none", "ok", "page502", "page504", "gone"}
TargetPhases == {"none", "readHead", "readName", "dialing", "reportOk",
                 "reportFailed", "splicing", "ended"}
Directions   == {"none", "copying", "eof", "error"}
Statuses     == {"none", "STATUS_OK", "STATUS_CONNECT_FAILED"}

\* What the i-th item of a direction is: a chunk's number, or a number
\* below 1 for the tunnel's own framing (hello header and name, status).
UpItem(i)   == i - HelloLen
DownItem(i) == i - 1

DownWritten(q) == IF status[q] = "none" THEN 0 ELSE 1 + downSent[q]

\* A stream holds its slot until handle_stream has dropped both halves.
InFlight == {q \in Requests : opened[q] /\ tgt[q] # "ended"}

\* The target has dropped its receiving half and said so.
UpStopped(q) == tgt[q] = "ended" /\ downFin[q]

\* Mutant of AppSeesEof: w2 is not shut down, only dropped.
AppSeesDrop(q) == appConn[q] # "none" /\ tgt[q] = "ended"

\* splice has shut the app's connection down, or dropped it.
AppSeesEof(q) ==
  appConn[q] # "none" /\ (fwd[q] \in {"eof", "error"} \/ tgt[q] = "ended")

Init ==
  /\ edge        = [q \in Requests |-> "idle"]
  /\ outcome     = [q \in Requests |-> "none"]
  /\ opened      = [q \in Requests |-> FALSE]
  /\ upSent      = [q \in Requests |-> 0]
  /\ upFin       = [q \in Requests |-> FALSE]
  /\ downRead    = [q \in Requests |-> 0]
  /\ edgeGot     = [q \in Requests |-> <<>>]
  /\ tgt         = [q \in Requests |-> "none"]
  /\ upRead      = [q \in Requests |-> 0]
  /\ status      = [q \in Requests |-> "none"]
  /\ fwd         = [q \in Requests |-> "none"]
  /\ bwd         = [q \in Requests |-> "none"]
  /\ downSent    = [q \in Requests |-> 0]
  /\ downFin     = [q \in Requests |-> FALSE]
  /\ appConn     = [q \in Requests |-> "none"]
  /\ appReads    = [q \in Requests |-> FALSE]
  /\ appGot      = [q \in Requests |-> <<>>]
  /\ appSent     = [q \in Requests |-> 0]
  /\ connEdge    = "up"
  /\ connTarget  = "up"
  /\ appUp       \in BOOLEAN
  /\ peerVersion \in PeerVersions
------------------------------------------------------------------------------
(* The edge: handle_request, TunnelClient::open, client_handshake, proxy. *)

\* What OPEN_TIMEOUT covers.  Mutant: the whole handler.
WholeHandler == OpenPhases \cup {"proxying"}
TimedPhases  == OpenPhases

\* The phase after the hello.  Mutant: the status byte is not awaited.
NoStatus   == "proxying"
AfterHello == "awaitStatus"

\* How much of the stream client_handshake consumes.  Mutant: it only peeks.
PeekedBytes == 0
StatusBytes == 1

\* Chunks of the request are still to be sent.  Mutant: one too many.
RequestOverrun(q) == upSent[q] <= HelloLen + ReqLen
RequestLeft(q)    == upSent[q] < HelloLen + ReqLen

\* The handler is over: it has told the browser `verdict` unless a response
\* was already under way, and drops both halves of its stream, if any.
EndRequest(q, verdict) ==
  /\ edge' = [edge EXCEPT ![q] = "ended"]
  /\ outcome' = [outcome EXCEPT ![q] = IF @ = "none" THEN verdict ELSE @]
  /\ upFin' = [upFin EXCEPT ![q] = opened[q] /\ connEdge = "up"]
  /\ UNCHANGED <<opened, upSent, downRead, edgeGot>>

\* A browser's request enters handle_request, which starts the timeout.
Arrive(q) ==
  /\ edge[q] = "idle"
  /\ edge' = [edge EXCEPT ![q] = "opening"]
  /\ UNCHANGED <<outcome, opened, upSent, upFin, downRead, edgeGot,
                 targetVars, appVars, linkVars>>

\* open_bi returns once the peer's stream limit leaves room.
OpenBi(q) ==
  /\ edge[q] = "opening"
  /\ connEdge = "up"
  /\ Cardinality(InFlight) < MaxStreams
  /\ edge' = [edge EXCEPT ![q] = "writeHead"]
  /\ opened' = [opened EXCEPT ![q] = TRUE]
  /\ UNCHANGED <<outcome, upSent, upFin, downRead, edgeGot,
                 targetVars, appVars, linkVars>>

\* open_bi fails: "tunnel unreachable".
OpenBiFails(q) ==
  /\ edge[q] = "opening"
  /\ connEdge = "lost"
  /\ EndRequest(q, "page502")
  /\ UNCHANGED <<targetVars, appVars, linkVars>>

\* write_hello's two writes; each is an await point of its own.
WriteHello(q) ==
  /\ edge[q] \in {"writeHead", "writeName"}
  /\ connEdge = "up"
  /\ edge' = [edge EXCEPT ![q] = IF @ = "writeHead" THEN "writeName"
                                                    ELSE AfterHello]
  /\ upSent' = [upSent EXCEPT ![q] = @ + 1]
  /\ UNCHANGED <<outcome, opened, upFin, downRead, edgeGot,
                 targetVars, appVars, linkVars>>

\* A write of the hello fails: the target dropped the stream, or the
\* connection is gone.
WriteHelloFails(q) ==
  /\ edge[q] \in {"writeHead", "writeName"}
  /\ connEdge = "lost" \/ UpStopped(q)
  /\ EndRequest(q, "page502")
  /\ UNCHANGED <<targetVars, appVars, linkVars>>

\* The status byte arrives and is STATUS_OK: open() yields the stream and
\* proxy() hands it to hyper's client.
ReadStatusOk(q) ==
  /\ edge[q] = "awaitStatus"
  /\ connEdge = "up"
  /\ status[q] = "STATUS_OK"
  /\ edge' = [edge EXCEPT ![q] = "proxying"]
  /\ downRead' = [downRead EXCEPT ![q] = StatusBytes]
  /\ UNCHANGED <<outcome, opened, upSent, upFin, edgeGot,
                 targetVars, appVars, linkVars>>

\* open() fails after the hello: another status byte, a stream that ends
\* without one, or a lost connection.
ReadStatusFails(q) ==
  /\ edge[q] = "awaitStatus"
  /\ \/ status[q] = "STATUS_CONNECT_FAILED"
     \/ status[q] = "none" /\ downFin[q]
     \/ connEdge = "lost"
  /\ EndRequest(q, "page502")
  /\ UNCHANGED <<targetVars, appVars, linkVars>>

\* OPEN_TIMEOUT elapses while open() is pending: its future is dropped.
OpenTimeout(q) ==
  /\ edge[q] \in TimedPhases
  /\ EndRequest(q, "page504")
  /\ UNCHANGED <<targetVars, appVars, linkVars>>

\* hyper's client writes the next chunk of the request.
SendChunk(q) ==
  /\ edge[q] = "proxying"
  /\ connEdge = "up"
  /\ RequestLeft(q)
  /\ upSent' = [upSent EXCEPT ![q] = @ + 1]
  /\ UNCHANGED <<edge, outcome, opened, upFin, downRead, edgeGot,
                 targetVars, appVars, linkVars>>

\* hyper's client reads the next item of the stream; the first one resolves
\* send_request and the response's head goes to the browser.
RecvChunk(q) ==
  /\ edge[q] = "proxying"
  /\ connEdge = "up"
  /\ downRead[q] < DownWritten(q)
  /\ downRead' = [downRead EXCEPT ![q] = @ + 1]
  /\ edgeGot' = [edgeGot EXCEPT ![q] = Append(@, DownItem(downRead[q] + 1))]
  /\ outcome' = [outcome EXCEPT ![q] = "ok"]
  /\ UNCHANGED <<edge, opened, upSent, upFin, targetVars, appVars, linkVars>>

\* hyper's client fails: the stream ends inside the message, a write meets
\* a stopped stream, or the connection is lost.  Before the head this is
\* send_request's error and a 502, after it a body cut short.
ProxyFails(q) ==
  /\ edge[q] = "proxying"
  /\ \/ downFin[q] /\ downRead[q] = DownWritten(q) /\ Len(edgeGot[q]) < RespLen
     \/ UpStopped(q) /\ RequestLeft(q)
     \/ connEdge = "lost"
  /\ EndRequest(q, "page502")
  /\ UNCHANGED <<targetVars, appVars, linkVars>>

\* Both messages are complete: no sender is left, so hyper's connection
\* task shuts the stream down and drops it.
ProxyDone(q) ==
  /\ edge[q] = "proxying"
  /\ upSent[q] = HelloLen + ReqLen
  /\ Len(edgeGot[q]) = RespLen
  /\ EndRequest(q, "ok")
  /\ UNCHANGED <<targetVars, appVars, linkVars>>

\* The browser disconnects: hyper's server drops the handler's future, or
\* the response's body, and with it the stream.
BrowserLeaves(q) ==
  /\ edge[q] \notin {"idle", "ended"}
  /\ EndRequest(q, "gone")
  /\ UNCHANGED <<targetVars, appVars, linkVars>>
------------------------------------------------------------------------------
(* The target: run's accept loop, handle_stream, read_hello. *)

\* handle_stream returns, or its splice has: both halves are dropped, and
\* the app's socket with them.
EndStream(q) ==
  /\ tgt' = [tgt EXCEPT ![q] = "ended"]
  /\ downFin' = [downFin EXCEPT ![q] = @ \/ connTarget = "up"]

\* accept_bi yields a stream once something of it has arrived.
AcceptBi(q) ==
  /\ tgt[q] = "none"
  /\ connTarget = "up"
  /\ upSent[q] > 0 \/ upFin[q]
  /\ tgt' = [tgt EXCEPT ![q] = "readHead"]
  /\ UNCHANGED <<upRead, status, fwd, bwd, downSent, downFin,
                 edgeVars, appVars, linkVars>>

\* read_hello's first read_exact, and the version check.
ReadHead(q) ==
  /\ tgt[q] = "readHead"
  /\ connTarget = "up"
  /\ upRead[q] < upSent[q]
  /\ upRead' = [upRead EXCEPT ![q] = @ + 1]
  /\ \/ /\ peerVersion = VERSION
        /\ tgt' = [tgt EXCEPT ![q] = "readName"]
        /\ UNCHANGED downFin
     \/ /\ peerVersion # VERSION
        /\ EndStream(q)
  /\ UNCHANGED <<status, fwd, bwd, downSent, edgeVars, appVars, linkVars>>

\* read_hello's second read_exact; the name a ticket carries is valid.
ReadName(q) ==
  /\ tgt[q] = "readName"
  /\ connTarget = "up"
  /\ upRead[q] < upSent[q]
  /\ upRead' = [upRead EXCEPT ![q] = @ + 1]
  /\ tgt' = [tgt EXCEPT ![q] = "dialing"]
  /\ UNCHANGED <<status, fwd, bwd, downSent, downFin,
                 edgeVars, appVars, linkVars>>

\* The stream ends inside the hello, or the connection is lost.
ReadHelloFails(q) ==
  /\ tgt[q] \in {"readHead", "readName"}
  /\ \/ upFin[q] /\ upRead[q] = upSent[q]
     \/ connTarget = "lost"
  /\ EndStream(q)
  /\ UNCHANGED <<upRead, status, fwd, bwd, downSent,
                 edgeVars, appVars, linkVars>>

DialOk(q) ==
  /\ tgt[q] = "dialing"
  /\ appUp
  /\ tgt' = [tgt EXCEPT ![q] = "reportOk"]
  /\ appConn' = [appConn EXCEPT ![q] = "open"]
  /\ appReads' = [appReads EXCEPT ![q] = TRUE]
  /\ UNCHANGED <<upRead, status, fwd, bwd, downSent, downFin,
                 appGot, appSent, edgeVars, linkVars>>

DialFails(q) ==
  /\ tgt[q] = "dialing"
  /\ ~appUp
  /\ tgt' = [tgt EXCEPT ![q] = "reportFailed"]
  /\ UNCHANGED <<upRead, status, fwd, bwd, downSent, downFin,
                 edgeVars, appVars, linkVars>>

\* STATUS_OK is written and flushed; splice starts.
ReportOk(q) ==
  /\ tgt[q] = "reportOk"
  /\ connTarget = "up"
  /\ status' = [status EXCEPT ![q] = "STATUS_OK"]
  /\ tgt' = [tgt EXCEPT ![q] = "splicing"]
  /\ fwd' = [fwd EXCEPT ![q] = "copying"]
  /\ bwd' = [bwd EXCEPT ![q] = "copying"]
  /\ UNCHANGED <<upRead, downSent, downFin, edgeVars, appVars, linkVars>>

\* STATUS_CONNECT_FAILED is written and the sending half shut down.
ReportFailed(q) ==
  /\ tgt[q] = "reportFailed"
  /\ connTarget = "up"
  /\ status' = [status EXCEPT ![q] = "STATUS_CONNECT_FAILED"]
  /\ EndStream(q)
  /\ UNCHANGED <<upRead, fwd, bwd, downSent, edgeVars, appVars, linkVars>>

\* The write of a status byte fails: the edge has dropped the stream (and
\* the target has heard of it), or the connection is lost.
ReportFails(q) ==
  /\ tgt[q] \in {"reportOk", "reportFailed"}
  /\ upFin[q] \/ connTarget = "lost"
  /\ EndStream(q)
  /\ UNCHANGED <<upRead, status, fwd, bwd, downSent,
                 edgeVars, appVars, linkVars>>
------------------------------------------------------------------------------
(* splice: two copies that run concurrently, each ending in a shutdown. *)

\* The forward copy moves one item to the app.  After the app has closed,
\* its kernel may still swallow a write before the reset comes back.
FwdCopy(q) ==
  /\ fwd[q] = "copying"
  /\ connTarget = "up"
  /\ upRead[q] < upSent[q]
  /\ upRead' = [upRead EXCEPT ![q] = @ + 1]
  /\ appGot' = [appGot EXCEPT ![q] = IF appReads[q]
                                       THEN Append(@, UpItem(upRead[q] + 1))
                                       ELSE @]
  /\ UNCHANGED <<tgt, status, fwd, bwd, downSent, downFin,
                 appConn, appReads, appSent, edgeVars, linkVars>>

\* The forward copy meets the end of the stream; w2.shutdown().
FwdEof(q) ==
  /\ fwd[q] = "copying"
  /\ connTarget = "up"
  /\ upFin[q] /\ upRead[q] = upSent[q]
  /\ fwd' = [fwd EXCEPT ![q] = "eof"]
  /\ UNCHANGED <<tgt, upRead, status, bwd, downSent, downFin,
                 edgeVars, appVars, linkVars>>

\* The forward copy fails, on the stream or on the socket; w2.shutdown()
\* follows all the same.
FwdFails(q) ==
  /\ fwd[q] = "copying"
  /\ \/ connTarget = "lost"
     \/ ~appReads[q] /\ upRead[q] < upSent[q]
  /\ fwd' = [fwd EXCEPT ![q] = "error"]
  /\ UNCHANGED <<tgt, upRead, status, bwd, downSent, downFin,
                 edgeVars, appVars, linkVars>>

\* The backward copy moves one chunk of the response onto the stream.
BwdCopy(q) ==
  /\ bwd[q] = "copying"
  /\ connTarget = "up"
  /\ downSent[q] < appSent[q]
  /\ downSent' = [downSent EXCEPT ![q] = @ + 1]
  /\ UNCHANGED <<tgt, upRead, status, fwd, bwd, downFin,
                 edgeVars, appVars, linkVars>>

\* Mutant of EndBackward: the writer is not shut down.
EndBackwardOpen(q, result) ==
  /\ bwd' = [bwd EXCEPT ![q] = result]
  /\ UNCHANGED <<tgt, upRead, status, fwd, downSent, downFin,
                 edgeVars, appVars, linkVars>>

\* w1.shutdown() after the backward copy, whatever it returned.
EndBackward(q, result) ==
  /\ bwd' = [bwd EXCEPT ![q] = result]
  /\ downFin' = [downFin EXCEPT ![q] = connTarget = "up"]
  /\ UNCHANGED <<tgt, upRead, status, fwd, downSent,
                 edgeVars, appVars, linkVars>>

BwdEof(q) ==
  /\ bwd[q] = "copying"
  /\ appConn[q] = "fin"
  /\ downSent[q] = appSent[q]
  /\ EndBackward(q, "eof")

\* The app reset its connection, or a write meets a stopped stream or a
\* lost connection.
BwdFails(q) ==
  /\ bwd[q] = "copying"
  /\ \/ appConn[q] = "reset"
     \/ downSent[q] < appSent[q] /\ (upFin[q] \/ connTarget = "lost")
  /\ EndBackward(q, "error")

\* When splice is over.  Mutant: select! in the place of join!.
EitherEnded(q) == fwd[q] # "copying" \/ bwd[q] # "copying"
BothEnded(q)   == fwd[q] # "copying" /\ bwd[q] # "copying"

\* join!: splice returns once both directions have ended.
SpliceDone(q) ==
  /\ tgt[q] = "splicing"
  /\ BothEnded(q)
  /\ EndStream(q)
  /\ UNCHANGED <<upRead, status, fwd, bwd, downSent,
                 edgeVars, appVars, linkVars>>
------------------------------------------------------------------------------
(* The environment: the local app and the network. *)

\* The app, having read some of the request, sends the next chunk of its
\* response on a connection the target still holds.
AppResponds(q) ==
  /\ appConn[q] = "open"
  /\ tgt[q] = "splicing"
  /\ appGot[q] # <<>>
  /\ appSent[q] < RespLen
  /\ appSent' = [appSent EXCEPT ![q] = @ + 1]
  /\ UNCHANGED <<appConn, appReads, appGot, edgeVars, targetVars, linkVars>>

\* The app shuts its sending half down and keeps reading.
AppShutsDown(q) ==
  /\ appConn[q] = "open"
  /\ appConn' = [appConn EXCEPT ![q] = "fin"]
  /\ UNCHANGED <<appReads, appGot, appSent, edgeVars, targetVars, linkVars>>

\* The app closes its connection.
AppCloses(q) ==
  /\ appConn[q] \in {"open", "fin"} /\ appReads[q]
  /\ appConn' = [appConn EXCEPT ![q] = "fin"]
  /\ appReads' = [appReads EXCEPT ![q] = FALSE]
  /\ UNCHANGED <<appGot, appSent, edgeVars, targetVars, linkVars>>

\* The app dies, or aborts the connection.
AppResets(q) ==
  /\ appConn[q] \in {"open", "fin"} /\ appReads[q]
  /\ appConn' = [appConn EXCEPT ![q] = "reset"]
  /\ appReads' = [appReads EXCEPT ![q] = FALSE]
  /\ UNCHANGED <<appGot, appSent, edgeVars, targetVars, linkVars>>

\* The app stops or starts listening.
AppToggles ==
  /\ appUp' = ~appUp
  /\ UNCHANGED <<edgeVars, targetVars, appVars, connEdge, connTarget, peerVersion>>

\* A side finds the connection lost (path gone, peer closed, idle timeout).
EdgeLosesConn ==
  /\ connEdge = "up"
  /\ connEdge' = "lost"
  /\ UNCHANGED <<edgeVars, targetVars, appVars, connTarget, appUp, peerVersion>>

TargetLosesConn ==
  /\ connTarget = "up"
  /\ connTarget' = "lost"
  /\ UNCHANGED <<edgeVars, targetVars, appVars, connEdge, appUp, peerVersion>>
------------------------------------------------------------------------------
OpenStep(q) ==
  \/ OpenBi(q) \/ OpenBiFails(q) \/ WriteHello(q) \/ WriteHelloFails(q)
  \/ ReadStatusOk(q) \/ ReadStatusFails(q)

ProxyStep(q) == SendChunk(q) \/ RecvChunk(q) \/ ProxyFails(q) \/ ProxyDone(q)

HandshakeStep(q) ==
  \/ AcceptBi(q) \/ ReadHead(q) \/ ReadName(q) \/ ReadHelloFails(q)
  \/ DialOk(q) \/ DialFails(q)
  \/ ReportOk(q) \/ ReportFailed(q) \/ ReportFails(q)

ForwardStep(q)  == FwdCopy(q) \/ FwdEof(q) \/ FwdFails(q)
BackwardStep(q) == BwdCopy(q) \/ BwdEof(q) \/ BwdFails(q)

EdgeStep(q)   == Arrive(q) \/ OpenStep(q) \/ OpenTimeout(q) \/ ProxyStep(q)
                 \/ BrowserLeaves(q)
TargetStep(q) == HandshakeStep(q) \/ ForwardStep(q) \/ BackwardStep(q)
                 \/ SpliceDone(q)
AppStep(q)    == AppResponds(q) \/ AppShutsDown(q) \/ AppCloses(q)
                 \/ AppResets(q)
LinkStep      == AppToggles \/ EdgeLosesConn \/ TargetLosesConn

Next ==
  \/ \E q \in Requests : EdgeStep(q) \/ TargetStep(q) \/ AppStep(q)
  \/ LinkStep

Spec == Init /\ [][Next]_vars

(***************************************************************************)
(* Fairness.  Every await of the two programs is polled again once it is   *)
(* ready, so each task that can step does.  QUIC delivers, and tells a     *)
(* side of a loss the other side has seen.  Of the app it is assumed that  *)
(* it drains its socket (FwdCopy) and does not sit forever on a request it *)
(* has or on a connection whose end it has seen; it need not come up.      *)
(* Nothing is assumed of the timer, nor of a browser: it need not arrive,  *)
(* leave, upload the rest of its request (SendChunk) or read its response  *)
(* (RecvChunk).  The edge has no timeout once a request is proxied, so     *)
(* that a browser goes on is a premise of the properties that need it.     *)
(***************************************************************************)
EdgeFair   == \A q \in Requests :
                /\ WF_vars(OpenStep(q))
                /\ WF_vars(ProxyFails(q) \/ ProxyDone(q))
TargetFair == \A q \in Requests :
                /\ WF_vars(HandshakeStep(q))
                /\ WF_vars(FwdEof(q) \/ FwdFails(q))
                /\ WF_vars(BackwardStep(q))
                /\ WF_vars(SpliceDone(q))
AppFair    == \A q \in Requests :
                /\ WF_vars(FwdCopy(q))
                /\ WF_vars(AppResponds(q))
                /\ WF_vars(AppSeesEof(q) /\ AppCloses(q))
LinkFair   == /\ WF_vars(connTarget = "lost" /\ EdgeLosesConn)
              /\ WF_vars(connEdge = "lost" /\ TargetLosesConn)

FairSpec == Spec /\ EdgeFair /\ TargetFair /\ AppFair /\ LinkFair

\* The same while the connection lasts: losing it ends every wait for a
\* stream (OpenBiFails), so it is no help in showing that they end.
SteadyNext == (\E q \in Requests : EdgeStep(q) \/ TargetStep(q) \/ AppStep(q))
              \/ AppToggles
SteadySpec == Init /\ [][SteadyNext]_vars /\ EdgeFair /\ TargetFair /\ AppFair

\* The browser of q sends the rest of its request and reads its response.
BrowserGoesOn(q) == WF_vars(SendChunk(q)) /\ WF_vars(RecvChunk(q))
------------------------------------------------------------------------------
EdgeTypeOK ==
  /\ edge        \in [Requests -> EdgePhases]
  /\ outcome     \in [Requests -> Outcomes]
  /\ opened      \in [Requests -> BOOLEAN]
  /\ upSent      \in [Requests -> 0 .. HelloLen + ReqLen]
  /\ upFin       \in [Requests -> BOOLEAN]
  /\ downRead    \in [Requests -> 0 .. 1 + RespLen]
  /\ edgeGot     \in [Requests -> Seq(0 .. RespLen)]

TargetTypeOK ==
  /\ tgt         \in [Requests -> TargetPhases]
  /\ upRead      \in [Requests -> 0 .. HelloLen + ReqLen]
  /\ status      \in [Requests -> Statuses]
  /\ fwd         \in [Requests -> Directions]
  /\ bwd         \in [Requests -> Directions]
  /\ downSent    \in [Requests -> 0 .. RespLen]
  /\ downFin     \in [Requests -> BOOLEAN]

AppTypeOK ==
  /\ appConn     \in [Requests -> {"none", "open", "fin", "reset"}]
  /\ appReads    \in [Requests -> BOOLEAN]
  /\ appGot      \in [Requests -> Seq(Int)]
  /\ appSent     \in [Requests -> 0 .. RespLen]

LinkTypeOK ==
  /\ connEdge    \in {"up", "lost"}
  /\ connTarget  \in {"up", "lost"}
  /\ appUp       \in BOOLEAN
  /\ peerVersion \in PeerVersions

TypeOK == EdgeTypeOK /\ TargetTypeOK /\ AppTypeOK /\ LinkTypeOK

\* How much of the hello is on the stream in each phase of open().
HelloProgress ==
  \A q \in Requests :
    /\ edge[q] \in {"idle", "opening", "writeHead"} => upSent[q] = 0
    /\ edge[q] = "writeName"   => upSent[q] = 1
    /\ edge[q] = "awaitStatus" => upSent[q] = HelloLen

\* A request answered with 504 has not reached the app and never will: the
\* timeout of handle_request covers the handshake only, and the request's
\* bytes wait for the status byte.  A browser may retry it.
TimeoutIsSafeToRetry ==
  \A q \in Requests :
    outcome[q] = "page504" => appGot[q] = <<>> /\ upSent[q] <= HelloLen

\* The app gets the request's chunks, hyper the response's, each from the
\* first, in order, without a gap, and with none of the hello or the status
\* among them; and hyper gets nothing the app did not send.
StreamsTransparent ==
  \A q \in Requests :
    /\ \A i \in 1 .. Len(appGot[q])  : appGot[q][i]  = i
    /\ \A i \in 1 .. Len(edgeGot[q]) : edgeGot[q][i] = i
    /\ Len(edgeGot[q]) <= appSent[q]

\* splice passes half-closes on and loses nothing by it.  Whoever meets the
\* end of a stream has all that was written before it, unless the app has
\* reset, the edge has left or the connection is lost.
HalfCloseLosesNothing ==
  \A q \in Requests :
    /\ AppSeesEof(q) /\ appReads[q] /\ connTarget = "up"
         => Len(appGot[q]) + HelloLen >= upSent[q]
    /\ downFin[q] /\ downSent[q] < appSent[q]
         => appConn[q] = "reset" \/ upFin[q] \/ connTarget = "lost"

\* Nothing of the tunnel's own can move a request on: the edge has no status
\* byte and no part of the response to read, and has sent the whole request;
\* the target has nothing to accept, read or copy, and no end to pass on.
EdgeWaits(q) ==
  \/ edge[q] = "awaitStatus" /\ status[q] = "none" /\ ~downFin[q]
  \/ /\ edge[q] = "proxying"
     /\ ~RequestLeft(q) /\ Len(edgeGot[q]) < RespLen
     /\ downRead[q] = DownWritten(q) /\ ~downFin[q]

TargetWaits(q) ==
  \/ tgt[q] = "none" /\ upSent[q] = 0
  \/ tgt[q] \in {"readHead", "readName"} /\ upRead[q] = upSent[q]
  \/ /\ tgt[q] = "splicing" /\ ~BothEnded(q)
     /\ fwd[q] = "copying" => upRead[q] = upSent[q] /\ ~upFin[q]
     /\ bwd[q] = "copying" => downSent[q] = appSent[q] /\ appConn[q] = "open"
  \/ tgt[q] = "ended"

\* The two sides never wait for each other, neither over the hello and the
\* status byte nor over an end that was not passed on: a request that is stuck
\* on a connection that is up waits for the app, which has read all of it, is
\* still connected, and owes the rest of the response.
OnlyTheAppIsWaitedFor ==
  \A q \in Requests :
    connEdge = "up" /\ connTarget = "up" /\ EdgeWaits(q) /\ TargetWaits(q)
      => /\ appConn[q] = "open" /\ appReads[q]
         /\ Len(appGot[q]) = ReqLen /\ appSent[q] < RespLen

\* The tunnel keeps the contract: a stream is granted once the edge has
\* consumed STATUS_OK, the app gets the request only then, a 504 forecloses
\* it, and the browser is told one thing.
Contract == INSTANCE RequestContract WITH
  granted   <- {q \in Requests : downRead[q] > 0},
  delivered <- [q \in Requests |-> Len(appGot[q])],
  produced  <- appSent,
  returned  <- [q \in Requests |-> Len(edgeGot[q])]

KeepsContract == Contract!Spec

\* Every request that arrived ends, if its browser goes on and the app
\* answers or hangs up: neither the edge nor the target is where it stays.
EveryRequestEnds ==
  \A q \in Requests :
    BrowserGoesOn(q) => (edge[q] # "idle" ~> edge[q] = "ended")

\* A request that is over gives its stream back: handle_stream ends too,
\* if the app closes a connection whose end it has seen.
StreamReleased ==
  \A q \in Requests :
    opened[q] /\ edge[q] = "ended"
      ~> \/ tgt[q] = "ended"
         \/ tgt[q] = "none" /\ connTarget = "lost"

\* A request never waits forever for a stream, even if OPEN_TIMEOUT never
\* fires: whichever way the requests before it end (answered, refused, timed
\* out, left by their browsers, cut off by the app),
\* each gives its stream back to the limit, if the browsers go on.
StreamsComeBack ==
  (\A q \in Requests : BrowserGoesOn(q))
    => \A q \in Requests : edge[q] = "opening" ~> edge[q] # "opening"

\* What the error page says, "the request didn't make it through": the app
\* has not got the whole of a request that ends on one.
ErrorPageMeansNotDelivered ==
  \A q \in Requests :
    outcome[q] \in {"page502", "page504"} => Len(appGot[q]) < ReqLen
==============================================================================
