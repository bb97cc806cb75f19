----------------------------- MODULE UpgradeChain -----------------------------
(***************************************************************************)
(* A request whose app has answered 101: proxy's upgrade task (edge.rs)    *)
(* joins the two upgrades and runs copy_bidirectional between browser and  *)
(* stream, while splice (splice.rs) copies between stream and app.         *)
(*                                                                         *)
(* Each direction has three links and two stages that copy from one to the *)
(* next: up, the edge and then the target; down, the target and then the   *)
(* edge.  The nodes differ in what an error means: splice ends the one     *)
(* direction and lets the other go on, copy_bidirectional returns at once, *)
(* which drops both connections.                                           *)
(***************************************************************************)
EXTENDS Naturals, Sequences

CONSTANTS MaxSent,   \* items a source sends, a bound of the model
          Capacity   \* items a link holds before its writer has to wait

ASSUME BoundsAssumption == MaxSent \in Nat /\ Capacity \in Nat \ {0}

VARIABLES
  node,     \* "joining" (the edge), "copying" or "over"
  asked,    \* the browser's request had asked for an upgrade
  link,     \* the items written to a link and not yet read, in order
  writer,   \* a link's writer: "open", "fin" or "reset"
  reader,   \* a link's reader is still there
  copying,  \* the stages, <<direction, number>>, that have not ended
  sent,     \* items a source has sent
  got,      \* the items a sink has received, in order
  told,     \* a sink has met the end of its direction
  left,     \* the ends that have closed their connection
  broken    \* an end left early, the connection was lost or the upgrade failed

pipeVars == <<sent, got, told, left, broken>>
vars     == <<node, asked, link, writer, reader, copying, pipeVars>>

Directions == {"up", "down"}
Nodes      == {"edge", "target"}
Ends       == {"browser", "app"}
Links      == Directions \X (1 .. 3)
Stages     == Directions \X (1 .. 2)

NodeOf(st) == IF (st[1] = "up") = (st[2] = 1) THEN "edge" ELSE "target"
Out(st)    == <<st[1], st[2] + 1>>     \* stage st reads link st
Source(d)  == IF d = "up" THEN "browser" ELSE "app"
Sink(d)    == IF d = "up" THEN "app" ELSE "browser"

Init ==
  /\ node    = [k \in Nodes |-> IF k = "edge" THEN "joining" ELSE "copying"]
  /\ asked   \in BOOLEAN
  /\ link    = [l \in Links |-> <<>>]
  /\ writer  = [l \in Links |-> "open"]
  /\ reader  = [l \in Links |-> TRUE]
  /\ copying = Stages
  /\ sent    = [d \in Directions |-> 0]
  /\ got     = [d \in Directions |-> <<>>]
  /\ told    = [d \in Directions |-> FALSE]
  /\ left    = {}
  /\ broken  = FALSE
------------------------------------------------------------------------------
(* The edge's upgrade task and the target's splice. *)

\* Mutant of Stopped: a node that is over keeps its connections.
StoppedNone(k) == {}

\* What a node reads from and what it writes to.
Stopped(k)  == {st \in Stages : NodeOf(st) = k}
Finished(k) == {Out(st) : st \in Stopped(k)}

\* A node drops both its connections.  A stream's halves are stopped and
\* finished; a TCP socket with unread bytes may be reset instead of finished.
Drop(k) ==
  /\ node'    = [node EXCEPT ![k] = "over"]
  /\ reader'  = [l \in Links |-> reader[l] /\ l \notin Stopped(k)]
  /\ \E how \in {"fin", "reset"} :
       writer' = [l \in Links |-> IF l \notin Finished(k) \/ writer[l] # "open" THEN writer[l]
                                  ELSE IF l[2] = 3 THEN how ELSE "fin"]
  /\ copying' = {st \in copying : NodeOf(st) # k}
  /\ UNCHANGED <<asked, link, sent, got, told, left>>

\* Mutant of AtJoin: what hyper has read behind the 101 is not handed on.
AtJoinFresh == [link EXCEPT ![<<"down", 2>>] = <<>>]

\* The links as copy_bidirectional finds them.
AtJoin == link

\* Both upgrades of the try_join! are there.
Join ==
  /\ node["edge"] = "joining" /\ asked
  /\ node' = [node EXCEPT !["edge"] = "copying"]
  /\ link' = AtJoin
  /\ UNCHANGED <<asked, writer, reader, copying, pipeVars>>

\* There is no downstream upgrade, or one of the two fails: the browser has
\* gone before the 101 was written, or the stream is lost.
JoinFails ==
  /\ node["edge"] = "joining"
  /\ ~asked \/ ~reader[<<"down", 3>>] \/ writer[<<"up", 1>>] = "reset"
       \/ writer[<<"down", 2>>] = "reset"
  /\ Drop("edge")
  /\ broken' = TRUE

Runs(st) == st \in copying /\ node[NodeOf(st)] = "copying"

\* Mutants of MayWrite: a full link is written to, or no copying while the
\* other direction waits.
MayWriteFull(st) == Len(link[Out(st)]) <= Capacity

MayWriteAlone(st) ==
  \A o \in Stages : NodeOf(o) = NodeOf(st) => Len(link[Out(o)]) < Capacity

\* The two directions of a node are polled independently.
MayWrite(st) == Len(link[Out(st)]) < Capacity

\* There is something to read, and room to write it to.
MayCopy(st) ==
  /\ Runs(st)
  /\ link[st] # <<>> /\ writer[st] # "reset"
  /\ reader[Out(st)] /\ MayWrite(st)

Copy(st) ==
  /\ MayCopy(st)
  /\ link' = [link EXCEPT ![st] = Tail(@), ![Out(st)] = Append(@, Head(link[st]))]
  /\ UNCHANGED <<node, asked, writer, reader, copying, pipeVars>>

\* Mutant of EndStage: the writer is not shut down.
EndStageOpen(st) ==
  /\ copying' = copying \ {st}
  /\ UNCHANGED <<node, asked, link, writer, reader, sent, got, told, left, broken>>

\* A direction ends with its writer shut down.
EndStage(st) ==
  /\ copying' = copying \ {st}
  /\ writer'  = [writer EXCEPT ![Out(st)] = IF @ = "open" THEN "fin" ELSE @]
  /\ UNCHANGED <<node, asked, link, reader, sent, got, told, left, broken>>

Eof(st) ==
  /\ Runs(st)
  /\ writer[st] = "fin" /\ link[st] = <<>>
  /\ EndStage(st)

\* A read or a write fails.
Fails(st) ==
  /\ Runs(st)
  /\ \/ writer[st] = "reset"
     \/ ~reader[Out(st)] /\ (link[st] # <<>> \/ writer[st] = "fin")
  /\ IF NodeOf(st) = "target" THEN EndStage(st) ELSE Drop("edge") /\ UNCHANGED broken

\* Mutant of Done: the first direction that ends takes the other with it.
DoneEither(k) ==
  /\ node[k] = "copying"
  /\ \E st \in Stages \ copying : NodeOf(st) = k
  /\ Drop(k)
  /\ UNCHANGED broken

\* Both directions have ended.
Done(k) ==
  /\ node[k] = "copying"
  /\ \A st \in copying : NodeOf(st) # k
  /\ Drop(k)
  /\ UNCHANGED broken
------------------------------------------------------------------------------
(* The ends and the connection. *)

Send(d) ==
  /\ Source(d) \notin left /\ writer[<<d, 1>>] = "open"
  /\ sent[d] < MaxSent /\ Len(link[<<d, 1>>]) < Capacity
  /\ sent' = [sent EXCEPT ![d] = @ + 1]
  /\ link' = [link EXCEPT ![<<d, 1>>] = Append(@, sent[d] + 1)]
  /\ UNCHANGED <<node, asked, writer, reader, copying, got, told, left, broken>>

\* A source half-closes.
Finish(d) ==
  /\ writer[<<d, 1>>] = "open"
  /\ writer' = [writer EXCEPT ![<<d, 1>>] = "fin"]
  /\ UNCHANGED <<node, asked, link, reader, copying, pipeVars>>

Receive(d) ==
  /\ reader[<<d, 3>>] /\ ~told[d]
  /\ link[<<d, 3>>] # <<>> /\ writer[<<d, 3>>] # "reset"
  /\ got'  = [got EXCEPT ![d] = Append(@, Head(link[<<d, 3>>]))]
  /\ link' = [link EXCEPT ![<<d, 3>>] = Tail(@)]
  /\ UNCHANGED <<node, asked, writer, reader, copying, sent, told, left, broken>>

MeetEnd(d) ==
  /\ reader[<<d, 3>>] /\ ~told[d]
  /\ \/ writer[<<d, 3>>] = "reset"
     \/ writer[<<d, 3>>] = "fin" /\ link[<<d, 3>>] = <<>>
  /\ told' = [told EXCEPT ![d] = TRUE]
  /\ UNCHANGED <<node, asked, link, writer, reader, copying, sent, got, left, broken>>

\* An end closes its connection: a fault, unless it has met the other's end.
Leave(d) ==
  /\ Source(d) \notin left
  /\ left' = left \cup {Source(d)}
  /\ \E in \in Directions \ {d}, how \in {"fin", "reset"} :
       /\ broken' = (broken \/ ~told[in])
       /\ reader' = [reader EXCEPT ![<<in, 3>>] = FALSE]
       /\ writer' = [writer EXCEPT ![<<d, 1>>] = IF broken' /\ @ = "open" THEN how
                                                 ELSE IF @ = "open" THEN "fin" ELSE @]
  /\ UNCHANGED <<node, asked, link, copying, sent, got, told>>

\* The QUIC connection is lost, with what is under way on it.
LoseConnection ==
  /\ ~broken
  /\ broken' = TRUE
  /\ writer' = [l \in Links |-> IF l[2] = 2 THEN "reset" ELSE writer[l]]
  /\ reader' = [l \in Links |-> l[2] # 2 /\ reader[l]]
  /\ UNCHANGED <<node, asked, link, copying, sent, got, told, left>>

Stage(st) == Copy(st) \/ Eof(st) \/ Fails(st)

Next ==
  \/ Join \/ JoinFails \/ LoseConnection
  \/ \E st \in Stages : Stage(st)
  \/ \E k \in Nodes : Done(k)
  \/ \E d \in Directions : Send(d) \/ Finish(d) \/ Receive(d) \/ MeetEnd(d) \/ Leave(d)

Spec == Init /\ [][Next]_vars

\* The two tasks are run; nothing is assumed of the ends.
FairSpec ==
  /\ Spec
  /\ WF_vars(Join \/ JoinFails)
  /\ \A st \in Stages : WF_vars(Stage(st))
  /\ \A k \in Nodes : WF_vars(Done(k))
------------------------------------------------------------------------------
TypeOK ==
  /\ node    \in [Nodes -> {"joining", "copying", "over"}]
  /\ asked   \in BOOLEAN
  /\ link    \in [Links -> Seq(1 .. MaxSent)] /\ \A l \in Links : Len(link[l]) <= Capacity
  /\ writer  \in [Links -> {"open", "fin", "reset"}]
  /\ reader  \in [Links -> BOOLEAN]
  /\ copying \subseteq Stages
  /\ sent    \in [Directions -> 0 .. MaxSent]
  /\ got     \in [Directions -> Seq(1 .. MaxSent)]
  /\ told    \in [Directions -> BOOLEAN]
  /\ left    \subseteq Ends
  /\ broken  \in BOOLEAN

Pipe == INSTANCE DuplexPipe WITH closed <- [d \in Directions |-> writer[<<d, 1>>] # "open"]

\* The whole chain is one pipe each way: in order, nothing lost that the app
\* sent right behind its 101 or that was under way at a half-close, and no end
\* that comes too early, unless something has broken.
KeepsPipe == Pipe!Spec

Listens(d) == WF_vars(Receive(d)) /\ WF_vars(MeetEnd(d))

\* Until something breaks, an item on its way is on a link that still has its
\* reader: neither splice's join! nor copy_bidirectional closes a direction
\* that has something left, and an end that has been told is told the truth.
NothingStranded ==
  ~broken => \A l \in Links : link[l] # <<>> =>
    /\ reader[l] /\ writer[l] # "reset"
    /\ l \in Stages => l \in copying /\ node[NodeOf(l)] # "over"
    /\ l \notin Stages => ~told[l[1]]

\* Backpressure comes from a direction's own sink: until something breaks, what
\* is under way stops moving only when the sink's link is full.  The directions
\* have the nodes, their tasks and the stream in common, but no room.
OnlyTheSinkHoldsUp ==
  \A d \in Directions :
    /\ ~broken /\ node["edge"] # "joining"
    /\ \E n \in 1 .. 2 : link[<<d, n>>] # <<>>
    /\ \A n \in 1 .. 2 : ~MayCopy(<<d, n>>)
    => Len(link[<<d, 3>>]) = Capacity

\* What is sent in one direction arrives although the other's sink has stopped
\* reading: neither copy_bidirectional nor splice lets one copy wait for the
\* other.
DirectionsIndependent ==
  \A d \in Directions : \A n \in 1 .. MaxSent :
    Listens(d) => (sent[d] = n ~> Len(got[d]) >= n \/ broken)

\* Whoever is still there learns that the other has gone, through both nodes, or
\* that the edge has given up: one of the two upgrades has failed, or nobody has
\* asked for the browser's.
LeavingIsNoticed ==
  \A d \in Directions :
    Listens(d) => (Source(d) \in left \/ node["edge"] = "over" ~> told[d] \/ Sink(d) \in left)

\* When both ends have gone, the task, the stream and the app's connection go.
NothingLingers == left = Ends ~> \A k \in Nodes : node[k] = "over"
==============================================================================
