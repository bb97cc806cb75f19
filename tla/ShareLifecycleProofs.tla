------------------------- MODULE ShareLifecycleProofs -------------------------
(***************************************************************************)
(* Proofs about ShareLifecycle: types, the invariant that ties a share's   *)
(* phase to what it has acquired, and what follows from it for the name,   *)
(* --local-only and the command's output, for any number of shares, any    *)
(* command lines and any ports that others hold.                           *)
(***************************************************************************)
EXTENDS ShareLifecycle, TLAPS

\* What a share may bind for its edge.
EdgePorts == Ports \ {AutoPort}

LEMMA CandidatesType ==
  ASSUME NEW c \in Configs
  PROVE  Candidates(c) \in Seq(EdgePorts)
<1>1. c.port \in Nat /\ c.port \in Ports
  BY ConfigsAssumption DEF Ports
<1>2. {443, 4433} \subseteq EdgePorts
  BY DEF EdgePorts, Ports, AutoPort
<1>3. CASE c.port = AutoPort
  BY <1>2, <1>3 DEF Candidates
<1>4. CASE c.port # AutoPort
  BY <1>1, <1>4 DEF Candidates, EdgePorts
<1>5. QED BY <1>3, <1>4

\* Types, with what bind may still be given.
Types == TypeOK /\ trying \in [Shares -> Seq(EdgePorts)]

LEMMA TypesInit == Init => Types
<1> SUFFICES ASSUME Init PROVE Types
  OBVIOUS
<1>1. \A s \in Shares : Candidates(conf[s]) \in Seq(EdgePorts)
  BY CandidatesType DEF Init
<1>2. \A q \in Seq(EdgePorts) : q \in Seq(Ports)
  BY DEF EdgePorts
<1>3. QED BY <1>1, <1>2 DEF Init, Types, TypeOK, Phases

LEMMA AdvanceType ==
  ASSUME NEW s \in Shares, Types, Advance(s),
         phase[s] \in Starting
  PROVE  phase' \in [Shares -> Phases]
BY DEF Advance, Goto, Types, TypeOK, Phases, Starting, LanPhases

LEMMA ExitType ==
  ASSUME NEW s \in Shares, NEW how \in Over, Types, Exit(s, how)
  PROVE  Types'
BY DEF Exit, Goto, Types, TypeOK, Phases

LEMMA LanEdgeFailsType ==
  ASSUME NEW s \in Shares, Types, LanEdgeFails(s)
  PROVE  Types'
BY DEF LanEdgeFails, Goto, Types, TypeOK, Phases, Starting

LEMMA TypesStep == Types /\ [Next]_vars => Types'
<1> SUFFICES ASSUME Types, [Next]_vars PROVE Types'
  OBVIOUS
<1>0. ASSUME UNCHANGED vars PROVE Types'
  BY <1>0 DEF vars, Types, TypeOK
<1>1. ASSUME NEW s \in Shares, Start(s) PROVE Types'
  BY <1>1 DEF Start, Goto, Types, TypeOK, Phases, Starting
<1>2. ASSUME NEW s \in Shares, Prepare(s) PROVE Types'
  <2>1. phase' \in [Shares -> Phases]
    BY <1>2, AdvanceType DEF Prepare, Starting, LanPhases
  <2>2. QED BY <1>2, <2>1 DEF Prepare, Types, TypeOK
<1>3. ASSUME NEW s \in Shares, StepFails(s) PROVE Types'
  BY <1>3, ExitType, LanEdgeFailsType DEF StepFails, Over
<1>4. ASSUME NEW s \in Shares, Bind(s) PROVE Types'
  <2>1. phase' \in [Shares -> Phases]
    BY <1>4, AdvanceType DEF Bind, Starting, LanPhases
  <2>2. Head(trying[s]) \in EdgePorts
    BY <1>4 DEF Bind, Types
  <2>3. Head(trying[s]) \in Ports
    BY <2>2 DEF EdgePorts
  <2>4. BindIp(s) \in {"none", "LOCALHOST", "UNSPECIFIED"}
    BY DEF BindIp
  <2>5. QED BY <1>4, <2>1, <2>3, <2>4 DEF Bind, Types, TypeOK
<1>5. ASSUME NEW s \in Shares, BindRefused(s) PROVE Types'
  <2>1. Tail(trying[s]) \in Seq(EdgePorts) /\ Tail(trying[s]) \in Seq(Ports)
    BY <1>5 DEF BindRefused, Types, TypeOK
  <2>2. QED BY <1>5, <2>1 DEF BindRefused, Types, TypeOK
<1>6. ASSUME NEW s \in Shares, SpawnHelper(s) \/ NoHelper(s) PROVE Types'
  <2>1. phase' \in [Shares -> Phases]
    BY <1>6, AdvanceType DEF SpawnHelper, NoHelper, Starting, LanPhases
  <2>2. holds' \in [Shares -> SUBSET Ports]
    <3>1. HelperPort \in Ports
      BY DEF Ports
    <3>2. holds[s] \cup {HelperPort} \in SUBSET Ports
      BY <3>1 DEF Types, TypeOK
    <3>3. holds' \in {holds, [holds EXCEPT ![s] = @ \cup {HelperPort}]}
      BY <1>6 DEF SpawnHelper, NoHelper
    <3>4. QED BY <3>2, <3>3 DEF Types, TypeOK
  <2>3. QED BY <1>6, <2>1, <2>2 DEF SpawnHelper, NoHelper, Types, TypeOK
<1>7. ASSUME NEW s \in Shares, Announce(s) PROVE Types'
  <2>1. phase' \in [Shares -> Phases]
    BY <1>7, AdvanceType DEF Announce, Starting, LanPhases
  <2>2. QED BY <1>7, <2>1 DEF Announce, Serves, Types, TypeOK
<1>8. ASSUME NEW s \in Shares, AnnounceFails(s) PROVE Types'
  <2>1. CASE Serves(s)
    BY <1>8, <2>1, LanEdgeFailsType DEF AnnounceFails
  <2>2. CASE ~Serves(s)
    <3>1. phase' \in [Shares -> Phases]
      BY <1>8, <2>2, AdvanceType DEF AnnounceFails, Starting, LanPhases
    <3>2. told[s] \cup {"notAnnounced"} \in SUBSET Lines
      BY DEF Types, TypeOK, Lines
    <3>3. QED BY <1>8, <2>2, <3>1, <3>2 DEF AnnounceFails, Types, TypeOK
  <2>3. QED BY <2>1, <2>2
<1>9. ASSUME NEW s \in Shares, Send(s) PROVE Types'
  <2>1. phase' \in [Shares -> Phases]
    BY <1>9, AdvanceType DEF Send, Starting, LanPhases
  <2>2. PICK qr \in BOOLEAN :
          told' = [told EXCEPT ![s] =
                     @ \cup IF Serves(s) THEN ServeLines(s) ELSE OpenLines(s, qr)]
    BY <1>9 DEF Send
  <2>3. (told[s] \cup IF Serves(s) THEN ServeLines(s) ELSE OpenLines(s, qr)) \in SUBSET Lines
    BY DEF Types, TypeOK, Lines, Urls, ServeLines, OpenLines
  <2>4. told' \in [Shares -> SUBSET Lines]
    BY <2>2, <2>3 DEF Types, TypeOK
  <2>5. QED BY <1>9, <2>1, <2>4 DEF Send, Types, TypeOK
<1>10. ASSUME NEW s \in Shares, EdgeStops(s) PROVE Types'
  <2>1. CASE Opens(s)
    BY <1>10, <2>1, ExitType DEF EdgeStops, Over
  <2>2. CASE ~Opens(s)
    <3>1. /\ edge'  = [edge EXCEPT ![s] = "stopped"]
          /\ holds' = [holds EXCEPT ![s] = @ \ {edgePort[s]}]
          /\ mdns'  = [mdns EXCEPT ![s] = 0]
          /\ UNCHANGED <<conf, phase, trying, edgePort, ip, lan, told>>
      BY <1>10, <2>2 DEF EdgeStops
    <3>2. QED BY <3>1 DEF Types, TypeOK
  <2>3. QED BY <2>1, <2>2
<1>11. ASSUME NEW s \in Shares, HelperStops(s) PROVE Types'
  BY <1>11 DEF HelperStops, Types, TypeOK
<1>12. ASSUME NEW s \in Shares, Interrupt(s) PROVE Types'
  BY <1>12, ExitType DEF Interrupt, Over
<1>13. QED
  BY <1>0, <1>1, <1>2, <1>3, <1>4, <1>5, <1>6, <1>7, <1>8, <1>9, <1>10, <1>11, <1>12
  DEF Next, Startup, PrepareFails, BindFails

\* Types, for any shares, command lines and ports held by others.
THEOREM ShareTypes == Spec => []TypeOK
<1>1. Types => TypeOK
  BY DEF Types
<1>2. QED BY <1>1, TypesInit, TypesStep, PTL DEF Spec
------------------------------------------------------------------------------
(***************************************************************************)
(* The inductive invariant: what a share has acquired follows from where   *)
(* its code stands.  A fresh share has nothing, one past bind has its      *)
(* port, and what it prints and announces goes back to that port.          *)
(***************************************************************************)

Fresh(s) ==
  \/ phase[s] \in {"off", "fileServer", "endpoint", "connect", "lanIps", "bind"}
  \/ Serves(s) /\ phase[s] = "leaf"

Bound(s) ==
  \/ phase[s] \in {"helper", "announce"}
  \/ Opens(s) /\ phase[s] \in {"leaf", "send"}

\* The order of the code's steps, for each kind of share.
OrderInv(s) ==
  /\ phase[s] \in {"fileServer", "lanIps"} => Serves(s)
  /\ phase[s] = "connect" => Opens(s)
  /\ phase[s] = "announce" => ~Local(s)
  /\ Serves(s) /\ Local(s) => phase[s] \notin LanPhases

\* What it holds there.
HoldsInv(s) ==
  /\ edgePort[s] \in EdgePorts \cup {0} /\ 0 \notin holds[s]
  /\ edgePort[s] # 0 => ip[s] = BindIp(s)
  /\ holds[s] # {} => edgePort[s] # 0
  /\ Fresh(s) => edge[s] = "none" /\ edgePort[s] = 0 /\ holds[s] = {} /\ mdns[s] = 0
  /\ Bound(s) => edge[s] = "bound" /\ edgePort[s] \in holds[s]
  /\ edge[s] = "none" => edgePort[s] \notin holds[s]
  /\ edge[s] = "serving" => /\ phase[s] = "running" \/ (Serves(s) /\ phase[s] = "send")
                            /\ edgePort[s] \in holds[s]
  /\ edge[s] = "stopped" => edgePort[s] \notin holds[s]
  /\ edge[s] = "bound" => Bound(s)
  /\ Local(s) => ~Helper(s)
  /\ Local(s) /\ Serves(s) => holds[s] = {}

\* Its name.
NameInv(s) ==
  /\ mdns[s] # 0 => mdns[s] = edgePort[s] /\ edgePort[s] \in holds[s] /\ ~Local(s)
  /\ mdns[s] # 0 => ~Fresh(s) /\ phase[s] \notin {"helper", "announce"}
  /\ Serves(s) => (edge[s] = "serving" <=> mdns[s] # 0)

\* What it has printed.
ToldInv(s) ==
  /\ lan[s] => Serves(s) /\ ~Local(s) /\ edge[s] \in {"serving", "stopped"}
  /\ ~lan[s] /\ Serves(s) => edge[s] # "serving"
  /\ told[s] \ {"notAnnounced"} # {} => phase[s] \in {"running"} \cup Over
  /\ told[s] \cap Urls # {} =>
       edge[s] \in {"serving", "stopped"} /\ (Serves(s) => lan[s])
  /\ "ticket" \in told[s] /\ told[s] \cap Urls = {} => Serves(s) /\ ~lan[s]
  /\ Local(s) => told[s] \cap {"local", "lanIp", "trust"} = {}
  /\ Opens(s) /\ ~Local(s) /\ (phase[s] \in {"leaf", "send"} \/ edge[s] = "serving")
       => mdns[s] = edgePort[s] \/ "notAnnounced" \in told[s]

OneInv(s) == OrderInv(s) /\ HoldsInv(s) /\ NameInv(s) /\ ToldInv(s)

ShareInv == \A s \in Shares : OneInv(s)

\* A step of share s changes nothing of another's.
LeavesOthers(s) ==
  \A r \in Shares \ {s} :
    /\ conf'[r] = conf[r] /\ phase'[r] = phase[r] /\ edgePort'[r] = edgePort[r]
    /\ ip'[r] = ip[r]
    /\ holds'[r] = holds[r] /\ edge'[r] = edge[r] /\ mdns'[r] = mdns[r]
    /\ lan'[r] = lan[r] /\ told'[r] = told[r]

LEMMA PortFacts ==
  /\ 0 \notin EdgePorts /\ HelperPort # 0
  /\ AutoPort = 0 /\ HelperPort = 80
BY DEF EdgePorts, AutoPort, HelperPort

LEMMA ShareInvInit == Init => ShareInv
<1> SUFFICES ASSUME Init, NEW s \in Shares PROVE OneInv(s)
  BY DEF ShareInv
<1>1. /\ phase[s] = "off" /\ edgePort[s] = 0 /\ holds[s] = {} /\ edge[s] = "none"
      /\ mdns[s] = 0 /\ lan[s] = FALSE /\ told[s] = {}
  BY DEF Init
<1>2. QED
  BY <1>1 DEF OneInv, OrderInv, HoldsInv, NameInv, ToldInv, Fresh, Bound, LanPhases, Over,
              Helper

LEMMA OthersKeep ==
  ASSUME NEW s \in Shares, LeavesOthers(s), ShareInv, OneInv(s)'
  PROVE  ShareInv'
<1> SUFFICES ASSUME NEW r \in Shares, r # s PROVE OneInv(r)'
  BY DEF ShareInv
<1>1. OneInv(r)
  BY DEF ShareInv
<1>2. QED
  BY <1>1 DEF LeavesOthers, OneInv, OrderInv, HoldsInv, NameInv, ToldInv, Fresh, Bound,
              Serves, Opens, Local, BindIp, Helper

\* What a share's kind can be.
LEMMA Kinds ==
  ASSUME Types, NEW s \in Shares
  PROVE  Serves(s) <=> ~Opens(s)
BY ConfigsAssumption DEF Types, TypeOK, Serves, Opens

LEMMA ExitKeeps ==
  ASSUME Types, ShareInv, NEW s \in Shares, NEW how \in Over, Exit(s, how)
  PROVE  ShareInv'
<1>1. LeavesOthers(s)
  BY DEF Exit, Goto, LeavesOthers, Types, TypeOK
<1>2. /\ phase'[s] = how /\ holds'[s] = {} /\ mdns'[s] = 0
      /\ edge'[s] = (IF edge[s] = "none" THEN "none" ELSE "stopped")
      /\ conf'[s] = conf[s] /\ edgePort'[s] = edgePort[s] /\ ip'[s] = ip[s]
      /\ lan'[s] = lan[s]
      /\ told'[s] = told[s]
  BY DEF Exit, Goto, Types, TypeOK
<1>3. OneInv(s)
  BY DEF ShareInv
<1>4. OneInv(s)'
  BY <1>2, <1>3 DEF OneInv, OrderInv, HoldsInv, NameInv, ToldInv, Fresh, Bound,
                    Serves, Opens, Local, BindIp, Helper, LanPhases, Over
<1>5. QED BY <1>1, <1>4, OthersKeep

LEMMA LanEdgeFailsKeeps ==
  ASSUME Types, ShareInv, NEW s \in Shares, Serves(s), phase[s] \in LanPhases,
         LanEdgeFails(s)
  PROVE  ShareInv'
<1>1. LeavesOthers(s)
  BY DEF LanEdgeFails, Goto, LeavesOthers, Types, TypeOK
<1>2. /\ phase'[s] = "send" /\ holds'[s] = holds[s] \ {edgePort[s]} /\ mdns'[s] = mdns[s]
      /\ edge'[s] = (IF edge[s] = "none" THEN "none" ELSE "stopped")
      /\ conf'[s] = conf[s] /\ edgePort'[s] = edgePort[s] /\ ip'[s] = ip[s]
      /\ lan'[s] = lan[s]
      /\ told'[s] = told[s]
  BY DEF LanEdgeFails, Goto, Types, TypeOK
<1>3. OneInv(s)
  BY DEF ShareInv
<1>4. OneInv(s)'
  BY <1>2, <1>3, Kinds DEF OneInv, OrderInv, HoldsInv, NameInv, ToldInv, Fresh, Bound,
                    Serves, Opens, Local, BindIp, Helper, LanPhases, Over
<1>5. QED BY <1>1, <1>4, OthersKeep

LEMMA StepFailsKeeps ==
  ASSUME Types, ShareInv, NEW s \in Shares, StepFails(s)
  PROVE  ShareInv'
<1>1. CASE Serves(s) /\ phase[s] \in LanPhases
  BY <1>1, LanEdgeFailsKeeps DEF StepFails
<1>2. CASE ~(Serves(s) /\ phase[s] \in LanPhases)
  BY <1>2, ExitKeeps DEF StepFails, Over
<1>3. QED BY <1>1, <1>2

\* Steps of startup that acquire nothing.
LEMMA AdvanceKeeps ==
  ASSUME Types, ShareInv, NEW s \in Shares, Advance(s),
         phase[s] \in {"fileServer", "endpoint", "connect", "lanIps", "leaf", "helper"},
         UNCHANGED <<conf, edgePort, ip, holds, edge, mdns, lan, told>>
  PROVE  ShareInv'
<1>1. LeavesOthers(s)
  BY DEF Advance, Goto, LeavesOthers, Types, TypeOK
<1>2. /\ phase[s] = "fileServer" => phase'[s] = "endpoint"
      /\ phase[s] = "endpoint" =>
           phase'[s] = IF Opens(s) THEN "connect" ELSE IF Local(s) THEN "send" ELSE "lanIps"
      /\ phase[s] = "connect" => phase'[s] = "bind"
      /\ phase[s] = "lanIps" => phase'[s] = "leaf"
      /\ phase[s] = "leaf" => phase'[s] = IF Opens(s) THEN "send" ELSE "bind"
      /\ phase[s] = "helper" => phase'[s] = IF Local(s) THEN "leaf" ELSE "announce"
  BY DEF Advance, Goto, Types, TypeOK
<1>3. OneInv(s) /\ (Serves(s) <=> ~Opens(s))
  BY Kinds DEF ShareInv
<1>4. OneInv(s)'
  BY <1>2, <1>3 DEF OneInv, OrderInv, HoldsInv, NameInv, ToldInv, Fresh, Bound,
                    Serves, Opens, Local, BindIp, Helper, LanPhases, Over
<1>5. QED BY <1>1, <1>4, OthersKeep

LEMMA StartKeeps ==
  ASSUME Types, ShareInv, NEW s \in Shares, Start(s)
  PROVE  ShareInv'
<1>1. LeavesOthers(s)
  BY DEF Start, Goto, LeavesOthers, Types, TypeOK
<1>2. /\ phase[s] = "off"
      /\ \/ phase'[s] = "endpoint"
         \/ Serves(s) /\ phase'[s] = "fileServer"
      /\ UNCHANGED <<conf, edgePort, ip, holds, edge, mdns, lan, told>>
  BY DEF Start, Goto, Types, TypeOK
<1>3. OneInv(s) /\ (Serves(s) <=> ~Opens(s))
  BY Kinds DEF ShareInv
<1>4. OneInv(s)'
  BY <1>2, <1>3 DEF OneInv, OrderInv, HoldsInv, NameInv, ToldInv, Fresh, Bound,
                    Serves, Opens, Local, BindIp, Helper, LanPhases, Over
<1>5. QED BY <1>1, <1>4, OthersKeep

LEMMA BindKeeps ==
  ASSUME Types, ShareInv, NEW s \in Shares, Bind(s)
  PROVE  ShareInv'
<1>1. LeavesOthers(s)
  BY DEF Bind, Advance, Goto, LeavesOthers, Types, TypeOK
<1> DEFINE port == Head(trying[s])
<1>2. port \in EdgePorts /\ port # 0
  BY PortFacts DEF Bind, Types
<1>3. /\ phase[s] = "bind" /\ phase'[s] = "helper" /\ edgePort'[s] = port
      /\ ip'[s] = BindIp(s)
      /\ holds'[s] = holds[s] \cup {port} /\ edge'[s] = "bound" /\ conf'[s] = conf[s]
      /\ mdns'[s] = mdns[s] /\ lan'[s] = lan[s] /\ told'[s] = told[s]
  BY DEF Bind, Advance, Goto, Types, TypeOK
<1>4. OneInv(s) /\ (Serves(s) <=> ~Opens(s))
  BY Kinds DEF ShareInv
<1> HIDE DEF port
<1>5. OneInv(s)'
  BY <1>2, <1>3, <1>4 DEF OneInv, OrderInv, HoldsInv, NameInv, ToldInv, Fresh, Bound,
                          Serves, Opens, Local, BindIp, Helper, LanPhases, Over
<1>6. QED BY <1>1, <1>5, OthersKeep

LEMMA SpawnHelperKeeps ==
  ASSUME Types, ShareInv, NEW s \in Shares, SpawnHelper(s)
  PROVE  ShareInv'
<1>1. LeavesOthers(s)
  BY DEF SpawnHelper, Advance, Goto, LeavesOthers, Types, TypeOK
<1>2. /\ phase[s] = "helper" /\ ~Local(s) /\ phase'[s] = "announce" /\ edgePort[s] = 443
      /\ holds'[s] = holds[s] \cup {HelperPort}
      /\ UNCHANGED <<conf, edgePort, ip, edge, mdns, lan, told>>
  BY DEF SpawnHelper, Advance, Goto, Types, TypeOK
<1>3. OneInv(s) /\ (Serves(s) <=> ~Opens(s))
  BY Kinds DEF ShareInv
<1>4. OneInv(s)'
  BY <1>2, <1>3, PortFacts DEF OneInv, OrderInv, HoldsInv, NameInv, ToldInv, Fresh, Bound,
                               Serves, Opens, Local, BindIp, Helper, LanPhases, Over
<1>5. QED BY <1>1, <1>4, OthersKeep

\* Before a command is up it has printed no more than the warning.
LEMMA NothingTold ==
  ASSUME ShareInv, NEW s \in Shares, phase[s] \notin {"running"} \cup Over
  PROVE  /\ told[s] \subseteq {"notAnnounced"} /\ told[s] \cap Urls = {}
         /\ "ticket" \notin told[s] /\ told[s] \cap {"local", "lanIp", "trust"} = {}
BY DEF ShareInv, OneInv, ToldInv, Urls

LEMMA AnnounceKeeps ==
  ASSUME Types, ShareInv, NEW s \in Shares, Announce(s)
  PROVE  ShareInv'
<1>1. LeavesOthers(s)
  BY DEF Announce, Advance, Goto, LeavesOthers, Types, TypeOK
<1>2. /\ phase[s] = "announce" /\ phase'[s] = (IF Opens(s) THEN "leaf" ELSE "send")
      /\ mdns'[s] = edgePort[s] /\ edge'[s] = (IF Serves(s) THEN "serving" ELSE edge[s])
      /\ lan'[s] = Serves(s)
      /\ UNCHANGED <<conf, edgePort, ip, holds, told>>
  BY DEF Announce, Advance, Goto, Types, TypeOK, Serves
<1>3. OneInv(s) /\ (Serves(s) <=> ~Opens(s))
  BY Kinds DEF ShareInv
<1>4. told[s] \cap Urls = {} /\ told[s] \ {"notAnnounced"} = {} /\ "ticket" \notin told[s]
  BY <1>2, NothingTold DEF Over
<1>5. OneInv(s)'
  <2>1. OrderInv(s)' /\ HoldsInv(s)' /\ NameInv(s)'
    BY <1>2, <1>3, PortFacts DEF OneInv, OrderInv, HoldsInv, NameInv, Fresh, Bound,
                                 Serves, Opens, Local, BindIp, Helper, LanPhases, Over
  <2>2. ToldInv(s)'
    BY <1>2, <1>3, <1>4 DEF OneInv, OrderInv, ToldInv, Serves, Opens, Local
  <2>3. QED BY <2>1, <2>2 DEF OneInv
<1>6. QED BY <1>1, <1>5, OthersKeep

LEMMA AnnounceFailsKeeps ==
  ASSUME Types, ShareInv, NEW s \in Shares, AnnounceFails(s)
  PROVE  ShareInv'
<1>1. CASE Serves(s)
  BY <1>1, LanEdgeFailsKeeps DEF AnnounceFails, LanPhases
<1>2. CASE ~Serves(s)
  <2>1. LeavesOthers(s)
    BY <1>2 DEF AnnounceFails, Advance, Goto, LeavesOthers, Types, TypeOK
  <2>2. /\ phase[s] = "announce" /\ phase'[s] = "leaf"
        /\ told'[s] = told[s] \cup {"notAnnounced"}
        /\ UNCHANGED <<conf, edgePort, ip, holds, edge, mdns, lan>>
    BY <1>2, Kinds DEF AnnounceFails, Advance, Goto, Types, TypeOK
  <2>3. OneInv(s) /\ (Serves(s) <=> ~Opens(s))
    BY Kinds DEF ShareInv
  <2>4. told'[s] \cap Urls = {} /\ told'[s] \ {"notAnnounced"} = {} /\ "ticket" \notin told'[s]
        /\ told'[s] \cap {"local", "lanIp", "trust"} = {} /\ "notAnnounced" \in told'[s]
    <3>1. told[s] \subseteq {"notAnnounced"}
      BY <2>2, NothingTold DEF Over
    <3>2. told'[s] = {"notAnnounced"}
      BY <2>2, <3>1
    <3>3. QED BY <3>2 DEF Urls
  <2>5. OneInv(s)'
    <3>1. OrderInv(s)' /\ HoldsInv(s)' /\ NameInv(s)'
      BY <1>2, <2>2, <2>3 DEF OneInv, OrderInv, HoldsInv, NameInv, Fresh, Bound,
                              Serves, Opens, Local, BindIp, Helper, LanPhases, Over
    <3>2. ToldInv(s)'
      BY <1>2, <2>2, <2>3, <2>4 DEF OneInv, ToldInv, Serves, Opens, Local
    <3>3. QED BY <3>1, <3>2 DEF OneInv
  <2>6. QED BY <2>1, <2>5, OthersKeep
<1>3. QED BY <1>1, <1>2

LEMMA SendKeeps ==
  ASSUME Types, ShareInv, NEW s \in Shares, Send(s)
  PROVE  ShareInv'
<1>1. LeavesOthers(s)
  BY DEF Send, Advance, Goto, LeavesOthers, Types, TypeOK
<1>2. PICK qr \in BOOLEAN :
        told'[s] = told[s] \cup IF Serves(s) THEN ServeLines(s) ELSE OpenLines(s, qr)
  BY DEF Send, Types, TypeOK
<1>3. /\ phase[s] = "send" /\ phase'[s] = "running"
      /\ edge'[s] = (IF Opens(s) THEN "serving" ELSE edge[s])
      /\ UNCHANGED <<conf, edgePort, ip, holds, mdns, lan>>
  BY DEF Send, Advance, Goto, Types, TypeOK
<1>4. OneInv(s) /\ (Serves(s) <=> ~Opens(s))
  BY Kinds DEF ShareInv
<1>5. told[s] \subseteq {"notAnnounced"}
  BY <1>3, NothingTold DEF Over
<1>6. OrderInv(s)' /\ HoldsInv(s)' /\ NameInv(s)'
  BY <1>3, <1>4 DEF OneInv, OrderInv, HoldsInv, NameInv, ToldInv, Fresh, Bound,
                    Serves, Opens, Local, BindIp, Helper, LanPhases, Over
<1>7. ToldInv(s)'
  <2>1. CASE Serves(s)
    <3>1. told'[s] = told[s] \cup {"ticket"} \cup (IF lan[s] THEN {"local", "lanIp", "trust"} ELSE {})
      BY <1>2, <2>1 DEF ServeLines
    <3>2. told'[s] \cap Urls # {} => lan[s]
      BY <1>5, <3>1 DEF Urls
    <3>3. lan[s] => told'[s] \cap Urls # {}
      BY <3>1 DEF Urls
    <3>4. ~lan[s] => told'[s] \cap {"local", "lanIp", "trust"} = {}
      BY <1>5, <3>1
    <3>5. QED
      BY <1>3, <1>4, <2>1, <3>2, <3>3, <3>4 DEF OneInv, ToldInv, Serves, Opens, Local
  <2>2. CASE Opens(s)
    <3>1. told'[s] = told[s] \cup OpenLines(s, qr)
      BY <1>2, <1>4, <2>2
    <3>2. "localhost" \in told'[s] /\ told'[s] \cap Urls # {}
      BY <3>1 DEF OpenLines, Urls
    <3>3. Local(s) => told'[s] \cap {"local", "lanIp", "trust"} = {}
      BY <1>5, <3>1 DEF OpenLines
    <3>4. "notAnnounced" \in told[s] => "notAnnounced" \in told'[s]
      BY <3>1
    <3>5. QED
      BY <1>3, <1>4, <2>2, <3>2, <3>3, <3>4 DEF OneInv, ToldInv, Serves, Opens, Local
  <2>3. QED BY <1>4, <2>1, <2>2
<1>8. OneInv(s)'
  BY <1>6, <1>7 DEF OneInv
<1>9. QED BY <1>1, <1>8, OthersKeep

LEMMA EdgeStopsKeeps ==
  ASSUME Types, ShareInv, NEW s \in Shares, EdgeStops(s)
  PROVE  ShareInv'
<1>1. CASE Opens(s)
  BY <1>1, ExitKeeps DEF EdgeStops, Over
<1>2. CASE ~Opens(s)
  <2>1. LeavesOthers(s)
    BY <1>2 DEF EdgeStops, LeavesOthers, Types, TypeOK
  <2>2. /\ edge[s] = "serving" /\ edge'[s] = "stopped" /\ mdns'[s] = 0
        /\ holds'[s] = holds[s] \ {edgePort[s]}
        /\ UNCHANGED <<conf, phase, edgePort, ip, lan, told>>
    BY <1>2 DEF EdgeStops, Types, TypeOK
  <2>3. OneInv(s) /\ (Serves(s) <=> ~Opens(s))
    BY Kinds DEF ShareInv
  <2>4. OneInv(s)'
    BY <1>2, <2>2, <2>3 DEF OneInv, OrderInv, HoldsInv, NameInv, ToldInv, Fresh, Bound,
                            Serves, Opens, Local, BindIp, Helper, LanPhases, Over
  <2>5. QED BY <2>1, <2>4, OthersKeep
<1>3. QED BY <1>1, <1>2

LEMMA HelperStopsKeeps ==
  ASSUME Types, ShareInv, NEW s \in Shares, HelperStops(s)
  PROVE  ShareInv'
<1>1. LeavesOthers(s)
  BY DEF HelperStops, LeavesOthers, Types, TypeOK
<1>2. /\ Helper(s) /\ holds'[s] = holds[s] \ {HelperPort}
      /\ UNCHANGED <<conf, phase, edgePort, ip, edge, mdns, lan, told>>
  BY DEF HelperStops, Types, TypeOK
<1>3. OneInv(s) /\ (Serves(s) <=> ~Opens(s))
  BY Kinds DEF ShareInv
<1>4. OneInv(s)'
  BY <1>2, <1>3, PortFacts DEF OneInv, OrderInv, HoldsInv, NameInv, ToldInv, Fresh, Bound,
                               Serves, Opens, Local, BindIp, Helper, LanPhases, Over
<1>5. QED BY <1>1, <1>4, OthersKeep

LEMMA ShareInvStep == Types /\ ShareInv /\ [Next]_vars => ShareInv'
<1> SUFFICES ASSUME Types, ShareInv, [Next]_vars PROVE ShareInv'
  OBVIOUS
<1>1. CASE UNCHANGED vars
  BY <1>1 DEF vars, ShareInv, OneInv, OrderInv, HoldsInv, NameInv, ToldInv, Fresh, Bound,
              Serves, Opens, Local, BindIp, Helper
<1>2. ASSUME NEW s \in Shares, Prepare(s) \/ BindRefused(s) \/ NoHelper(s) PROVE ShareInv'
  <2>1. CASE Prepare(s)
    BY <2>1, AdvanceKeeps DEF Prepare
  <2>2. CASE NoHelper(s)
    BY <2>2, AdvanceKeeps DEF NoHelper
  <2>3. CASE BindRefused(s)
    BY <2>3 DEF BindRefused, ShareInv, OneInv, OrderInv, HoldsInv, NameInv, ToldInv, Fresh,
                Bound, Serves, Opens, Local, BindIp, Helper
  <2>4. QED BY <1>2, <2>1, <2>2, <2>3
<1>3. ASSUME NEW s \in Shares, PrepareFails(s) \/ BindFails(s) \/ Interrupt(s) PROVE ShareInv'
  BY <1>3, StepFailsKeeps, ExitKeeps DEF PrepareFails, BindFails, Interrupt, Over
<1>4. QED
  BY <1>1, <1>2, <1>3, StartKeeps, BindKeeps, SpawnHelperKeeps, AnnounceKeeps,
     AnnounceFailsKeeps, SendKeeps, EdgeStopsKeeps, HelperStopsKeeps
  DEF Next, Startup

LEMMA ShareInvariance == Spec => [](Types /\ ShareInv)
BY TypesInit, TypesStep, ShareInvInit, ShareInvStep, PTL DEF Spec

\* A name that is announced leads to a port its own share listens on, and the
\* LAN edge of a serve is announced exactly while it runs.
THEOREM NameLives == Spec => []NameLivesWithEdge
<1>1. ShareInv => NameLivesWithEdge
  BY DEF ShareInv, OneInv, NameInv, NameLivesWithEdge
<1>2. QED BY <1>1, ShareInvariance, PTL

\* --local-only: no name, nothing bound where the LAN can reach it, no port-80
\* helper, no URL for other devices, and for serve no listener.
THEOREM LocalOnlyStays == Spec => []LocalOnlyStaysLocal
<1>1. Types /\ ShareInv => LocalOnlyStaysLocal
  <2> SUFFICES ASSUME ShareInv, Types, NEW s \in Shares, Local(s)
               PROVE  /\ mdns[s] = 0 /\ Reachable(s) = {} /\ ~Helper(s)
                      /\ told[s] \cap {"local", "lanIp", "trust"} = {}
                      /\ Serves(s) => holds[s] = {}
    BY DEF LocalOnlyStaysLocal
  <2>1. OneInv(s) /\ (Serves(s) <=> ~Opens(s))
    BY Kinds DEF ShareInv
  <2>2. Reachable(s) = {}
    BY <2>1 DEF OneInv, HoldsInv, Reachable, BindIp
  <2>3. QED BY <2>1, <2>2 DEF OneInv, NameInv, HoldsInv, ToldInv
<1>2. QED BY <1>1, ShareInvariance, PTL

\* Until its edge stops, each URL a command has printed leads to a listener that
\* those it is for can reach, with the name it takes; the exceptions are the
\* .local ones after the warning and a trust URL without a port-80 helper.
THEOREM ToldTrue == Spec => []ToldIsTrue
<1>1. Types /\ ShareInv => ToldIsTrue
  <2> SUFFICES ASSUME Types, ShareInv, NEW s \in Shares
               PROVE  /\ \A line \in told[s] \cap Urls :
                           edge[s] # "stopped" =>
                             \/ Leads(s, line)
                             \/ line \in {"local", "trust"} /\ "notAnnounced" \in told[s]
                             \/ line = "trust" /\ edgePort[s] = 443 /\ ~Helper(s)
                      /\ told[s] \cap Urls # {} => edge[s] \in {"serving", "stopped"}
                      /\ "ticket" \in told[s] /\ told[s] \cap Urls = {}
                           => mdns[s] = 0 /\ edgePort[s] \notin holds[s]
    BY DEF ToldIsTrue
  <2>1. OneInv(s) /\ (Serves(s) <=> ~Opens(s))
    BY Kinds DEF ShareInv
  <2>2. ASSUME NEW line \in told[s] \cap Urls, edge[s] # "stopped"
        PROVE  \/ Leads(s, line)
               \/ line \in {"local", "trust"} /\ "notAnnounced" \in told[s]
               \/ line = "trust" /\ edgePort[s] = 443 /\ ~Helper(s)
    <3>1. edge[s] = "serving" /\ edgePort[s] \in holds[s] /\ edgePort[s] # 0
          /\ ip[s] = BindIp(s)
      BY <2>1, <2>2 DEF OneInv, ToldInv, HoldsInv
    <3>2. CASE line = "localhost"
      BY <3>1, <3>2 DEF Leads
    <3>3. CASE line \in {"local", "lanIp", "trust"}
      <4>1. ~Local(s) /\ Reachable(s) = holds[s]
        BY <2>1, <2>2, <3>1, <3>3 DEF OneInv, ToldInv, Reachable, BindIp
      <4>2. mdns[s] = edgePort[s] \/ "notAnnounced" \in told[s]
        BY <2>1, <3>1, <4>1 DEF OneInv, ToldInv, NameInv
      <4>3. CASE line = "lanIp"
        BY <3>1, <4>1, <4>3 DEF Leads
      <4>4. CASE line = "local"
        BY <3>1, <4>1, <4>2, <4>4 DEF Leads
      <4>5. CASE line = "trust"
        BY <3>1, <4>1, <4>2, <4>5 DEF Leads, Helper, HelperPort
      <4>6. QED BY <3>3, <4>3, <4>4, <4>5
    <3>4. QED BY <2>2, <3>2, <3>3 DEF Urls
  <2>3. told[s] \cap Urls # {} => edge[s] \in {"serving", "stopped"}
    BY <2>1 DEF OneInv, ToldInv
  <2>4. "ticket" \in told[s] /\ told[s] \cap Urls = {} => mdns[s] = 0 /\ edgePort[s] \notin holds[s]
    BY <2>1 DEF OneInv, ToldInv, NameInv, HoldsInv, Bound, OrderInv, Fresh, Over, Types, TypeOK
  <2>5. QED BY <2>2, <2>3, <2>4
<1>2. QED BY <1>1, ShareInvariance, PTL

\* Nothing that goes wrong with the LAN edge ends a serve.
THEOREM LanFailureKeeps == Spec => LanFailureKeepsTicket
<1>1. Types /\ [Next]_vars
        => [\A s \in Shares :
              Serves(s) /\ phase[s] \in LanPhases \cup {"send", "running"}
                => phase'[s] # "failed"]_vars
  <2> SUFFICES ASSUME Types, Next, NEW s \in Shares, Serves(s),
                      phase[s] \in LanPhases \cup {"send", "running"}
               PROVE  phase'[s] # "failed"
    OBVIOUS
  <2>1. PICK r \in Shares : Start(r) \/ Startup(r) \/ EdgeStops(r) \/ HelperStops(r)
                              \/ Interrupt(r)
    BY DEF Next
  <2>2. ASSUME Exit(r, "failed"), ~(Serves(r) /\ phase[r] \in LanPhases \cup {"send", "running"})
        PROVE  phase'[s] # "failed"
    BY <2>2 DEF Exit, Goto, Types, TypeOK, LanPhases
  <2>3. CASE PrepareFails(r) \/ BindFails(r)
    <3>1. CASE Serves(r) /\ phase[r] \in LanPhases
      BY <2>3, <3>1 DEF PrepareFails, BindFails, StepFails, LanEdgeFails, Goto, Types, TypeOK,
                        LanPhases
    <3>2. CASE ~(Serves(r) /\ phase[r] \in LanPhases)
      BY <2>2, <2>3, <3>2 DEF PrepareFails, BindFails, StepFails, LanPhases
    <3>3. QED BY <3>1, <3>2
  <2>4. CASE Prepare(r) \/ Bind(r) \/ SpawnHelper(r) \/ NoHelper(r) \/ Announce(r) \/ Send(r)
    <3>1. Advance(r) /\ phase[r] \in Starting
      BY <2>4 DEF Prepare, Bind, SpawnHelper, NoHelper, Announce, Send, Starting, LanPhases
    <3>2. phase' = [phase EXCEPT ![r] = phase'[r]] /\ phase'[r] # "failed"
      BY <3>1 DEF Advance, Goto, Types, TypeOK, Starting, LanPhases
    <3>3. phase[s] # "failed"
      BY DEF LanPhases
    <3>4. QED BY <3>2, <3>3 DEF Types, TypeOK
  <2>5. CASE AnnounceFails(r)
    BY <2>5 DEF AnnounceFails, LanEdgeFails, Advance, Goto, Types, TypeOK, LanPhases
  <2>6. CASE EdgeStops(r)
    <3>1. CASE Opens(r)
      <4>1. ~Serves(r)
        BY <3>1, Kinds
      <4>2. QED BY <2>2, <2>6, <3>1, <4>1 DEF EdgeStops
    <3>2. CASE ~Opens(r)
      BY <2>6, <3>2 DEF EdgeStops, LanPhases
    <3>3. QED BY <3>1, <3>2
  <2>7. CASE Start(r) \/ BindRefused(r) \/ HelperStops(r) \/ Interrupt(r)
    BY <2>7 DEF Start, BindRefused, HelperStops, Interrupt, Exit, Goto, Types, TypeOK, LanPhases
  <2>8. QED BY <2>1, <2>3, <2>4, <2>5, <2>6, <2>7 DEF Startup
<1>2. QED BY <1>1, ShareInvariance, PTL DEF Spec, LanFailureKeepsTicket

\* What one step of startup leaves to be done.
Closer(s) ==
  \/ phase'[s] \notin Starting
  \/ StepsLeft(s)' < StepsLeft(s)
  \/ phase'[s] = phase[s] /\ Len(trying'[s]) < Len(trying[s])

LEMMA AdvanceCloser ==
  ASSUME Types, ShareInv, NEW s \in Shares, Advance(s), phase[s] \in Starting, conf' = conf
  PROVE  Closer(s)
<1>1. OneInv(s) /\ (Serves(s) <=> ~Opens(s))
  BY Kinds DEF ShareInv
<1>2. /\ phase[s] = "fileServer" => phase'[s] = "endpoint"
      /\ phase[s] = "endpoint" =>
           phase'[s] = IF Opens(s) THEN "connect" ELSE IF Local(s) THEN "send" ELSE "lanIps"
      /\ phase[s] = "connect" => phase'[s] = "bind"
      /\ phase[s] = "lanIps" => phase'[s] = "leaf"
      /\ phase[s] = "leaf" => phase'[s] = IF Opens(s) THEN "send" ELSE "bind"
      /\ phase[s] = "bind" => phase'[s] = "helper"
      /\ phase[s] = "helper" => phase'[s] = IF Local(s) THEN "leaf" ELSE "announce"
      /\ phase[s] = "announce" => phase'[s] = IF Opens(s) THEN "leaf" ELSE "send"
      /\ phase[s] = "send" => phase'[s] = "running"
  BY DEF Advance, Goto, Types, TypeOK
<1>3. Opens(s)' <=> Opens(s)
  BY DEF Opens
<1>4. CASE Opens(s)
  <2>1. phase[s] \notin {"fileServer", "lanIps"}
    BY <1>1, <1>4 DEF OneInv, OrderInv
  <2>2. QED
    BY <1>2, <1>3, <1>4, <2>1 DEF Closer, StepsLeft, Starting, LanPhases
<1>5. CASE ~Opens(s)
  <2>1. phase[s] # "connect" /\ (Local(s) => phase[s] \notin LanPhases)
    BY <1>1, <1>5 DEF OneInv, OrderInv
  <2>2. QED
    BY <1>2, <1>3, <1>5, <2>1 DEF Closer, StepsLeft, Starting, LanPhases
<1>6. QED BY <1>4, <1>5

LEMMA FailureCloser ==
  ASSUME Types, NEW s \in Shares, phase[s] \in Starting, StepFails(s)
  PROVE  Closer(s)
<1>1. CASE Serves(s) /\ phase[s] \in LanPhases
  <2>1. phase'[s] = "send" /\ conf' = conf
    BY <1>1 DEF StepFails, LanEdgeFails, Goto, Types, TypeOK
  <2>2. StepsLeft(s)' = 1
    BY <2>1 DEF StepsLeft
  <2>3. StepsLeft(s) > 1
    BY <1>1 DEF StepsLeft, LanPhases
  <2>4. QED BY <2>2, <2>3 DEF Closer
<1>2. CASE ~(Serves(s) /\ phase[s] \in LanPhases)
  BY <1>2 DEF StepFails, Exit, Goto, Types, TypeOK, Closer, Starting, LanPhases
<1>3. QED BY <1>1, <1>2

LEMMA StartupCloser ==
  ASSUME Types, ShareInv, NEW s \in Shares, phase[s] \in Starting, Startup(s)
  PROVE  Closer(s)
<1>1. CASE Prepare(s) \/ Bind(s) \/ SpawnHelper(s) \/ NoHelper(s) \/ Announce(s) \/ Send(s)
  <2>1. Advance(s) /\ conf' = conf
    BY <1>1 DEF Prepare, Bind, SpawnHelper, NoHelper, Announce, Send
  <2>2. QED BY <2>1, AdvanceCloser
<1>2. CASE PrepareFails(s) \/ BindFails(s)
  BY <1>2, FailureCloser DEF PrepareFails, BindFails
<1>3. CASE BindRefused(s)
  <2>1. phase' = phase /\ trying'[s] = Tail(trying[s]) /\ trying[s] # <<>>
    BY <1>3 DEF BindRefused, Types
  <2>2. trying[s] \in Seq(EdgePorts)
    BY DEF Types
  <2>3. Len(trying'[s]) < Len(trying[s])
    BY <2>1, <2>2
  <2>4. QED BY <2>1, <2>3 DEF Closer
<1>4. CASE AnnounceFails(s)
  <2>1. CASE Serves(s)
    <3>1. StepFails(s)
      BY <1>4, <2>1 DEF AnnounceFails, StepFails, LanPhases
    <3>2. QED BY <3>1, FailureCloser
  <2>2. CASE ~Serves(s)
    BY <1>4, <2>2, AdvanceCloser DEF AnnounceFails
  <2>3. QED BY <2>1, <2>2
<1>5. QED BY <1>1, <1>2, <1>3, <1>4 DEF Startup

\* Startup has no loop: the steps a share has left and the ports it may still
\* try go down with every step of its own, and nothing else moves them.
THEOREM StartupEnds == Spec => StartupComesCloser
<1>1. Types /\ ShareInv /\ [Next]_vars
        => [\A s \in Shares : phase[s] \in Starting =>
              \/ phase'[s] \notin Starting
              \/ StepsLeft(s)' < StepsLeft(s)
              \/ phase'[s] = phase[s] /\ Len(trying'[s]) < Len(trying[s])
              \/ phase'[s] = phase[s] /\ trying'[s] = trying[s] /\ ~Startup(s)]_vars
  <2> SUFFICES ASSUME Types, ShareInv, Next, NEW s \in Shares, phase[s] \in Starting, ~Startup(s)
               PROVE  \/ phase'[s] \notin Starting
                      \/ phase'[s] = phase[s] /\ trying'[s] = trying[s]
    BY StartupCloser DEF Closer
  <2>1. PICK r \in Shares : Start(r) \/ Startup(r) \/ EdgeStops(r) \/ HelperStops(r)
                              \/ Interrupt(r)
    BY DEF Next
  <2>2. CASE r = s
    <3>1. ~Start(s)
      BY DEF Start, Starting, LanPhases
    <3>2. QED
      BY <2>1, <2>2, <3>1
      DEF EdgeStops, HelperStops, Interrupt, Exit, Goto, Types, TypeOK, Starting, LanPhases
  <2>3. CASE r # s
    <3>1. phase'[s] = phase[s]
      BY <2>1, <2>3
      DEF Start, EdgeStops, HelperStops, Interrupt, Startup, Prepare, PrepareFails, Bind,
          BindRefused, BindFails, SpawnHelper, NoHelper, Announce, AnnounceFails, Send,
          StepFails, Exit, LanEdgeFails, Advance, Goto, Types, TypeOK
    <3>2. trying'[s] = trying[s]
      BY <2>1, <2>3
      DEF Start, EdgeStops, HelperStops, Interrupt, Startup, Prepare, PrepareFails, Bind,
          BindRefused, BindFails, SpawnHelper, NoHelper, Announce, AnnounceFails, Send,
          StepFails, Exit, LanEdgeFails, Types, TypeOK
    <3>3. QED BY <3>1, <3>2
  <2>4. QED BY <2>2, <2>3
<1>2. QED BY <1>1, ShareInvariance, PTL DEF Spec, StartupComesCloser
==============================================================================
