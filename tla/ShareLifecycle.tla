---------------------------- MODULE ShareLifecycle ----------------------------
(***************************************************************************)
(* How a share comes up and goes down: lclhst::serve, lclhst::open and     *)
(* start_lan_edge (lib.rs), edge::bind and spawn_port_80_helper (edge.rs), *)
(* mdns::announce and its guard (mdns.rs), and the command around them     *)
(* (main.rs).                                                              *)
(*                                                                         *)
(* Several shares run on one machine and compete for its ports.  Every     *)
(* step that can fail may fail.  A failure ends an `open`; in a `serve` it *)
(* ends the command before the LAN edge is tried and only the LAN edge     *)
(* from there on.  What a spawned task holds lives until that task ends or *)
(* the process does.                                                       *)
(***************************************************************************)
EXTENDS Naturals, Sequences

CONSTANTS Shares,     \* the commands run on this machine
          Configs,    \* command lines: [kind, localOnly, port]
          Foreign     \* ports some other program holds

AutoPort   == 0       \* no --port: try 443, then 4433
HelperPort == 80

ASSUME ConfigsAssumption ==
  Configs \subseteq [kind : {"serve", "open"}, localOnly : BOOLEAN,
                     port : Nat]

VARIABLES
  conf,       \* a share's command line
  phase,      \* where it stands
  trying,     \* the ports bind has still to try
  edgePort,   \* the port its edge has bound, or 0
  ip,         \* the address it binds, "none" before
  holds,      \* the ports it has listeners on, at that address
  edge,       \* its edge: "none", "bound", "serving" or "stopped"
  mdns,       \* the port its mDNS registration names, or 0
  lan,        \* start_lan_edge has returned an address
  told        \* the lines the command has printed

vars == <<conf, phase, trying, edgePort, ip, holds, edge, mdns, lan, told>>

\* What a command may print: its ticket; URLs of its edge by three hosts, and
\* the trust page's; that its name could not be announced.
Urls  == {"localhost", "local", "lanIp", "trust"}
Lines == Urls \cup {"ticket", "notAnnounced"}

LanPhases == {"lanIps", "leaf", "bind", "helper", "announce"}
Starting  == {"fileServer", "endpoint", "connect", "send"} \cup LanPhases
Over      == {"failed", "interrupted"}
Phases    == {"off", "running"} \cup Starting \cup Over

Serves(s) == conf[s].kind = "serve"
Opens(s)  == conf[s].kind = "open"
Local(s)  == conf[s].localOnly

\* Two listeners share neither address and port; whether a wildcard and a
\* loopback listener may share a port differs among systems.
Free(addr, p) ==
  p \notin Foreign /\ \A s \in Shares : ~(p \in holds[s] /\ ip[s] = addr)

\* A listener on port 80 that is not the edge itself.
Helper(s) == HelperPort \in holds[s] /\ edgePort[s] # HelperPort

\* The ports of a share that a device on the LAN can connect to.
Reachable(s) == IF ip[s] = "UNSPECIFIED" THEN holds[s] ELSE {}

\* Mutant of Candidates: another fallback than the one users are told of.
CandidatesOther(c) == IF c.port = AutoPort THEN <<443, 8443>> ELSE <<c.port>>

Candidates(c) == IF c.port = AutoPort THEN <<443, 4433>> ELSE <<c.port>>

Init ==
  /\ conf     \in [Shares -> Configs]
  /\ phase    = [s \in Shares |-> "off"]
  /\ trying   = [s \in Shares |-> Candidates(conf[s])]
  /\ edgePort = [s \in Shares |-> 0]
  /\ ip       = [s \in Shares |-> "none"]
  /\ holds    = [s \in Shares |-> {}]
  /\ edge     = [s \in Shares |-> "none"]
  /\ mdns     = [s \in Shares |-> 0]
  /\ lan      = [s \in Shares |-> FALSE]
  /\ told     = [s \in Shares |-> {}]

Goto(s, p) == phase' = [phase EXCEPT ![s] = p]

\* The process is gone, and all that its tasks held.
Exit(s, how) ==
  /\ Goto(s, how)
  /\ holds' = [holds EXCEPT ![s] = {}]
  /\ edge'  = [edge EXCEPT ![s] = IF @ = "none" THEN @ ELSE "stopped"]
  /\ mdns'  = [mdns EXCEPT ![s] = 0]
  /\ UNCHANGED <<conf, trying, edgePort, ip, lan, told>>

\* start_lan_edge returns an error: its listener is dropped and `serve` goes
\* on with the ticket only.  A port-80 helper is a task of its own.
LanEdgeFails(s) ==
  /\ Goto(s, "send")
  /\ holds' = [holds EXCEPT ![s] = @ \ {edgePort[s]}]
  /\ edge'  = [edge EXCEPT ![s] = IF @ = "none" THEN @ ELSE "stopped"]
  /\ UNCHANGED <<conf, trying, edgePort, ip, mdns, lan, told>>

\* Mutant of StepFails: start_lan_edge's error ends serve.
StepExits(s) == Exit(s, "failed")

\* What a failed step means: `?` in open, a warning in serve's LAN part.
StepFails(s) ==
  IF Serves(s) /\ phase[s] \in LanPhases THEN LanEdgeFails(s) ELSE Exit(s, "failed")

\* The step after phase[s] of the command's own order.
Advance(s) ==
  Goto(s, CASE phase[s] = "fileServer" -> "endpoint"
            [] phase[s] = "endpoint"   -> IF Opens(s) THEN "connect"
                                          ELSE IF Local(s) THEN "send" ELSE "lanIps"
            [] phase[s] = "connect"    -> "bind"
            [] phase[s] = "lanIps"     -> "leaf"
            [] phase[s] = "leaf"       -> IF Opens(s) THEN "send" ELSE "bind"
            [] phase[s] = "bind"       -> "helper"
            [] phase[s] = "helper"     -> IF Local(s) THEN "leaf" ELSE "announce"
            [] phase[s] = "announce"   -> IF Opens(s) THEN "leaf" ELSE "send"
            [] phase[s] = "send"       -> "running")
------------------------------------------------------------------------------
\* The file server is for a path; a port needs none.
Start(s) ==
  /\ phase[s] = "off"
  /\ \/ Goto(s, "endpoint")
     \/ Serves(s) /\ Goto(s, "fileServer")
  /\ UNCHANGED <<conf, trying, edgePort, ip, holds, edge, mdns, lan, told>>

\* fileserve::serve, the iroh endpoint, connect, lan_ips, server_config: they
\* succeed, and leave nothing this module keeps.
Prepare(s) ==
  /\ phase[s] \in {"fileServer", "endpoint", "connect", "lanIps", "leaf"}
  /\ Advance(s)
  /\ UNCHANGED <<conf, trying, edgePort, ip, holds, edge, mdns, lan, told>>

PrepareFails(s) ==
  /\ phase[s] \in {"fileServer", "endpoint", "connect", "lanIps", "leaf"}
  /\ StepFails(s)

\* Mutant of BindIp: local_only is not asked.
BindIpAny(s) == "UNSPECIFIED"

\* The address a share's edge and helper listen on.
BindIp(s) == IF Opens(s) /\ Local(s) THEN "LOCALHOST" ELSE "UNSPECIFIED"

\* edge::bind, one candidate at a time.
Bind(s) ==
  /\ phase[s] = "bind"
  /\ trying[s] # <<>>
  /\ Free(BindIp(s), Head(trying[s]))
  /\ edgePort' = [edgePort EXCEPT ![s] = Head(trying[s])]
  /\ ip'       = [ip EXCEPT ![s] = BindIp(s)]
  /\ holds'    = [holds EXCEPT ![s] = @ \cup {Head(trying[s])}]
  /\ edge'     = [edge EXCEPT ![s] = "bound"]
  /\ Advance(s)
  /\ UNCHANGED <<conf, trying, mdns, lan, told>>

\* Mutant of BindRefused: the same port is tried again.
BindRetries(s) ==
  /\ phase[s] = "bind"
  /\ trying[s] # <<>>
  /\ UNCHANGED vars

\* Mutant of BindRefused: a port that is taken is tried again later.
BindRotates(s) ==
  /\ phase[s] = "bind"
  /\ trying[s] # <<>>
  /\ trying' = [trying EXCEPT ![s] = Append(Tail(@), Head(@))]
  /\ UNCHANGED <<conf, phase, edgePort, ip, holds, edge, mdns, lan, told>>

\* The port is taken, or the process may not have it.
BindRefused(s) ==
  /\ phase[s] = "bind"
  /\ trying[s] # <<>>
  /\ trying' = [trying EXCEPT ![s] = Tail(@)]
  /\ UNCHANGED <<conf, phase, edgePort, ip, holds, edge, mdns, lan, told>>

BindFails(s) ==
  /\ phase[s] = "bind"
  /\ trying[s] = <<>>
  /\ StepFails(s)

\* An edge on 443 also answers on port 80, if that can be bound.
SpawnHelper(s) ==
  /\ phase[s] = "helper"
  /\ edgePort[s] = 443 /\ ~Local(s)
  /\ Free(ip[s], HelperPort)
  /\ holds' = [holds EXCEPT ![s] = @ \cup {HelperPort}]
  /\ Advance(s)
  /\ UNCHANGED <<conf, trying, edgePort, ip, edge, mdns, lan, told>>

NoHelper(s) ==
  /\ phase[s] = "helper"
  /\ Advance(s)
  /\ UNCHANGED <<conf, trying, edgePort, ip, holds, edge, mdns, lan, told>>

\* mdns::announce; in serve the edge's task is spawned with the guard.
Announce(s) ==
  /\ phase[s] = "announce"
  /\ mdns' = [mdns EXCEPT ![s] = edgePort[s]]
  /\ edge' = [edge EXCEPT ![s] = IF Serves(s) THEN "serving" ELSE @]
  /\ lan'  = [lan EXCEPT ![s] = Serves(s)]
  /\ Advance(s)
  /\ UNCHANGED <<conf, trying, edgePort, ip, holds, told>>

\* Mutant of AnnounceFails: open says nothing of it.
AnnounceFailsQuietly(s) ==
  /\ phase[s] = "announce"
  /\ IF Serves(s)
       THEN LanEdgeFails(s)
       ELSE /\ Advance(s)
            /\ UNCHANGED <<conf, trying, edgePort, ip, holds, edge, mdns, lan, told>>

\* A failed announcement is a warning in open, the end of serve's LAN edge.
AnnounceFails(s) ==
  /\ phase[s] = "announce"
  /\ IF Serves(s)
       THEN LanEdgeFails(s)
       ELSE /\ told' = [told EXCEPT ![s] = @ \cup {"notAnnounced"}]
            /\ Advance(s)
            /\ UNCHANGED <<conf, trying, edgePort, ip, holds, edge, mdns, lan>>

\* What main prints once a share is up.  An open gives its LAN IP in a QR code
\* only, which takes a terminal and a LAN.
ServeLines(s) ==
  {"ticket"} \cup IF lan[s] THEN {"local", "lanIp", "trust"} ELSE {}
OpenLines(s, qr) ==
  {"localhost"} \cup IF Local(s) THEN {}
                     ELSE {"local", "trust"} \cup IF qr THEN {"lanIp"} ELSE {}

\* The channel back to the command, which prints what the share exposes; an
\* open then enters edge::run.
Send(s) ==
  /\ phase[s] = "send"
  /\ \E qr \in BOOLEAN :
       told' = [told EXCEPT ![s] =
                  @ \cup IF Serves(s) THEN ServeLines(s) ELSE OpenLines(s, qr)]
  /\ edge' = [edge EXCEPT ![s] = IF Opens(s) THEN "serving" ELSE @]
  /\ Advance(s)
  /\ UNCHANGED <<conf, trying, edgePort, ip, holds, mdns, lan>>

\* Mutant of EdgeStops: serve, not the edge's task, owns the guard.
EdgeStopsNamed(s) ==
  /\ edge[s] = "serving"
  /\ IF Opens(s)
       THEN Exit(s, "failed")
       ELSE /\ edge'  = [edge EXCEPT ![s] = "stopped"]
            /\ holds' = [holds EXCEPT ![s] = @ \ {edgePort[s]}]
            /\ UNCHANGED <<conf, phase, trying, edgePort, ip, mdns, lan, told>>

\* edge::run returns an accept error.  In serve its task ends, dropping the
\* listener and the guard without an await in between; in open the command
\* ends.
EdgeStops(s) ==
  /\ edge[s] = "serving"
  /\ IF Opens(s)
       THEN Exit(s, "failed")
       ELSE /\ edge'  = [edge EXCEPT ![s] = "stopped"]
            /\ holds' = [holds EXCEPT ![s] = @ \ {edgePort[s]}]
            /\ mdns'  = [mdns EXCEPT ![s] = 0]
            /\ UNCHANGED <<conf, phase, trying, edgePort, ip, lan, told>>

\* The helper's loop breaks on an accept error.
HelperStops(s) ==
  /\ Helper(s)
  /\ holds' = [holds EXCEPT ![s] = @ \ {HelperPort}]
  /\ UNCHANGED <<conf, phase, trying, edgePort, ip, edge, mdns, lan, told>>

\* Ctrl-C.
Interrupt(s) ==
  /\ phase[s] \in Starting \cup {"running"}
  /\ Exit(s, "interrupted")

Startup(s) ==
  \/ Prepare(s) \/ PrepareFails(s) \/ Bind(s) \/ BindRefused(s) \/ BindFails(s)
  \/ SpawnHelper(s) \/ NoHelper(s) \/ Announce(s) \/ AnnounceFails(s) \/ Send(s)

Next == \E s \in Shares :
          Start(s) \/ Startup(s) \/ EdgeStops(s) \/ HelperStops(s) \/ Interrupt(s)

Spec == Init /\ [][Next]_vars

\* A share's own task keeps running.
FairSpec == Spec /\ \A s \in Shares : WF_vars(Startup(s))
------------------------------------------------------------------------------
Ports == {HelperPort, 443, 4433} \cup {c.port : c \in Configs}

TypeOK ==
  /\ conf     \in [Shares -> Configs]
  /\ phase    \in [Shares -> Phases]
  /\ trying   \in [Shares -> Seq(Ports)]
  /\ edgePort \in [Shares -> Ports \cup {0}]
  /\ ip       \in [Shares -> {"none", "LOCALHOST", "UNSPECIFIED"}]
  /\ holds    \in [Shares -> SUBSET Ports]
  /\ edge     \in [Shares -> {"none", "bound", "serving", "stopped"}]
  /\ mdns     \in [Shares -> Ports \cup {0}]
  /\ lan      \in [Shares -> BOOLEAN]
  /\ told     \in [Shares -> SUBSET Lines]

\* "The mDNS registration lives exactly as long as the edge": a name that is
\* announced leads to a port its own share listens on, and the LAN edge of a
\* serve is announced while it runs.
NameLivesWithEdge ==
  \A s \in Shares :
    /\ mdns[s] # 0 => mdns[s] = edgePort[s] /\ edgePort[s] \in holds[s]
    /\ Serves(s) => (edge[s] = "serving" <=> mdns[s] # 0)

\* --local-only exposes nothing to the LAN, on any path through startup: no
\* name, no port that the LAN can reach, no port-80 helper, no URL for other
\* devices, and for a serve no listener at all.
LocalOnlyStaysLocal ==
  \A s \in Shares :
    Local(s) => /\ mdns[s] = 0
                /\ Reachable(s) = {}
                /\ ~Helper(s)
                /\ told[s] \cap {"local", "lanIp", "trust"} = {}
                /\ Serves(s) => holds[s] = {}

\* Where a printed URL leads: a listener for who is to use it, found by name
\* where it has one.  The trust URL elides the port of an edge on 443 as the
\* others do, and http without a port is port 80.
Leads(s, line) ==
  CASE line = "localhost" -> edgePort[s] \in holds[s]
    [] line = "lanIp"     -> edgePort[s] \in Reachable(s)
    [] line = "local"     -> mdns[s] = edgePort[s] /\ edgePort[s] \in Reachable(s)
    [] line = "trust"     ->
         /\ mdns[s] = edgePort[s]
         /\ (IF edgePort[s] = 443 THEN HelperPort ELSE edgePort[s]) \in Reachable(s)

\* What the command prints is so, with what it has warned of before: until the
\* edge stops each URL of it leads to its listener, but the .local ones after
\* a warning that the name was not announced, and the trust page's of an edge
\* on 443 that got no port-80 helper (or lost it).  A serve that prints no
\* URL, only its ticket, has no edge.
ToldIsTrue ==
  \A s \in Shares :
    /\ \A line \in told[s] \cap Urls :
         edge[s] # "stopped" =>
           \/ Leads(s, line)
           \/ line \in {"local", "trust"} /\ "notAnnounced" \in told[s]
           \/ line = "trust" /\ edgePort[s] = 443 /\ ~Helper(s)
    /\ told[s] \cap Urls # {} => edge[s] \in {"serving", "stopped"}
    /\ "ticket" \in told[s] /\ told[s] \cap Urls = {}
         => mdns[s] = 0 /\ edgePort[s] \notin holds[s]

\* "LAN exposure failed; continuing with ticket only": nothing that goes
\* wrong with the LAN edge ends a serve.
LanFailureKeepsTicket ==
  [][\A s \in Shares :
       Serves(s) /\ phase[s] \in LanPhases \cup {"send", "running"}
         => phase'[s] # "failed"]_vars

\* Where a share stands in its own order of steps, counted from the end.
StepsLeft(s) ==
  CASE phase[s] = "send"       -> 1
    [] phase[s] = "announce"   -> IF Opens(s) THEN 3 ELSE 2
    [] phase[s] = "helper"     -> IF Opens(s) THEN 4 ELSE 3
    [] phase[s] = "bind"       -> IF Opens(s) THEN 5 ELSE 4
    [] phase[s] = "leaf"       -> IF Opens(s) THEN 2 ELSE 5
    [] phase[s] \in {"connect", "lanIps"} -> 6
    [] phase[s] = "endpoint"   -> 7
    [] phase[s] = "fileServer" -> 8

\* Each step of startup brings its end closer, the failed ones too: no command
\* line makes it go back, and bind gives up a port for good.
StartupComesCloser ==
  [][\A s \in Shares : phase[s] \in Starting =>
       \/ phase'[s] \notin Starting
       \/ StepsLeft(s)' < StepsLeft(s)
       \/ phase'[s] = phase[s] /\ Len(trying'[s]) < Len(trying[s])
       \/ phase'[s] = phase[s] /\ trying'[s] = trying[s] /\ ~Startup(s)]_vars

\* A command that was started comes up or gives up, whoever holds the ports.
StartResolves ==
  \A s \in Shares : phase[s] \in Starting ~> phase[s] \in {"running"} \cup Over

\* "When the https edge holds 443, also answer plain http on port 80": the
\* helper is there for an edge of its share.
HelperOnlyWithEdge ==
  \A s \in Shares : Helper(s) => 443 \in holds[s]
==============================================================================
