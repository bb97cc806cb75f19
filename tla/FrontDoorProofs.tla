---------------------------- MODULE FrontDoorProofs ----------------------------
(***************************************************************************)
(* Proofs about FrontDoor: types, and that a redirect made from a whole    *)
(* head leads to the https side of the edge that made it, if that is not   *)
(* on 80, for any number of clients and any ports an edge may bind.        *)
(***************************************************************************)
EXTENDS FrontDoor, TLAPS

LEMMA UrlType ==
  ASSUME NEW scheme \in {"http", "https"}, NEW port \in Ports, NEW path \in Paths
  PROVE  /\ At(scheme, port, path) \in Url
         /\ At(scheme, port, path).scheme = scheme
         /\ At(scheme, port, path).port = port
         /\ At(scheme, port, path).path = path
BY DEF At, Url

LEMMA GoalIsPath == Goals \subseteq Paths
BY GoalsAssumption

LEMMA HomeAndTrust ==
  ASSUME edgePort \in EdgePorts, NEW c \in Clients, goal \in [Clients -> Goals]
  PROVE  Home(c) \in Url /\ TrustUrl \in Url
<1>1. goal[c] \in Paths /\ "page" \in Paths
  BY GoalIsPath DEF Paths
<1>2. {edgePort, HelperPort, TlsPort} \subseteq Ports
  BY DEF Ports
<1>3. QED BY <1>1, <1>2, UrlType DEF Home, TrustUrl

LEMMA TypesInit == Init => TypeOK
<1> SUFFICES ASSUME Init PROVE TypeOK
  OBVIOUS
<1>1. url \in [Clients -> Url]
  BY HomeAndTrust DEF Init
<1>2. QED BY <1>1 DEF Init, TypeOK, Nothing, Whole, Phases, Answers

LEMMA EndsType ==
  ASSUME TypeOK, NEW c \in Clients, NEW answer \in Answers, Ends(c, answer)
  PROVE  conn' \in [Clients -> Phases] /\ seen' \in [Clients -> Answers]
BY DEF Ends, TypeOK, Phases

LEMMA ConnectType ==
  ASSUME TypeOK, NEW c \in Clients, NEW to \in Url,
         NEW how \in {"user", "redirect", "cut"}, Connect(c, to, how)
  PROVE  TypeOK'
<1>1. conn' \in [Clients -> Phases] /\ seen' \in [Clients -> Answers]
  BY EndsType DEF Connect, TypeOK, Phases, Answers
<1>2. /\ url' = [url EXCEPT ![c] = to] /\ via' = [via EXCEPT ![c] = how]
      /\ arrived' = [arrived EXCEPT ![c] = Nothing]
      /\ UNCHANGED <<edgePort, listening, goal, trusts>>
  BY DEF Connect
<1>3. QED BY <1>1, <1>2 DEF TypeOK, Nothing, Whole

LEMMA ReadPaths ==
  ASSUME NEW n \in Nothing .. Whole, NEW path \in Paths
  PROVE  PathsRead(n, path) \subseteq Paths
BY DEF PathsRead, Paths

LEMMA ServePlaintextType ==
  ASSUME TypeOK, NEW c \in Clients, ServePlaintext(c)
  PROVE  TypeOK'
<1>1. url[c] \in Url /\ url[c].path \in Paths /\ arrived[c] \in Nothing .. Whole
  BY DEF TypeOK, Url
<1>2. PICK path \in PathsRead(arrived[c], url[c].path) :
        \/ PlainRoute(path) # "redirect" /\ Ends(c, PlainRoute(path)) /\ UNCHANGED <<url, via>>
        \/ /\ PlainRoute(path) = "redirect" /\ Ends(c, PlainRoute(path))
           /\ via' = [via EXCEPT ![c] = IF arrived[c] = Whole THEN "redirect" ELSE "cut"]
           /\ \E to \in Locations(c, arrived[c], path) : url' = [url EXCEPT ![c] = to]
        \/ arrived[c] < Whole /\ Ends(c, "failed") /\ UNCHANGED <<url, via>>
  BY DEF ServePlaintext
<1>3. path \in Paths
  BY <1>1, ReadPaths
<1>4. PlainRoute(path) \in Answers /\ "failed" \in Answers
  BY DEF PlainRoute, Answers
<1>5. conn' \in [Clients -> Phases] /\ seen' \in [Clients -> Answers]
  BY <1>2, <1>4, EndsType
<1>6. Locations(c, arrived[c], path) \subseteq Url
  <2>1. {url[c].port, TlsPort, Elsewhere} \subseteq Ports
    BY <1>1 DEF Url, Ports
  <2>2. QED BY <1>3, <2>1, UrlType DEF Locations
<1>7. url' \in [Clients -> Url] /\ via' \in [Clients -> {"user", "redirect", "cut"}]
  BY <1>2, <1>6 DEF TypeOK
<1>8. /\ arrived' = [arrived EXCEPT ![c] = Nothing]
      /\ UNCHANGED <<edgePort, listening, goal, trusts>>
  BY DEF ServePlaintext
<1>9. QED BY <1>5, <1>7, <1>8 DEF TypeOK, Nothing, Whole

LEMMA AskType ==
  ASSUME TypeOK, NEW c \in Clients, NEW path \in Goals, Ask(c, path)
  PROVE  TypeOK'
<1>1. [url[c] EXCEPT !.path = path] \in Url
  BY GoalIsPath DEF TypeOK, Url
<1>2. url' \in [Clients -> Url] /\ goal' \in [Clients -> Goals]
  BY <1>1 DEF Ask, TypeOK
<1>3. QED BY <1>2 DEF Ask, TypeOK, Answers

LEMMA TypesStep == TypeOK /\ [Next]_vars => TypeOK'
<1> SUFFICES ASSUME TypeOK, [Next]_vars PROVE TypeOK'
  OBVIOUS
<1>1. CASE UNCHANGED vars
  BY <1>1 DEF vars, TypeOK
<1>2. ASSUME NEW c \in Clients, Accept(c) \/ Peek(c) PROVE TypeOK'
  BY <1>2 DEF Accept, Peek, TypeOK, Phases
<1>3. ASSUME NEW c \in Clients, Handshake(c) PROVE TypeOK'
  BY <1>3 DEF Handshake, Ends, TypeOK, Phases, Answers, Nothing, Whole
<1>4. ASSUME NEW c \in Clients, Respond(c) PROVE TypeOK'
  BY <1>4 DEF Respond, TlsRoute, TypeOK, Answers, Nothing, Whole
<1>5. ASSUME NEW c \in Clients, Visit(c) PROVE TypeOK'
  <2>1. edgePort \in Ports /\ HelperPort \in Ports /\ goal[c] \in Paths
    BY GoalIsPath DEF TypeOK, Ports
  <2>2. QED BY <1>5, <2>1, UrlType, ConnectType DEF Visit
<1>6. ASSUME NEW c \in Clients, FollowRedirect(c) \/ Return(c) PROVE TypeOK'
  BY <1>6, HomeAndTrust, ConnectType DEF FollowRedirect, Return, TypeOK
<1>7. ASSUME NEW c \in Clients, Onboard(c) PROVE TypeOK'
  <2>1. url[c].scheme \in {"http", "https"} /\ url[c].port \in Ports /\ "ca" \in Paths
    BY DEF TypeOK, Url, Paths
  <2>2. QED BY <1>7, <2>1, UrlType, HomeAndTrust, ConnectType DEF Onboard, TypeOK
<1>8. ASSUME NEW c \in Clients, Install(c) PROVE TypeOK'
  BY <1>8 DEF Install, TypeOK, Answers
<1>9. ASSUME NEW c \in Clients, Reuse(c) \/ Correct(c) PROVE TypeOK'
  BY <1>9, AskType DEF Reuse, Correct, TypeOK
<1>10. ASSUME NEW c \in Clients, Arrive(c) PROVE TypeOK'
  BY <1>10 DEF Arrive, TypeOK, Nothing, Whole
<1>11. ASSUME NEW c \in Clients, Leave(c) PROVE TypeOK'
  BY <1>11, EndsType DEF Leave, TypeOK, Answers, Nothing, Whole
<1>12. ASSUME NEW door \in {"edge", "helper"}, AcceptFails(door) PROVE TypeOK'
  BY <1>12 DEF AcceptFails, TypeOK, Phases, Answers
<1>13. QED
  BY <1>1, <1>2, <1>3, <1>4, <1>5, <1>6, <1>7, <1>8, <1>9, <1>10, <1>11, <1>12,
     ServePlaintextType
  DEF Next, Serve, Follow

\* Types, for any clients and ports.
THEOREM FrontDoorTypes == Spec => []TypeOK
BY TypesInit, TypesStep, PTL DEF Spec
------------------------------------------------------------------------------
(***************************************************************************)
(* The inductive invariant.  A connection is at one of the two doors, and  *)
(* at the helper's only if the edge is on 443; no https URL has port 80    *)
(* unless the edge is there itself, so whoever is read as plaintext came   *)
(* with http; and with http a browser asks for what its user wants, or for *)
(* the page or the CA, which are never redirected.  A browser under way on *)
(* a redirect's URL is under way with https.                               *)
(***************************************************************************)

HelperInv == "helper" \in listening => edgePort = TlsPort

DoorInv(c) ==
  /\ conn[c] # "idle" => \/ url[c].port = edgePort
                         \/ url[c].port = HelperPort /\ edgePort = TlsPort
  /\ url[c].scheme = "https" /\ url[c].port = HelperPort => edgePort = HelperPort
  /\ conn[c] = "read" => url[c].scheme = "http"

\* Where a redirect that was made from a whole head leads.
Target(c) == [Home(c) EXCEPT !.port = IF edgePort = HelperPort THEN TlsPort ELSE @]

PathInv(c) ==
  /\ url[c].scheme = "http" => url[c].path \in {goal[c], "ca", "page"}
  /\ via[c] = "redirect" => url[c] = Target(c)

LoopInv(c) ==
  /\ seen[c] = "redirect" => url[c].scheme = "https"
  /\ conn[c] # "idle" /\ via[c] # "user" => url[c].scheme = "https"

DoorsInv == HelperInv /\ \A c \in Clients : DoorInv(c) /\ PathInv(c) /\ LoopInv(c)

\* A step of client c changes nothing of another's.
LeavesOthers(c) ==
  /\ UNCHANGED <<edgePort, listening>>
  /\ \A d \in Clients \ {c} :
       /\ goal'[d] = goal[d] /\ url'[d] = url[d] /\ via'[d] = via[d]
       /\ conn'[d] = conn[d] /\ seen'[d] = seen[d]

LEMMA OthersKeep ==
  ASSUME NEW c \in Clients, DoorsInv, LeavesOthers(c), DoorInv(c)', PathInv(c)', LoopInv(c)'
  PROVE  DoorsInv'
<1>1. HelperInv'
  BY DEF DoorsInv, HelperInv, LeavesOthers
<1>2. ASSUME NEW d \in Clients, d # c PROVE DoorInv(d)' /\ PathInv(d)' /\ LoopInv(d)'
  <2>1. DoorInv(d) /\ PathInv(d) /\ LoopInv(d)
    BY DEF DoorsInv
  <2>2. QED BY <1>2, <2>1 DEF LeavesOthers, DoorInv, PathInv, LoopInv, Target, Home
<1>3. QED BY <1>1, <1>2 DEF DoorsInv

LEMMA DoorsInvInit == Init => DoorsInv
<1> SUFFICES ASSUME Init PROVE DoorsInv
  OBVIOUS
<1>1. HelperInv
  BY DEF Init, HelperInv
<1>2. ASSUME NEW c \in Clients PROVE DoorInv(c) /\ PathInv(c) /\ LoopInv(c)
  <2>1. /\ url[c] = Home(c) /\ conn[c] = "idle" /\ via[c] = "user" /\ seen[c] = "none"
    BY <1>2 DEF Init
  <2>2. QED BY <2>1 DEF DoorInv, PathInv, LoopInv, Home, At
<1>3. QED BY <1>1, <1>2 DEF DoorsInv

\* What a connection that has come through a door says of its URL.
LEMMA OpenDoor ==
  ASSUME NEW port \in Ports, DoorAt(port) \in listening, HelperInv, listening \subseteq {"edge", "helper"}
  PROVE  port = edgePort \/ (port = HelperPort /\ edgePort = TlsPort)
BY DEF DoorAt, HelperInv

LEMMA ConnectKeeps ==
  ASSUME TypeOK, DoorsInv, NEW c \in Clients, NEW to \in Url,
         NEW how \in {"user", "redirect", "cut"}, Connect(c, to, how),
         to.scheme = "https" /\ to.port = HelperPort => edgePort = HelperPort,
         to.scheme = "http" => to.path \in {goal[c], "ca", "page"},
         how = "redirect" => to = Target(c),
         how # "user" => to.scheme = "https"
  PROVE  DoorsInv'
<1>1. LeavesOthers(c)
  BY DEF Connect, Ends, LeavesOthers, TypeOK
<1>2. /\ url'[c] = to /\ via'[c] = how /\ goal'[c] = goal[c] /\ edgePort' = edgePort
      /\ conn'[c] = "idle" \/ (conn'[c] = "queued" /\ DoorAt(to.port) \in listening)
  BY DEF Connect, Ends, TypeOK
<1>3. HelperInv /\ listening \subseteq {"edge", "helper"} /\ to.port \in Ports
  BY DEF DoorsInv, TypeOK, Url
<1>4. DoorInv(c)'
  BY <1>2, <1>3, OpenDoor DEF DoorInv
<1>5. PathInv(c)'
  BY <1>2 DEF PathInv, Target, Home
<1>6. LoopInv(c)'
  <2>1. seen'[c] \in {"none", "failed"}
    BY DEF Connect, Ends, TypeOK
  <2>2. QED BY <1>2, <2>1 DEF LoopInv
<1>7. QED BY <1>1, <1>4, <1>5, <1>6, OthersKeep

LEMMA ServePlaintextKeeps ==
  ASSUME TypeOK, DoorsInv, NEW c \in Clients, ServePlaintext(c)
  PROVE  DoorsInv'
<1>1. LeavesOthers(c)
  BY DEF ServePlaintext, Ends, LeavesOthers, TypeOK
<1>2. /\ conn[c] = "read" /\ conn'[c] = "idle" /\ goal'[c] = goal[c] /\ edgePort' = edgePort
      /\ url[c] \in Url /\ arrived[c] \in Nothing .. Whole
  BY DEF ServePlaintext, Ends, TypeOK
<1>3. DoorInv(c) /\ PathInv(c) /\ LoopInv(c)
  BY DEF DoorsInv
<1>4. ASSUME UNCHANGED <<url, via>>, seen'[c] # "redirect"
      PROVE  DoorInv(c)' /\ PathInv(c)' /\ LoopInv(c)'
  BY <1>2, <1>3, <1>4 DEF DoorInv, PathInv, LoopInv, Target, Home
<1>5. ASSUME NEW path \in PathsRead(arrived[c], url[c].path), PlainRoute(path) = "redirect",
             NEW to \in Locations(c, arrived[c], path), url'[c] = to,
             via'[c] = (IF arrived[c] = Whole THEN "redirect" ELSE "cut")
      PROVE  DoorInv(c)' /\ PathInv(c)' /\ LoopInv(c)'
  <2> DEFINE own == IF url[c].port = HelperPort THEN TlsPort ELSE url[c].port
  <2>1. PICK port \in {own, TlsPort, Elsewhere} :
          to = At("https", port, path) /\ (arrived[c] = Whole => port = own)
    BY <1>5 DEF Locations
  <2>2. to.scheme = "https" /\ to.port # HelperPort
    BY <2>1 DEF At, HelperPort, TlsPort, Elsewhere
  <2>3. DoorInv(c)' /\ LoopInv(c)'
    BY <1>2, <1>5, <2>2 DEF DoorInv, LoopInv
  <2>4. CASE arrived[c] # Whole
    BY <1>5, <2>2, <2>3, <2>4 DEF PathInv
  <2>5. CASE arrived[c] = Whole
    <3>1. path = url[c].path
      BY <1>5, <2>5 DEF PathsRead
    <3>2. path = goal[c]
      BY <1>2, <1>3, <1>5, <3>1 DEF DoorInv, PathInv, PlainRoute
    <3>3. own = (IF edgePort = HelperPort THEN TlsPort ELSE edgePort)
      BY <1>2, <1>3 DEF DoorInv, HelperPort, TlsPort
    <3>4. to = Target(c)
      BY <2>1, <2>5, <3>2, <3>3 DEF Target, Home, At
    <3>5. Target(c)' = Target(c)
      BY <1>2 DEF Target, Home
    <3>6. QED BY <1>5, <2>2, <2>3, <3>4, <3>5 DEF PathInv
  <2>6. QED BY <2>4, <2>5
<1>6. \/ UNCHANGED <<url, via>> /\ seen'[c] # "redirect"
      \/ \E path \in PathsRead(arrived[c], url[c].path) :
           /\ PlainRoute(path) = "redirect"
           /\ \E to \in Locations(c, arrived[c], path) : url'[c] = to
           /\ via'[c] = (IF arrived[c] = Whole THEN "redirect" ELSE "cut")
  BY DEF ServePlaintext, Ends, TypeOK
<1>7. QED BY <1>1, <1>4, <1>5, <1>6, OthersKeep

LEMMA AskKeeps ==
  ASSUME TypeOK, DoorsInv, NEW c \in Clients, NEW path \in Goals, Ask(c, path)
  PROVE  DoorsInv'
<1>1. LeavesOthers(c)
  BY DEF Ask, LeavesOthers, TypeOK
<1>2. /\ url'[c].scheme = url[c].scheme /\ url'[c].port = url[c].port
      /\ url'[c].path = path /\ goal'[c] = path
  BY DEF Ask, TypeOK, Url
<1>3. via'[c] = "user" /\ seen'[c] = "none" /\ UNCHANGED <<edgePort, conn>>
  BY DEF Ask, TypeOK
<1>4. DoorInv(c)
  BY DEF DoorsInv
<1>5. DoorInv(c)' /\ PathInv(c)' /\ LoopInv(c)'
  BY <1>2, <1>3, <1>4 DEF DoorInv, PathInv, LoopInv
<1>6. QED BY <1>1, <1>5, OthersKeep

LEMMA DoorsInvStep == TypeOK /\ DoorsInv /\ [Next]_vars => DoorsInv'
<1> SUFFICES ASSUME TypeOK, DoorsInv, [Next]_vars PROVE DoorsInv'
  OBVIOUS
<1>1. CASE UNCHANGED vars
  BY <1>1 DEF vars, DoorsInv, HelperInv, DoorInv, PathInv, LoopInv, Target, Home
<1>2. ASSUME NEW c \in Clients, Accept(c) \/ Peek(c) PROVE DoorsInv'
  <2>1. LeavesOthers(c)
    BY <1>2 DEF Accept, Peek, LeavesOthers, TypeOK
  <2>2. /\ UNCHANGED <<edgePort, goal, url, via, seen>> /\ conn[c] # "idle"
        /\ conn'[c] = "read" => (Door(c) = "helper" \/ url[c].scheme # "https")
    BY <1>2 DEF Accept, Peek, TypeOK
  <2>3. DoorInv(c) /\ PathInv(c) /\ LoopInv(c) /\ url[c].scheme \in {"http", "https"}
    BY DEF DoorsInv, TypeOK, Url
  <2>4. Door(c) = "helper" => url[c].port # edgePort /\ url[c].port = HelperPort
    BY DEF Door, DoorAt
  <2>5. DoorInv(c)' /\ PathInv(c)' /\ LoopInv(c)'
    BY <2>2, <2>3, <2>4 DEF DoorInv, PathInv, LoopInv, Target, Home
  <2>6. QED BY <2>1, <2>5, OthersKeep
<1>3. ASSUME NEW c \in Clients, Handshake(c) \/ Respond(c) \/ Arrive(c) \/ Leave(c)
      PROVE  DoorsInv'
  <2>1. LeavesOthers(c)
    BY <1>3 DEF Handshake, Respond, Arrive, Leave, Ends, LeavesOthers, TypeOK
  <2>2. /\ UNCHANGED <<edgePort, goal, url, via>>
        /\ \/ conn'[c] \in {"idle", conn[c]}
           \/ conn'[c] = "serving" /\ conn[c] # "idle"
        /\ seen'[c] = "redirect" => seen[c] = "redirect"
    BY <1>3 DEF Handshake, Respond, Arrive, Leave, Ends, TlsRoute, TypeOK
  <2>3. DoorInv(c) /\ PathInv(c) /\ LoopInv(c)
    BY DEF DoorsInv
  <2>4. DoorInv(c)' /\ PathInv(c)' /\ LoopInv(c)'
    BY <2>2, <2>3 DEF DoorInv, PathInv, LoopInv, Target, Home
  <2>5. QED BY <2>1, <2>4, OthersKeep
<1>4. ASSUME NEW c \in Clients, Visit(c) PROVE DoorsInv'
  <2>1. edgePort \in Ports /\ HelperPort \in Ports /\ goal[c] \in Paths
    BY GoalIsPath DEF TypeOK, Ports
  <2>2. QED BY <1>4, <2>1, UrlType, ConnectKeeps DEF Visit
<1>5. ASSUME NEW c \in Clients, FollowRedirect(c) \/ Return(c) PROVE DoorsInv'
  <2>1. /\ DoorInv(c) /\ PathInv(c) /\ LoopInv(c) /\ url[c] \in Url
        /\ via[c] \in {"user", "redirect", "cut"} /\ Home(c) \in Url
    BY HomeAndTrust DEF DoorsInv, TypeOK
  <2>2. CASE FollowRedirect(c)
    BY <2>1, <2>2, ConnectKeeps DEF FollowRedirect, DoorInv, PathInv, LoopInv
  <2>3. CASE Return(c)
    <3>1. Home(c).scheme = "https" /\ Home(c).port = edgePort
      BY DEF Home, At
    <3>2. QED BY <2>1, <2>3, <3>1, ConnectKeeps DEF Return
  <2>4. QED BY <1>5, <2>2, <2>3
<1>6. ASSUME NEW c \in Clients, Onboard(c) PROVE DoorsInv'
  <2>1. CASE Connect(c, TrustUrl, "user")
    <3>1. TrustUrl \in Url /\ TrustUrl.scheme = "http" /\ TrustUrl.path = "page"
      BY HomeAndTrust DEF TypeOK, TrustUrl, At
    <3>2. QED BY <2>1, <3>1, ConnectKeeps
  <2>2. CASE Connect(c, At(url[c].scheme, url[c].port, "ca"), "user")
    <3>1. /\ url[c].scheme \in {"http", "https"} /\ url[c].port \in Ports /\ "ca" \in Paths
          /\ DoorInv(c)
      BY DEF TypeOK, Url, Paths, DoorsInv
    <3>2. QED BY <2>2, <3>1, UrlType, ConnectKeeps DEF DoorInv
  <2>3. QED BY <1>6, <2>1, <2>2 DEF Onboard
<1>7. ASSUME NEW c \in Clients, Install(c) PROVE DoorsInv'
  <2>1. LeavesOthers(c)
    BY <1>7 DEF Install, LeavesOthers, TypeOK
  <2>2. UNCHANGED <<edgePort, goal, url, via, conn>> /\ seen'[c] = "installed"
    BY <1>7 DEF Install, TypeOK
  <2>3. DoorInv(c) /\ PathInv(c) /\ LoopInv(c)
    BY DEF DoorsInv
  <2>4. DoorInv(c)' /\ PathInv(c)' /\ LoopInv(c)'
    BY <2>2, <2>3 DEF DoorInv, PathInv, LoopInv, Target, Home
  <2>5. QED BY <2>1, <2>4, OthersKeep
<1>8. ASSUME NEW c \in Clients, Reuse(c) \/ Correct(c) PROVE DoorsInv'
  BY <1>8, AskKeeps DEF Reuse, Correct, TypeOK
<1>9. ASSUME NEW door \in {"edge", "helper"}, AcceptFails(door) PROVE DoorsInv'
  <2>1. HelperInv'
    BY <1>9 DEF AcceptFails, DoorsInv, HelperInv
  <2>2. ASSUME NEW c \in Clients PROVE DoorInv(c)' /\ PathInv(c)' /\ LoopInv(c)'
    <3>1. DoorInv(c) /\ PathInv(c) /\ LoopInv(c)
      BY DEF DoorsInv
    <3>2. /\ UNCHANGED <<edgePort, goal, url, via>> /\ conn'[c] \in {"idle", conn[c]}
          /\ seen'[c] \in {"failed", seen[c]}
      BY <1>9 DEF AcceptFails
    <3>3. QED BY <3>1, <3>2 DEF DoorInv, PathInv, LoopInv, Target, Home
  <2>3. QED BY <2>1, <2>2 DEF DoorsInv
<1>10. QED
  BY <1>1, <1>2, <1>3, <1>4, <1>5, <1>6, <1>7, <1>8, <1>9, ServePlaintextKeeps
  DEF Next, Serve, Follow

\* A browser that was redirected from a head read whole has an https URL for
\* the path its user wanted, at the port of this edge, or at 443 if that is 80.
THEOREM RedirectLeads == Spec => []RedirectLeadsHome
<1>1. DoorsInv => RedirectLeadsHome
  BY DEF DoorsInv, PathInv, Target, RedirectLeadsHome
<1>2. QED BY <1>1, TypesInit, TypesStep, DoorsInvInit, DoorsInvStep, PTL DEF Spec

\* Nobody is redirected twice in a row: only a plaintext connection is answered
\* with a redirect, and whoever comes by one comes with https.
THEOREM RedirectsOnce == Spec => NoRedirectLoop
<1>1. TypeOK /\ DoorsInv /\ [Next]_vars
        => [\A c \in Clients : seen[c] # "redirect" /\ seen'[c] = "redirect" => via[c] = "user"]_vars
  <2> SUFFICES ASSUME TypeOK, DoorsInv, Next, NEW c \in Clients,
                      seen[c] # "redirect", seen'[c] = "redirect"
               PROVE  via[c] = "user"
    BY DEF vars
  <2>1. ServePlaintext(c)
    <3>1. ASSUME NEW d \in Clients, NEW to, NEW how, Connect(d, to, how) PROVE FALSE
      BY <3>1 DEF Connect, Ends, TypeOK
    <3>2. ASSUME NEW d \in Clients, Serve(d), ~ServePlaintext(d) PROVE FALSE
      BY <3>2 DEF Serve, Accept, Peek, Handshake, Respond, TlsRoute, Ends, TypeOK
    <3>3. ASSUME NEW d \in Clients, Follow(d) \/ Visit(d), ~Correct(d) PROVE FALSE
      BY <3>1, <3>3 DEF Follow, Visit, FollowRedirect, Onboard, Return, Install, TypeOK
    <3>4. ASSUME NEW d \in Clients, Reuse(d) \/ Correct(d) \/ Arrive(d) \/ Leave(d) PROVE FALSE
      BY <3>4 DEF Reuse, Correct, Ask, Arrive, Leave, Ends, TypeOK
    <3>5. ASSUME NEW door \in {"edge", "helper"}, AcceptFails(door) PROVE FALSE
      BY <3>5 DEF AcceptFails
    <3>6. ASSUME NEW d \in Clients, ServePlaintext(d) PROVE d = c
      BY <3>6 DEF ServePlaintext, Ends, TypeOK
    <3>7. QED BY <3>2, <3>3, <3>4, <3>5, <3>6 DEF Next
  <2>2. conn[c] = "read"
    BY <2>1 DEF ServePlaintext
  <2>3. DoorInv(c) /\ LoopInv(c)
    BY DEF DoorsInv
  <2>4. QED BY <2>2, <2>3 DEF DoorInv, LoopInv
<1>2. QED
  BY <1>1, TypesInit, TypesStep, DoorsInvInit, DoorsInvStep, PTL DEF Spec, NoRedirectLoop
==============================================================================
