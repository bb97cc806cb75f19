------------------------------ MODULE FrontDoor ------------------------------
(***************************************************************************)
(* What a connection meets before any request is proxied: edge::run's      *)
(* accept loop and its peek, the TLS acceptor, the router of the reserved  *)
(* /.lclhst routes, serve_plaintext, and the loop of the port-80 helper    *)
(* (edge.rs).                                                              *)
(*                                                                         *)
(* A client sends in segments: `arrived` is how much of its ClientHello or *)
(* of its request's head is here.  The TLS acceptor and hyper put segments *)
(* together; serve_plaintext answers what a single read gave it.  What a   *)
(* browser does with an answer (follow a redirect, go to the printed trust *)
(* URL, download and install the CA, try again) is part of the model: the  *)
(* front door is right if that leads somewhere.                            *)
(***************************************************************************)
EXTENDS Naturals

CONSTANTS Clients,    \* browsers on the network
          EdgePorts,  \* ports an edge may have bound
          Goals       \* paths a user may ask for

HelperPort == 80      \* where an http URL without a port leads
TlsPort    == 443     \* where an https URL without a port leads
Elsewhere  == 0       \* stands for a port or a host that a cut has made

\* Paths, told apart as the two routers do: the CA download, the page, another
\* path under /.lclhst, one of the app's, and one that a cut has left.
Paths == {"ca", "page", "under", "app", "cut"}

ASSUME PortsAssumption == EdgePorts \subseteq 1 .. 65535
ASSUME GoalsAssumption == Goals \subseteq Paths \ {"cut"}

VARIABLES
  edgePort,   \* the port edge::run listens on
  listening,  \* the doors whose accept loop runs: "edge", "helper"
  goal,       \* the path a client's user wants
  url,        \* the URL its browser is at
  via,        \* how it got there: "user", "redirect", or "cut": a redirect
              \* made from less than the request's whole head
  conn,       \* where the task of its connection stands
  arrived,    \* how much of its current message has arrived
  seen,       \* what its browser has been answered
  trusts      \* its device has the CA installed

vars == <<edgePort, listening, goal, url, via, conn, arrived, seen, trusts>>

Nothing == 0
Some    == 1          \* the first segments of it
Whole   == 2          \* all of it, a head's Host line included

Phases  == {"idle", "queued", "peek", "handshake", "read", "serving"}
Answers == {"none", "app", "ca", "page", "redirect", "untrusted", "failed",
            "installed"}
Ports   == EdgePorts \cup {HelperPort, TlsPort, Elsewhere}
Url     == [scheme : {"http", "https"}, port : Ports, path : Paths]

At(scheme, port, path) == [scheme |-> scheme, port |-> port, path |-> path]

\* The door behind a port.
DoorAt(port) == IF port = edgePort THEN "edge" ELSE IF port = HelperPort THEN "helper" ELSE "none"

Door(c) == DoorAt(url[c].port)

Home(c) == At("https", edgePort, goal[c])

\* "trust on a phone": the printed https URL with its "https" made "http", and
\* thus without a port for an edge on 443.
TrustUrl == At("http", IF edgePort = TlsPort THEN HelperPort ELSE edgePort, "page")

Init ==
  /\ edgePort \in EdgePorts
  /\ listening \in {{"edge"}} \cup (IF edgePort = TlsPort THEN {{"edge", "helper"}} ELSE {})
  /\ goal    \in [Clients -> Goals]
  /\ url     = [c \in Clients |-> Home(c)]
  /\ via     = [c \in Clients |-> "user"]
  /\ conn    = [c \in Clients |-> "idle"]
  /\ arrived = [c \in Clients |-> Nothing]
  /\ seen    = [c \in Clients |-> "none"]
  /\ trusts  \in [Clients -> BOOLEAN]
------------------------------------------------------------------------------
(* The edge. *)

\* onboarding_response: exact matches, the rest goes to handle_request.
TlsRoute(path) == IF path \in {"ca", "page"} THEN path ELSE "app"

\* Mutant of PlainRoute: the prefix is tested before the CA's own path.
PlainRoutePrefixFirst(path) ==
  IF path \in {"ca", "page", "under"} THEN "page" ELSE "redirect"

\* serve_plaintext: the CA, then whatever starts with the prefix.
PlainRoute(path) ==
  IF path = "ca" THEN "ca" ELSE IF path \in {"page", "under"} THEN "page" ELSE "redirect"

\* Mutant of PathsRead: a word that is no path passes the filter.
PathsReadUnfiltered(n, path) == {path} \cup (IF n = Whole THEN {} ELSE {"noPath"})

\* The path serve_plaintext may take from what it has read of a head.
PathsRead(n, path) ==
  IF n = Whole THEN {path}
  ELSE {path, "cut"} \cup (IF path \in {"page", "under", "ca"} THEN {"page"} ELSE {})
               \cup (IF path = "ca" THEN {"under"} ELSE {})

\* Mutant of Locations: the Host line's port is dropped.
LocationsPortless(c, n, path) == {At("https", TlsPort, path)}

\* Mutant of Locations: the scheme is the client's own.
LocationsSameScheme(c, n, path) == {At(url[c].scheme, url[c].port, path)}

\* "https://{host}{path}".  The Host line names the client's port unless it is
\* http's own; without one https's own is meant.  Of a head that is not all
\* read the line may be missing, which makes the host <name>.local without a
\* port, or be cut, in the middle of the host or of its port.
Locations(c, n, path) ==
  LET own == IF url[c].port = HelperPort THEN TlsPort ELSE url[c].port
  IN  {At("https", port, path) : port \in IF n = Whole THEN {own} ELSE {own, TlsPort, Elsewhere}}

\* Mutant of Accept: the peek is done in the accept loop.
AcceptInline(c) ==
  /\ conn[c] = "queued"
  /\ Door(c) \in listening
  /\ \A d \in Clients : conn[d] # "peek"
  /\ conn' = [conn EXCEPT ![c] = IF Door(c) = "edge" THEN "peek" ELSE "read"]
  /\ UNCHANGED <<edgePort, listening, goal, url, via, arrived, seen, trusts>>

\* Both accept loops give a connection a task of its own; only the edge peeks.
Accept(c) ==
  /\ conn[c] = "queued"
  /\ Door(c) \in listening
  /\ conn' = [conn EXCEPT ![c] = IF Door(c) = "edge" THEN "peek" ELSE "read"]
  /\ UNCHANGED <<edgePort, listening, goal, url, via, arrived, seen, trusts>>

\* The first byte, left in place, tells a ClientHello from a request.
Peek(c) ==
  /\ conn[c] = "peek"
  /\ arrived[c] > Nothing
  /\ conn' = [conn EXCEPT ![c] = IF url[c].scheme = "https" THEN "handshake" ELSE "read"]
  /\ UNCHANGED <<edgePort, listening, goal, url, via, arrived, seen, trusts>>

Ends(c, answer) ==
  /\ conn' = [conn EXCEPT ![c] = "idle"]
  /\ seen' = [seen EXCEPT ![c] = answer]

\* acceptor.accept: a client that does not know the CA aborts the handshake.
Handshake(c) ==
  /\ conn[c] = "handshake"
  /\ arrived[c] = Whole
  /\ IF trusts[c]
       THEN conn' = [conn EXCEPT ![c] = "serving"] /\ UNCHANGED seen
       ELSE Ends(c, "untrusted")
  /\ arrived' = [arrived EXCEPT ![c] = Nothing]
  /\ UNCHANGED <<edgePort, listening, goal, url, via, trusts>>

\* One request of a TLS connection, which stays open for the next.
Respond(c) ==
  /\ conn[c] = "serving"
  /\ arrived[c] = Whole
  /\ seen'    = [seen EXCEPT ![c] = TlsRoute(url[c].path)]
  /\ arrived' = [arrived EXCEPT ![c] = Nothing]
  /\ UNCHANGED <<edgePort, listening, goal, url, via, conn, trusts>>

\* One read, one answer, and the connection is closed.  What was not read
\* makes the close a reset, which may overtake the answer.
ServePlaintext(c) ==
  /\ conn[c] = "read"
  /\ arrived[c] > Nothing
  /\ \E path \in PathsRead(arrived[c], url[c].path) :
       LET answer == PlainRoute(path) IN
       \/ answer # "redirect" /\ Ends(c, answer) /\ UNCHANGED <<url, via>>
       \/ /\ answer = "redirect" /\ Ends(c, answer)
          /\ via' = [via EXCEPT ![c] = IF arrived[c] = Whole THEN "redirect" ELSE "cut"]
          /\ \E to \in Locations(c, arrived[c], path) : url' = [url EXCEPT ![c] = to]
       \/ arrived[c] < Whole /\ Ends(c, "failed") /\ UNCHANGED <<url, via>>
  /\ arrived' = [arrived EXCEPT ![c] = Nothing]
  /\ UNCHANGED <<edgePort, listening, goal, trusts>>

\* An accept error ends a loop and drops its listener with its backlog; the
\* tasks it has spawned go on.
AcceptFails(door) ==
  /\ door \in listening
  /\ listening' = listening \ {door}
  /\ conn' = [c \in Clients |-> IF conn[c] = "queued" /\ Door(c) = door THEN "idle" ELSE conn[c]]
  /\ seen' = [c \in Clients |-> IF conn[c] = "queued" /\ Door(c) = door THEN "failed" ELSE seen[c]]
  /\ UNCHANGED <<edgePort, goal, url, via, arrived, trusts>>
------------------------------------------------------------------------------
(* The browsers. *)

Connect(c, to, how) ==
  /\ conn[c] = "idle"
  /\ url'     = [url EXCEPT ![c] = to]
  /\ via'     = [via EXCEPT ![c] = how]
  /\ arrived' = [arrived EXCEPT ![c] = Nothing]
  /\ IF DoorAt(to.port) \in listening
       THEN conn' = [conn EXCEPT ![c] = "queued"] /\ seen' = [seen EXCEPT ![c] = "none"]
       ELSE Ends(c, "failed")
  /\ UNCHANGED <<edgePort, listening, goal, trusts>>

\* The user types an address: https, or plain http to either door.
Visit(c) ==
  /\ seen[c] \notin {"redirect", "untrusted", "ca", "installed"}
  /\ \/ \E scheme \in {"http", "https"} : Connect(c, At(scheme, edgePort, goal[c]), "user")
     \/ Connect(c, At("http", HelperPort, goal[c]), "user")

FollowRedirect(c) == seen[c] = "redirect" /\ Connect(c, url[c], via[c])

\* A device that meets the warning, or no door at all, is taken to the trust
\* URL, and from the page by its link to the CA at the page's own address.
Onboard(c) ==
  /\ ~trusts[c]
  /\ \/ seen[c] \in {"untrusted", "failed"} /\ Connect(c, TrustUrl, "user")
     \/ seen[c] = "page" /\ Connect(c, At(url[c].scheme, url[c].port, "ca"), "user")

Install(c) ==
  /\ conn[c] = "idle" /\ seen[c] = "ca"
  /\ trusts' = [trusts EXCEPT ![c] = TRUE]
  /\ seen'   = [seen EXCEPT ![c] = "installed"]
  /\ UNCHANGED <<edgePort, listening, goal, url, via, conn, arrived>>

\* With the CA installed the user goes back to what was wanted.
Return(c) ==
  /\ trusts[c] /\ seen[c] \notin {"none", "redirect", "ca"}
  /\ Connect(c, Home(c), "user")

\* Another request on the same TLS connection.
Ask(c, path) ==
  /\ conn[c] = "serving" /\ seen[c] # "none"
  /\ url'  = [url EXCEPT ![c].path = path]
  /\ goal' = [goal EXCEPT ![c] = path]
  /\ seen' = [seen EXCEPT ![c] = "none"]
  /\ via'  = [via EXCEPT ![c] = "user"]
  /\ UNCHANGED <<edgePort, listening, conn, arrived, trusts>>

Reuse(c) == \E path \in Goals : Ask(c, path)

\* A user who was led to a path that a cut has left asks for the right one.
Correct(c) == url[c].path # goal[c] /\ Ask(c, goal[c])

Sending(c) ==
  /\ conn[c] # "idle"
  /\ conn[c] = "serving" => seen[c] = "none"

\* Segments of a ClientHello or of a request's head arrive, one or several.
Arrive(c) ==
  /\ Sending(c)
  /\ \E n \in arrived[c] + 1 .. Whole : arrived' = [arrived EXCEPT ![c] = n]
  /\ UNCHANGED <<edgePort, listening, goal, url, via, conn, seen, trusts>>

\* The client closes.  Every phase of the task ends on it: the peek with
\* Ok(0), the handshake with an error, hyper with the connection's end.
Leave(c) ==
  /\ conn[c] # "idle"
  /\ Ends(c, IF seen[c] = "none" THEN "failed" ELSE seen[c])
  /\ arrived' = [arrived EXCEPT ![c] = Nothing]
  /\ UNCHANGED <<edgePort, listening, goal, url, via, trusts>>

Serve(c)  == Accept(c) \/ Peek(c) \/ Handshake(c) \/ Respond(c) \/ ServePlaintext(c)
Follow(c) == FollowRedirect(c) \/ Onboard(c) \/ Install(c) \/ Return(c) \/ Correct(c)

Next ==
  \/ \E c \in Clients : Serve(c) \/ Follow(c) \/ Visit(c) \/ Reuse(c) \/ Arrive(c) \/ Leave(c)
  \/ \E door \in {"edge", "helper"} : AcceptFails(door)

Spec == Init /\ [][Next]_vars

\* The accept loops and the tasks they spawn are run; clients may fall silent.
FairSpec == Spec /\ \A c \in Clients : WF_vars(Serve(c))
------------------------------------------------------------------------------
TypeOK ==
  /\ edgePort  \in EdgePorts
  /\ listening \subseteq {"edge", "helper"}
  /\ goal    \in [Clients -> Goals]
  /\ url     \in [Clients -> Url]
  /\ via     \in [Clients -> {"user", "redirect", "cut"}]
  /\ conn    \in [Clients -> Phases]
  /\ arrived \in [Clients -> Nothing .. Whole]
  /\ seen    \in [Clients -> Answers]
  /\ trusts  \in [Clients -> BOOLEAN]

\* "Preserve whatever host:port the client used; it serves https too": a
\* browser redirected from a head that was read whole has an https URL with
\* the path its user wanted, at the port of this edge, whichever door it came
\* through.  An edge on 80 is the exception: its clients name no port, and
\* what they are sent to is 443.
RedirectLeadsHome ==
  \A c \in Clients :
    via[c] = "redirect" =>
      url[c] = [Home(c) EXCEPT !.port = IF edgePort = HelperPort THEN TlsPort ELSE @]

\* A redirect is only ever the answer to an address that a user has typed, or
\* reached by a link: wherever a redirect leads, one made from a cut head
\* included, the browser that follows it is not redirected again.
NoRedirectLoop ==
  [][\A c \in Clients : seen[c] # "redirect" /\ seen'[c] = "redirect" => via[c] = "user"]_vars

\* Whoever has sent its ClientHello or request is answered, whatever the other
\* clients do: one that connects and says nothing holds up nobody.  (With
\* `arrived` back at nothing a handshake has succeeded.)
EveryoneAnswered ==
  \A c \in Clients :
    (conn[c] # "idle" /\ arrived[c] = Whole) ~> (seen[c] # "none" \/ arrived[c] = Nothing)

\* The user goes elsewhere or gives a request up, or the network cuts a head
\* where serve_plaintext's one read ends.
Strays(c) == Visit(c) \/ Leave(c) \/ (ServePlaintext(c) /\ arrived[c] < Whole)

\* What a client sends arrives, the user does the next thing, and there is an
\* end to straying.
Persists(c) ==
  WF_vars(Arrive(c)) /\ WF_vars(Follow(c)) /\ <>[][~Strays(c)]_vars

\* "A device can't fetch the CA over https before trusting it": one that
\* meets the warning and does what it is told to ends with its request on a
\* trusted TLS connection, over any resets, cut heads and wrong turns on the
\* way, as long as the edge and the printed trust URL have a door.  An edge on
\* 443 whose helper could not bind port 80 has none at that URL.
OnboardingCompletes ==
  \A c \in Clients :
    Persists(c) =>
      (seen[c] = "untrusted" ~>
         \/ conn[c] = "serving" /\ url[c].path = goal[c]
         \/ ~({"edge", DoorAt(TrustUrl.port)} \subseteq listening))
==============================================================================
