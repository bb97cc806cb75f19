# lclhst in TLA+

A verification project for [lclhst](https://github.com/fractalops/lclhst), a
program that shares a local app or a folder with other devices: over a QUIC
tunnel (`lclhst serve` on one machine, `lclhst open <ticket>` on another) and
on the LAN, under HTTPS certificates of a per-machine CA. The modules are
written from the Rust sources in `src/src/`; `PROJECT.json` maps every
definition to the lines it models.

| module | what it is |
| --- | --- |
| `RequestContract` | what the tunnel promises for one HTTP request, abstractly |
| `RequestContractProofs` | what the contract entails for a browser and an app |
| `TunnelStream` | the path of a request, from the edge through the stream to the app; implements the contract |
| `TunnelStreamProofs` | the proofs about `TunnelStream` |
| `CaContract` | what the CA promises, abstractly |
| `CaStore` | the CA's two files and the commands that load, create and install it; implements the contract if a machine's first use is alone |
| `CaStoreProofs` | the proofs about `CaStore`, the refinement among them |
| `ShareLifecycle` | startup and end of `serve` and `open`: ports, helper, mDNS name, what is printed |
| `ShareLifecycleProofs` | the proofs about `ShareLifecycle` |
| `FrontDoor` | what a connection meets before a request is proxied: TLS or plaintext, onboarding, redirects |
| `FrontDoorProofs` | the proofs about `FrontDoor` |
| `DuplexPipe` | what an upgraded connection is to its two ends, abstractly |
| `DuplexPipeProofs` | what the pipe entails for its ends |
| `UpgradeChain` | a websocket through edge, stream and target; implements `DuplexPipe` |
| `UpgradeChainProofs` | the proofs about `UpgradeChain`, the refinement among them |
| `FileServe` | the file server, the tree it shares and a browser that follows its links |
| `FileServeProofs` | the proofs about `FileServe` |
| `MCTunnelStream`, `MCCaStore`, `MCShareLifecycle`, `MCFrontDoor`, `MCUpgradeChain`, `MCFileServe` | the instances TLC checks |

## The system

| component | state it keeps | operations | where it is hard |
| --- | --- | --- | --- |
| edge, request proxy (`edge.rs`, `protocol.rs`) | one QUIC connection; per request a stream and a phase of `handle_request` | `open` (open_bi, hello, status byte) under `OPEN_TIMEOUT`, `proxy` with hyper's client, error pages | the timeout against a late answer; futures dropped at any await; a lost connection |
| target (`target.rs`, `protocol.rs`) | per stream a phase of `handle_stream` | accept_bi, `read_hello`, dial, status byte, `splice` | an edge that has left; an app that comes and goes; another protocol version |
| splice (`splice.rs`) | two concurrent copies | copy, shut the other side down, join | half-closes, one direction failing, one that never ends |
| CA (`ca.rs`, `trust.rs`, `main.rs`) | `rootCA.pem`, `rootCA-key.pem`, the system's trust store | `load_or_create`, `server_config`, `trust::install` | commands at the same time; a command cut short between or inside two writes |
| share lifecycle (`lib.rs`, `edge.rs`, `mdns.rs`, `main.rs`) | listeners, helper task, mDNS guard | `serve`, `open`, `start_lan_edge`, `bind`, `spawn_port_80_helper`, Ctrl-C | a step that fails after others have left something behind; two shares and one set of ports |
| front door (`edge.rs`) | two accept loops, a task per connection | peek, TLS or plaintext, onboarding pages, redirect | one read for a whole head; silent clients; two ports and a fallback |
| websocket upgrade (`edge.rs`) | two upgraded connections | `try_join!`, `copy_bidirectional` | one upgrade failing; chained with `splice`, which ends differently |
| file server (`fileserve.rs`) | none of its own; the shared tree is its user's | `resolve`, `listing`, `handle` | the tree changes between two calls |
| ticket, target parsing, endpoints, command line | none | conversions, configuration | |

They interact so: a browser's request reaches an edge; `open`'s edge opens a
QUIC stream for it, and the target of the serving machine answers that stream
by dialling the app. `serve`'s own LAN edge dials the app directly. Both edges
take their certificate from the machine's CA. The state shared between
processes is the config directory, the trust store, the machine's ports and the
network's names.

### What makes each part correct

- Request path: no byte of the tunnel's framing gets into a message and none of
  a message is lost or reordered; nothing reaches the app before the far side has
  answered, so a 504 may be retried; half-closes pass and lose nothing; every
  request ends and every stream is given back; a browser is told one thing.
- CA: the certificate and the key belong together, there is one CA, a device
  that trusts it accepts every share, an interrupted first use repairs itself.
- Lifecycle: a name exists exactly while its edge does; `--local-only` exposes
  nothing; a LAN failure never costs the ticket; what is printed is so.
- Front door: a redirect leads to this edge's https side; nobody holds up another
  client; a device that does not trust the CA yet finds its way in.
- Upgrades: edge, stream and target are one pipe each way; one direction does not
  wait for the other; who leaves is noticed and leaves nothing behind.
- Files: an answer fits what was at its path while it was made; a download that is
  cut short is not taken for complete; links lead where the listing shows them.

## TunnelStream

A request `q` has an edge task (`edge[q]`), at most one stream, a target task
(`tgt[q]`) with splice's two directions (`fwd[q]`, `bwd[q]`), and at most one
TCP connection to the app. The stream is two lists of items, and what a side has
written and the other read are counters: up, the hello's header, its name, then
the chunks of the request; down, the status byte, then the chunks of the
response. `appGot` and `edgeGot` record item by item what the app and hyper's
client really got, so that a shift by one item shows.

Each `await` of the code is a step: `OpenBi`, the two writes of `WriteHello`,
`ReadStatusOk`/`ReadStatusFails`, `SendChunk`, `RecvChunk` on the edge;
`AcceptBi`, `ReadHead`, `ReadName`, `DialOk`/`DialFails`, `ReportOk`/
`ReportFailed`, and the copies of `splice` on the target. A future dropped at any
of them (`OpenTimeout`, `BrowserLeaves`) goes through `EndRequest`: dropping a
noq `SendStream` finishes it and dropping a `RecvStream` stops it, so every way
out of a handler tells the far side the same two things. The connection is lost
at each side on its own, and a side that has not noticed still acts. The app is
any app: it may read, answer, shut down, close, reset, start and stop listening
in any order, but it answers only what it has read something of.

What hyper does is modelled from how `proxy` uses it: one request and one
response per connection, `send_request` resolved by the first chunk of the
response, the connection dropped when both messages are complete, an error when
the stream ends inside one. A chunk stands for any part of a message, the head
being the first; an item is delivered whole, so a hello cut inside its header is
one that has not arrived.

| run | bounds | shows |
| --- | --- | --- |
| `tunnel_one` | one request, messages of two chunks, an edge of this or another version | the invariants, the refinement of `RequestContract`, that edge and target never wait for each other, that a request ends and its stream is given back |
| `tunnel_two` | two requests, a connection that lasts and has room for one stream, one chunk | however a request ends, its stream comes back to the limit, so the other one never waits forever for it, even if `OPEN_TIMEOUT` never fires |
| `tunnel_page` | one request | what the error page says is not always so |

Requests interact only through the stream limit and the connection, which is why
one request carries the message properties and two the limit; two chunks are the
least that can be cut between, and the proofs below do not depend on any of the
bounds.

`OnlyTheAppIsWaitedFor` is about being stuck. `EdgeWaits` and `TargetWaits` say
that a side has nothing to read, write or pass on; when both are so on a connection
that is up, then neither a status byte nor an end is missing between them: the app
is connected, has read the whole request, and owes the response. The code has no
timeout there (edge.rs:153 awaits `send_request` without one), so such a request
stays as long as its app is silent and its browser waits.

A browser is another one that may be stuck and hold its stream: a client that
stays connected but stops uploading, or stops reading, is left alone by the edge
for as long as it likes. `EdgeWaits` leaves that one out (the edge still has
something to send or to read then), so `OnlyTheAppIsWaitedFor` is about the
requests whose browser goes on.

**Fairness.** `FairSpec` has weak fairness of each task's steps: tokio polls a
task again when what it waits for is ready. `LinkFair` says that a side
eventually hears of a loss the other has seen (QUIC's close or idle timeout).
`AppFair` is an assumption about the app, not about the code: it drains its
socket, and does not sit forever on a request it has read of, nor on a connection
whose end it has seen. There is no timeout on a response in the code, so without
it `EveryRequestEnds` and `StreamReleased` are false. Of a browser nothing is
assumed: the steps of the edge that wait for one, `SendChunk` for the rest of its
request and `RecvChunk` for it to read, have no fairness in `FairSpec`. Nothing
in the code ends the request of a browser that stalls, so `EveryRequestEnds` and
`StreamsComeBack` say in their premise, `BrowserGoesOn`, that it does not; a
browser that disconnects is one way in which a request ends. `StreamReleased`
needs no such premise. No property needs the timer to fire: it is not among the
assumptions, but it may fire whenever it can. `tunnel_two` leaves out that the
connection is lost (`SteadySpec`), because a loss ends every wait for a stream.

**What the code says and does not do.** The error page (edge.rs:184) says
"the request didn't make it through" (`tunnel_page`): the same 502 is given when
the app has read the whole request and dies before it answers. It also says that
the tunnel "is up", and is what a request gets when the edge has found the
connection lost.

## CaStore

A process runs `serve`, `open` or `trust`, and takes `load_or_create` one system
call at a time: two existence checks, two reads or two writes, each write first
truncating its file. `Stop` cuts a command short anywhere, and stands for any
call's failure as well. A CA is a number, so that a certificate and a key that do
not belong together differ. `Concurrent` says whether first uses may overlap:
without it a command starts only while no other runs or when there is a CA on disk
(`MayStart`), and from then on commands overlap as they like.

| run | bounds | shows |
| --- | --- | --- |
| `ca_alone` | four commands, a first use alone, otherwise overlapping | pairs match, one CA, created once, trusted once, after any interruptions; `CaContract` is kept |
| `ca_race` | three commands at once | two first uses create two CAs, and the trusted one does not verify the other's share |
| `ca_torn` | two commands | a key file cut short makes every later command fail |

Four commands cover an interrupted creation, the one that repairs it, one that
installs and one that shares; they are interchangeable but for what they run,
which `Init` varies, so symmetry is sound for the invariants, `CreatedOnce` and
`KeepsCaContract`, which speak of all processes alike and are safety properties.

`CaContract` is the head of ca.rs as a specification: the machine's CA is created
once, commands mint from it, and a command that has it may install it. The machine
has a CA, in that sense, from the moment the key's write is done; a certificate
without its key is not one yet, and is overwritten. Processes stop by their nature,
so deadlock is not checked in the CA and lifecycle runs.

## ShareLifecycle

A share is one command. `phase` is where its code stands, and each step either
advances (in the order of `serve`, `start_lan_edge` and `open`) or fails with what
the code's `?`, `match` or warning makes of that. `holds` is the set of ports its
listeners have, the port-80 helper's included, and `ip` the address they are bound
to; `Reachable` is what that leaves the LAN. `edge`, `mdns` and `lan` are the edge,
the announced name and `start_lan_edge`'s result, and `told` is the set of lines the
command has printed: its ticket, its URLs by host, and the warning of an `open` that
could not announce its name. `Leads` says where a URL leads. An error of
`start_lan_edge` drops its listener; the helper is a detached task and stays. Two
listeners never share an address and a port; whether a wildcard listener and one on
loopback may share a port differs among systems, so both outcomes are possible.

| run | bounds | shows |
| --- | --- | --- |
| `share_lifecycle` | two shares, seven command lines, `--port 80` among them | names, ports, addresses and the command's output stay consistent, a local share is out of the LAN's reach, a LAN failure keeps the ticket, no step of startup goes back, startup ends |
| `share_helper` | one share | the port-80 helper outlives its edge |

Two shares are enough for the ports to be taken and freed at any point; that
someone else has a port is covered too, since `BindRefused` may happen to any try.
The fairness is that of each share's own task; a step that may fail and may
succeed does either.

The proofs need no bound on the number of shares, the command lines or the ports
that others hold.

**What the code says and does not do.** The helper's task is detached, so it goes
on redirecting to an https edge that failed or ended (`share_helper`). Two printed
lines may lead nowhere, and `ToldIsTrue` names them as its exceptions. The trust URL
is printed without a port, which for an edge on 443 leads to port 80, where the
helper may never have been (lib.rs:201 ignores its result). And an `open` whose name
could not be announced prints its two `.local` URLs all the same (main.rs:108-114),
after a warning that LAN devices must use the IP (lib.rs:173), an IP that it then
shows as a QR code only.

## FrontDoor

`conn[c]` is where the task of client `c`'s connection stands: `queued` before
`accept`, then `peek`, the TLS `handshake`, `serving` (hyper on TLS) or `read`
(`serve_plaintext`). `arrived[c]` is how much of the current message has come:
nothing, its first segments, or all of it. `Peek` needs a byte, `Handshake` and
`Respond` all of it, `ServePlaintext` answers from what its single read got. An
`EdgePorts` member is what `bind` returned; with 443 the helper may listen on 80
as well. `AcceptFails` is the `?` on `accept` that ends a loop with its backlog.

The answers matter for what a browser does with them, so it is in the model: it
follows the redirect; when its device meets the certificate warning or finds no
door, it is taken to the printed trust URL (`TrustUrl`, which has no port for an edge
on 443), from the page to the CA at the page's own address, installs it, and returns
to what it wanted. `via` notes how its URL came about; `cut` marks a redirect made
from part of a head, whose path, host or port may be cut or missing (`PathsRead`,
`Locations`).

| run | bounds | shows |
| --- | --- | --- |
| `front_door` | two browsers, edges on 443, on 4433 and on 80, one path of the app's | redirects lead home and never to another redirect, nobody is held up, an untrusting device gets to its page |

Two clients are what it takes for one to hold up another; 443 and 4433 are the two
cases of `bind`, and 80 is the port that a Host line does not name. The paths of the
page, of the CA and what a cut leaves of them come in on the way; `RedirectLeads`
speaks of every goal. **Fairness:** the accept loops and tasks are run. Clients may
stay silent for ever: there is no timeout on peek, handshake or read in the code,
so what keeps `EveryoneAnswered` true is the task per connection. Only
`OnboardingCompletes` has a premise, `Persists`: what the device sends arrives, its
user does the next thing, and from some time on neither turns elsewhere nor has a
head cut by the single read. Until then anything may go wrong, a reset of a cut
head or a redirect from one included, and the user still gets through.

**What the code does not promise.** A head whose Host line is not in the first
read is redirected to `https://<name>.local` without a port, which for an edge on
4433 is another place; a cut Host line is another host or port, and a path cut
short is another path: `RedirectLeadsHome` speaks of heads read whole. What holds of
cut heads too is `NoRedirectLoop`: wherever a redirect leads, it is an https URL,
and only plaintext is redirected. `--port 80` is accepted, but a browser names no
port 80 in its Host line, so such an edge redirects its plain http clients to 443,
where it is not. For an edge on 443 the printed trust URL leads to port 80: where
the helper could not bind it, no printed line leads an untrusting device to the CA
(the edge itself would serve it at `http://<name>.local:443/.lclhst/`), and
`OnboardingCompletes` promises nothing. The two routers disagree on what the
reserved prefix is: `/.lclhstx` is the page over http and the app's over https.

## UpgradeChain

After a 101 each direction is a chain of three links (up: browser to edge, stream,
target to app) with a stage at each node that copies from one to the next. A
link's writer is open, finished or reset, and its reader there or gone. `Join` and
`JoinFails` are the `try_join!`; until it is done the 101 is already with the
browser, and the app may be sending. The nodes differ in what an error means,
which is why both are in one model: in `splice` a failed copy ends its direction
(`EndStage`), in `copy_bidirectional` it ends the task, and dropping the two
connections (`Drop`) ends both. `Done` is the end of a task with both directions
over.

`DuplexPipe` is what the ends are promised: each direction in order, each item
once, the end only after everything, unless the pipe has been broken, by a lost
connection, a failed upgrade, or an end that left without having met the other's
end.

| run | bounds | shows |
| --- | --- | --- |
| `upgrade` | two items each way, links that hold one | the chain implements `DuplexPipe`; nothing is left where nobody reads it; a direction is held up by its own sink only and arrives whatever the other's does; an end that leaves, or a failed upgrade, is noticed; nothing lingers |

A full link with an item behind it, in each direction, is what two items and
capacity one give; the proofs depend on neither. **Fairness** is that of the two
tasks. `Listens` supposes a sink that reads, in the properties about that sink
only; `DirectionsIndependent` supposes nothing of the other.

## FileServe

A request is the calls `handle` makes, each a step: `Resolve` (canonicalize, and
the check that the result is under the root), `IsDir`, then `List` or `Open`,
`Stat`, `Stream`. Any call may fail though its entry is there (a permission, no
file descriptors left): `Fails` notes that in `denied`, and the code makes of it a
404, a listing's 500 or, in `IsDir`, a no. Between any two calls the tree's user may
create, delete or replace an entry (`Put`) and remove the root or make it anew
(`PutRoot`). An entry is a file, a directory, or a symbolic link: "in" leads to
`LinkTo`, "out" to what is not under the root, where a call may find anything.
`Canonical` follows links, and `InRoot` is `starts_with(root)`; the calls after
`Resolve` follow them again, those that have been put there since. A file's contents
are how much of it lies ahead of the reader, and `Resize` appends to it or cuts it.
The browser types a URL or clicks on a link of the listing, which is resolved as
browsers do, against the URL up to its last slash.

Three variables are not the code's. `kinds` collects what has been at the path asked
for since the request came, and `AnswersFit` relates the answer to it. `cut` says
that the open file is short of what is owed and has not grown since. `bare` is the
reason why a URL without a slash at its end may name a directory: it was typed so, or
its link was shown for a symbolic link, for an entry whose type could not be had, or
for a file in whose place a directory has come.

| run | bounds | shows |
| --- | --- | --- |
| `file_serve` | names `a` and `b`, two levels, links under the root and out of it at the top level, files up to two units ahead | answers fit, a download cut short is not complete, links lead where listed, every step brings the end of the answer closer, every answer ends |
| `file_link` | the same | a link to a directory is listed as a file, and what is behind it is lost |

Two levels are where relative links can go wrong, two names tell a sibling from
the entry itself. **Fairness:** the request's task makes its calls. That the client
reads is a premise of `EveryAnswerEnds`, for there is no timeout in the code: a
client that stays connected and stops reading keeps its answer open for ever. The
rest of `EveryAnswerEnds` is the content-length's doing: without it (`~measured`) a
file that grows as fast as it is sent has no end.

**What the code does not promise.** The path is checked once. A link out of the root
that is put in place of what was checked, between canonicalize and the call that
uses the path, is followed: `AnswersFit` says that something under the root was
there meanwhile, and not that it is what was sent. A file that is cut while it is
sent, and grows again, passes for complete with the contents it has then. And
`file_link`: the links of a listing reached without a slash lead one level too high;
`LinksLeadWhereListed` says that the four reasons of `bare` are the only ways there.

## What is proved

All theorems hold for every value of the constants that satisfies the modules'
assumptions: `ReqLen`, `RespLen` and `MaxStreams` positive numbers; `Concurrent` a
Boolean; `Configs` command lines whose port is a number
(`ConfigsAssumption`); `EdgePorts` numbers from 1 to 65535, `Goals` paths that are
not cut; `MaxSent` a number and `Capacity` a positive one; `Places` closed under
prefixes, `LinkTo` one at the top level, `Typed` URLs, `MaxAhead` a number.

`TunnelStreamProofs`:

- `TypeCorrect`: `TypeOK`, with `HelloProgress`, which says how much of the hello
  is on the stream in each phase. The bound on `upSent` needs it: the hello's writes
  have no guard on the count.
- `Invariance`: the inductive invariant `IInv`. None of the properties is
  inductive: that the app has nothing of a request that timed out depends on the
  status byte being written only after the dial, on the edge leaving the handshake
  only with it, and on the app's bytes being what the forward copy read. `IInv`
  relates, request by request, phases to counters (what each side has written
  and read is consistent with where it stands) and the recorded sequences to the
  counters. Steps of one request leave the others alone (the `LeavesOthers`
  lemmas), so each action is looked at for its own request only.
- `TimeoutSafe`, `Transparent`, `HalfCloseSafe` follow from `IInv`.
- `OnlyTheApp`, too. It is what asks most of `IInv`: `AppInv` counts what the app has
  read against what the target has read, `EndInv` says of each way a copy or a
  handler can end what that has closed, so that a side which waits at an open
  stream faces one that still runs.
- `Implements`: the refinement. Initial states map to initial states, and every
  step of `TunnelStream` maps to a step of `RequestContract` or a stutter, by the
  tables in `EdgeSimulates`, `TargetSimulates` and `EnvironmentSimulates`.
- `VerdictsHold`: what `RequestContractProofs` proves of the contract alone
  (`VerdictsTrue`: a 504 means that the app has had nothing, a response is one the
  app gave to this request; `VerdictsFinal`: one verdict, no delivery after a 504)
  is so of the tunnel, by `Implements`. None of it mentions streams, and no
  invariant of `TunnelStream` is needed again.

`CaStoreProofs`:

- `CaTypes`: types, with commands overlapping or not.
- `FirstUseAloneIsSafe` and `FirstUseAloneCreatesOnce`, for `~Concurrent`: until the
  key is on disk at most one command runs (`AloneUntilCreated`), and what the files
  hold follows from how far it, or the one that was cut short, has got; once it is,
  nobody writes them again, whatever runs at the same time. The assumption is
  needed: `ca_race` is what happens without it.
- `FirstUseAloneKeepsContract`: the refinement of `CaContract`, from the same
  invariant. Only the key's completed write is `Create`; a command that has parsed
  the pair, or created it, takes `Obtain`.

`ShareLifecycleProofs`:

- `ShareTypes`: types, with the fact that `bind` is given real ports.
- `NameLives`, `LocalOnlyStays`, `ToldTrue` from one invariant, `ShareInv`: what a
  share holds, announces and has printed follows from its phase, case by case
  (`Fresh` before the port is bound, `Bound` from there until the end of startup,
  running, `Over`). A property about the name alone is not inductive: that `announce`
  names the bound port depends on the steps before it. `LocalOnlyStays` rests on the
  part that ties the bound address to the command line (`ip[s] = BindIp(s)`).
- `LanFailureKeeps`, an action property, from the types.
- `StartupEnds`: each step of startup makes the pair of steps left and ports left to
  try smaller. It needs the order of the steps for each kind of share (`OrderInv`),
  for a `leaf` comes before the ports for `serve` and after them for `open`.

`FrontDoorProofs`: `FrontDoorTypes`, and `RedirectLeads` and `RedirectsOnce` from an
invariant that says where each connection can be: at one of two doors, at port 80
only if the edge is on 443 or on 80 itself; an https URL has port 80 only if the
edge is there; what is read as plaintext came with http; and with http a browser
asks for the path its user wanted, for the page or for the CA, and the last two are
not redirected. `LoopInv` adds that a
browser which follows a redirect, of a whole head or a cut one, comes by https.

`UpgradeChainProofs`: `UpgradeTypes` (no link over its capacity), and
`ImplementsPipe`. The invariant has two parts. The data (`Line`): what a sink has
got, then what its three links hold, is one run of consecutive numbers up to what
was sent, so a copy moves an item from the head of one run to the end of the one
before (`LineMoves`). The order of closing (`Orderly`), while nothing has broken: a
stage that has ended has an ended and empty link behind it and a closed one before
it. With both, a sink that meets an end unbroken has everything (`EndIsLast`); and
no stage of an unbroken chain can fail, so `copy_bidirectional`'s early return only
ever comes after a fault.

The same invariant, with `SettledInv` (until something breaks, only who has read
everything leaves) and `SplicingInv` (only the edge joins), gives
`NothingIsStranded` and `OnlyTheSink`: an item that stays where it is has a full
link before it, then another, up to the sink's. `DuplexPipeProofs` proves of the abstract pipe what its
ends rely on (`PipeDelivers`: prefixes, in order, and all of it at an end that is
told unbroken; `EndIsFinal`: nothing after the end), and `EndsHold` carries both
over to the chain by `ImplementsPipe`.

`FileServeProofs`: `FileTypes`, with the shape of the tree (links under the root lead
to no links), from which it follows that a canonical path is its own
(`CanonicalTwice`) and that no link is found at one (`CanonicalKind`).
`AnswersAlwaysFit`, from `SeenInv`: until its file is open, what a request's next call
is about is among `kinds`, through `Resolve` too, where the path asked for gives way
to its canonical form (`ResolveHere`); and a request past each call has seen what sent
it there, or a call was denied. `CompleteAlwaysWhole`, from `CutInv`: a file that is
short of what is owed stays short, because what is sent is taken from both.
`LinksLead`, from `LeadInv`: what is asked for without a slash, and without a reason,
is no directory, so a listing's URL ends in one. It supposes nothing of the tree or
of what is typed. `EndCloser`: the pair of calls left and of what is owed goes down
with each of a request's steps, but for a file whose length could not be had.

Only model-checked: the liveness properties, because fairness is out of the
prover's reach. Where a liveness property rests on a safety property that a step or
a state can break, that one is stated, checked and proved; what TLC alone shows is
that fairness does the rest.

| liveness property, checked by TLC | its safety core, proved |
| --- | --- |
| `EveryRequestEnds`, `StreamReleased` | `OnlyTheAppIsWaitedFor`: nothing but the app is waited for |
| `StartResolves` | `StartupComesCloser`: a measure that goes down |
| `DirectionsIndependent` | `NothingStranded`, `OnlyTheSinkHoldsUp` |
| `EveryAnswerEnds` | `EndComesCloser`: a measure that goes down |
| `OnboardingCompletes` | `RedirectLeadsHome`, `NoRedirectLoop` |
| `StreamsComeBack`, `EveryoneAnswered`, `LeavingIsNoticed`, `NothingLingers` | none |

Every safety property a passing run checks is proved, the refinements and action
properties included.

## Not modelled

- Tickets, target parsing, percent-encoding, MIME types, the pages' text, URLs and
  the QR code: pure conversions of one value, without state; unit tests cover them.
- Endpoint configuration (`tunnel.rs`) and the parsing of the command line. With
  `--port 0` the kernel picks the port; `ShareLifecycle` has given ports only.
- `DirectOpener`, which is `TunnelStream` without the tunnel: a dial and a pipe, with
  nothing to interleave.
- Several peers of one target: each connection has a loop of its own, and they share
  only the app.
- A served port that is the share's own edge (a share of port 443 or 4433): the
  edge would dial itself, and nothing in the code compares the two.
- Certificate contents and the macOS keychain.
- In the shared tree: a root replaced by a link, links under the root below its top
  level or to other links, the names in a directory outside, and the steps within
  canonicalize and within the reading of a directory. How a name is escaped in a
  link is a conversion, and left out with the others; a name with a colon is one that
  browsers may take for a scheme.
- iroh, hyper, rustls and mdns-sd, except for what the code uses of them.

## Plan

What is left, in this order:

1. A served port that is the share's own edge: `ShareLifecycle`'s ports composed with
   `FrontDoor`, whose plaintext branch then answers the edge's own dial.
2. Several peers: connections that come and go at the target while their streams
   are served.
