------------------------------ MODULE DemoMachine ------------------------------
(***************************************************************************)
(* The small servers and clients of the repository, started and ended by   *)
(* hand on one Linux machine.  The ten pairs of programs were written each *)
(* on its own: five use port 50051 and three use 40041, on different       *)
(* addresses, through runtimes that share a port or do not.  Who can run   *)
(* beside whom, and whom a client then talks to, is decided by all of them *)
(* together.                                                               *)
(*                                                                         *)
(* A program is named by its directory, a server and its client alike.     *)
(***************************************************************************)
EXTENDS Naturals

CONSTANTS
    Servers,  \* the servers that are started
    Clients,  \* the clients that are started
    NoOne,    \* no server
    GoCalls   \* calls of godemo's goroutine: eleven

-----------------------------------------------------------------------------
(* What each program says of itself.  A server: the port and the families  *)
(* of the address it binds, the method it answers, whether its runtime is  *)
(* the C core, which sets SO_REUSEPORT and widens 0.0.0.0 to [::], what    *)
(* becomes of it when the port is taken, and whether it prints a line that *)
(* says it listens.                                                        *)

Both == {"v4", "v6"}

\* Mutant: the listener sets SO_REUSEPORT.
GoServerShared == [port |-> 50051, families |-> Both, method |-> "DemoBook.GetName",
                   ccore |-> TRUE, taken |-> "failed", prints |-> TRUE]

GoServer == [port |-> 50051, families |-> Both, method |-> "DemoBook.GetName",
             ccore |-> FALSE, taken |-> "failed", prints |-> TRUE]
\* The result of addHttp2Port, 0, is not looked at.
PhpServer == [port |-> 50051, families |-> Both, method |-> "DemoBook.GetName",
              ccore |-> TRUE, taken |-> "deaf", prints |-> FALSE]
\* BuildAndStart returns a null pointer; the next line but one follows it.
CppServer == [port |-> 50051, families |-> Both, method |-> "cppdemo.ack",
              ccore |-> TRUE, taken |-> "null", prints |-> TRUE]
\* The result of add_insecure_port, 0, is not looked at.
PyServer == [port |-> 50051, families |-> Both, method |-> "Greeter.SayHello",
             ccore |-> TRUE, taken |-> "deaf", prints |-> FALSE]
\* start() throws in the callback when nothing is bound.
JsServer == [port |-> 50051, families |-> {"v4"}, method |-> "JsDemo.Say",
             ccore |-> FALSE, taken |-> "failed", prints |-> FALSE]
\* Mutant: the server is bound to 127.0.0.1.
JavaServerV4 == [port |-> 40041, families |-> {"v4"}, method |-> "DemoBook.GetName",
                 ccore |-> FALSE, taken |-> "failed", prints |-> TRUE]

JavaServer == [port |-> 40041, families |-> Both, method |-> "DemoBook.GetName",
               ccore |-> FALSE, taken |-> "failed", prints |-> TRUE]
DartServer == [port |-> 40041, families |-> {"v4"}, method |-> "BookDemoShop.Find",
               ccore |-> FALSE, taken |-> "failed", prints |-> TRUE]
RustServer == [port |-> 40041, families |-> {"v6"}, method |-> "Echo.UnaryEcho",
               ccore |-> FALSE, taken |-> "failed", prints |-> FALSE]
KtServer == [port |-> 40441, families |-> Both, method |-> "DemoBook.PeekBookName",
             ccore |-> FALSE, taken |-> "failed", prints |-> TRUE]
NodeServer == [port |-> 9900, families |-> {"v4"}, method |-> "EchoService.Echo",
               ccore |-> FALSE, taken |-> "failed", prints |-> FALSE]

Server == [godemo |-> GoServer, phpdemo |-> PhpServer, cppdemo |-> CppServer,
           pydemo |-> PyServer, jsdemo |-> JsServer, javademo |-> JavaServer,
           dtdemo |-> DartServer, rsdemo |-> RustServer, ktdemo |-> KtServer,
           envoydemo |-> NodeServer]

-----------------------------------------------------------------------------
(* A client: the port and the families of the name it dials, the method it *)
(* calls, and how often.  With which status it exits is left out.          *)

\* Dials with WithBlock and calls with a deadline, from the server's process.
GoClient == [port |-> 50051, dials |-> Both, method |-> "DemoBook.GetName", calls |-> "eleven"]
PhpClient == [port |-> 50051, dials |-> Both, method |-> "DemoBook.GetName", calls |-> "one"]
CppClient == [port |-> 50051, dials |-> Both, method |-> "cppdemo.ack", calls |-> "one"]
PyClient == [port |-> 50051, dials |-> {"v4"}, method |-> "Greeter.SayHello", calls |-> "one"]
JsClient == [port |-> 50051, dials |-> {"v4"}, method |-> "JsDemo.Say", calls |-> "one"]
\* while (true), with the catch inside.
JavaClient == [port |-> 40041, dials |-> Both, method |-> "DemoBook.GetName", calls |-> "for ever"]
DartClient == [port |-> 40041, dials |-> Both, method |-> "BookDemoShop.Find", calls |-> "one"]
RustClient == [port |-> 40041, dials |-> {"v6"}, method |-> "Echo.UnaryEcho", calls |-> "one"]
KtClient == [port |-> 40441, dials |-> Both, method |-> "DemoBook.PeekBookName", calls |-> "for ever"]
NodeClient == [port |-> 9900, dials |-> {"v4"}, method |-> "EchoService.Echo", calls |-> "one"]

Client == [godemo |-> GoClient, phpdemo |-> PhpClient, cppdemo |-> CppClient,
           pydemo |-> PyClient, jsdemo |-> JsClient, javademo |-> JavaClient,
           dtdemo |-> DartClient, rsdemo |-> RustClient, ktdemo |-> KtClient,
           envoydemo |-> NodeClient]

ASSUME ProgramsAssumption ==
    /\ Servers \subseteq DOMAIN Server /\ Clients \subseteq DOMAIN Client
    /\ "godemo" \in Clients => "godemo" \in Servers
    /\ NoOne \notin DOMAIN Server
ASSUME GoCallsAssumption == GoCalls \in Nat \ {0}

VARIABLES
    server,  \* what each server is
    said,    \* servers whose line "listening" stands on the screen
    at,      \* where each client is
    conn,    \* the server its channel is connected to
    result,  \* what became of its last call
    left     \* calls the goroutine has still to make

serverVars == <<server, said>>
vars == <<server, said, at, conn, result, left>>

Init ==
    /\ server = [s \in Servers |-> "off"] /\ said = {}
    /\ at = [c \in Clients |-> "off"]
    /\ conn = [c \in Clients |-> NoOne]
    /\ result = [c \in Clients |-> "none"]
    /\ left = 0

-----------------------------------------------------------------------------
(* The servers. *)

Listening == {s \in Servers : server[s] \in {"up", "stuck"}}

\* bind(): the same port, a common family, and not both with SO_REUSEPORT.
Conflict(s, t) ==
    /\ Server[s].port = Server[t].port
    /\ Server[s].families \cap Server[t].families # {}
    /\ ~ (Server[s].ccore /\ Server[t].ccore)

Become(s, from, to) ==
    /\ server[s] \in from /\ server' = [server EXCEPT ![s] = to]

Announce(s, yes) == said' = IF yes THEN said \cup {s} ELSE said \ {s}

\* godemo's main starts its goroutine once it listens; nobody else's calls.
Listen(s) ==
    /\ \A t \in Listening : ~ Conflict(s, t)
    /\ Become(s, {"off", "failed"}, "up") /\ Announce(s, Server[s].prints)
    /\ IF s = "godemo" /\ s \in Clients
         THEN /\ at' = [at EXCEPT ![s] = "ready"]
              /\ result' = [result EXCEPT ![s] = "none"] /\ left' = GoCalls
         ELSE UNCHANGED <<at, result, left>>
    /\ UNCHANGED conn

PortTaken(s) ==
    /\ \E t \in Listening : Conflict(s, t)
    /\ Become(s, {"off", "failed"}, Server[s].taken) /\ Announce(s, Server[s].taken = "null")
    /\ UNCHANGED <<at, conn, result, left>>

\* server->Wait() on the null pointer.
Crash(s) ==
    /\ Become(s, {"null"}, "failed") /\ Announce(s, FALSE)
    /\ UNCHANGED <<at, conn, result, left>>

\* The process ends; its connections break, and its goroutine is gone.
End(s) ==
    /\ Become(s, {"up", "stuck", "deaf"}, "off") /\ Announce(s, FALSE)
    /\ at' = [c \in Clients |-> IF c = s /\ c = "godemo" THEN "off" ELSE at[c]]
    /\ conn' = [c \in Clients |-> IF conn[c] = s THEN NoOne ELSE conn[c]]
    /\ UNCHANGED <<result, left>>

\* Suspended and resumed: the kernel goes on accepting for it.
Suspend(s) == Become(s, {"up"}, "stuck") /\ UNCHANGED <<said, at, conn, result, left>>
Resume(s) == Become(s, {"stuck"}, "up") /\ UNCHANGED <<said, at, conn, result, left>>

-----------------------------------------------------------------------------
(* The clients. *)

\* The goroutine runs only when its process does.
Scheduled(c) == c = "godemo" => server[c] = "up"

StartClient(c) ==
    /\ c # "godemo" /\ at[c] = "off"
    /\ at' = [at EXCEPT ![c] = "ready"] /\ result' = [result EXCEPT ![c] = "none"]
    /\ UNCHANGED <<serverVars, conn, left>>

EndClient(c) ==
    /\ c # "godemo" /\ at[c] # "off"
    /\ at' = [at EXCEPT ![c] = "off"] /\ conn' = [conn EXCEPT ![c] = NoOne]
    /\ UNCHANGED <<serverVars, result, left>>

Reachable(c) ==
    {s \in Listening : /\ Server[s].port = Client[c].port
                       /\ Server[s].families \cap Client[c].dials # {}}

\* A channel that is connected stays with its server; else the first address
\* that accepts, and of several sockets on it the one the kernel picks.
Send(c) ==
    /\ at[c] = "ready" /\ Scheduled(c)
    /\ \E s \in (IF conn[c] # NoOne THEN {conn[c]} ELSE Reachable(c)) :
         conn' = [conn EXCEPT ![c] = s]
    /\ at' = [at EXCEPT ![c] = "sent"] /\ result' = [result EXCEPT ![c] = "none"]
    /\ UNCHANGED <<serverVars, left>>

\* Mutant: the goroutine asks for the same id again until it has the answer.
DoneRetried(c, outcome, peer) ==
    /\ result' = [result EXCEPT ![c] = outcome]
    /\ left' = IF Client[c].calls = "eleven" /\ outcome = "answer" THEN left - 1 ELSE left
    /\ LET more == Client[c].calls = "for ever" \/ (Client[c].calls = "eleven" /\ left' > 0)
       IN  at' = [at EXCEPT ![c] = IF more THEN "ready" ELSE "off"]
    /\ conn' = [conn EXCEPT ![c] = IF Client[c].calls = "for ever" THEN peer ELSE NoOne]
    /\ UNCHANGED serverVars

\* A call is over.  The goroutine goes on to the next id, the loops sleep and
\* call again on the same channel, the others end, whatever the outcome.
Done(c, outcome, peer) ==
    /\ result' = [result EXCEPT ![c] = outcome]
    /\ left' = IF Client[c].calls = "eleven" THEN left - 1 ELSE left
    /\ LET more == Client[c].calls = "for ever" \/ (Client[c].calls = "eleven" /\ left' > 0)
       IN  at' = [at EXCEPT ![c] = IF more THEN "ready" ELSE "off"]
    /\ conn' = [conn EXCEPT ![c] = IF Client[c].calls = "for ever" THEN peer ELSE NoOne]
    /\ UNCHANGED serverVars

\* Nobody listens: an error, but for the dial that blocks.
Unreachable(c) ==
    /\ at[c] = "ready" /\ conn[c] = NoOne /\ Reachable(c) = {}
    /\ Client[c].calls # "eleven"
    /\ Done(c, "error", NoOne)

InFlight(c, states) == at[c] = "sent" /\ conn[c] \in Servers /\ server[conn[c]] \in states

Answered(c) ==
    /\ InFlight(c, {"up"}) /\ Server[conn[c]].method = Client[c].method
    /\ Done(c, "answer", conn[c])

\* UNIMPLEMENTED, from a server that does not know the method.
Refused(c) ==
    /\ InFlight(c, {"up"}) /\ Server[conn[c]].method # Client[c].method
    /\ Done(c, "error", conn[c])

\* The server has gone.
Broken(c) == at[c] = "sent" /\ conn[c] = NoOne /\ Done(c, "error", NoOne)

\* A connection that a suspended server never completed.
ConnectTimesOut(c) == InFlight(c, {"stuck"}) /\ Scheduled(c) /\ Done(c, "error", NoOne)

\* The context of one second; the other clients set none.
Deadline(c) == Client[c].calls = "eleven" /\ InFlight(c, {"up"}) /\ Done(c, "error", NoOne)

-----------------------------------------------------------------------------
ClientStep(c) == Send(c) \/ Unreachable(c) \/ Answered(c) \/ Refused(c) \/ Broken(c) \/ Deadline(c)

Next == \/ \E s \in Servers : \/ Listen(s) \/ PortTaken(s) \/ Crash(s)
                              \/ End(s) \/ Suspend(s) \/ Resume(s)
        \/ \E c \in Clients : \/ StartClient(c) \/ EndClient(c)
                              \/ ClientStep(c) \/ ConnectTimesOut(c)

\* Clients and running servers are scheduled; nobody need start or end them.
ClientFair(c) == WF_vars(ClientStep(c))

Spec == Init /\ [][Next]_vars /\ \A c \in Clients : ClientFair(c)

-----------------------------------------------------------------------------
(* Properties. *)

\* The type invariant; a channel is connected only to a server that listens.
TypeOK ==
    /\ server \in [Servers -> {"off", "up", "stuck", "deaf", "null", "failed"}]
    /\ said \subseteq Servers
    /\ at \in [Clients -> {"off", "ready", "sent"}]
    /\ conn \in [Clients -> Listening \cup {NoOne}]
    /\ result \in [Clients -> {"none", "answer", "error"}]
    /\ left \in Nat

\* A client whose own server listens is connected to another one only when the
\* two are both built on the C core, which shares its port, or when Dart's
\* client finds tonic on the other family of localhost.  Never the reverse,
\* never beside godemo, whose goroutine thus talks to its own process, nor
\* beside jsdemo or javademo.
Mixups ==
    \A c \in Clients \cap Listening :
      conn[c] \notin {NoOne, c} => \/ {c, conn[c]} \subseteq {"phpdemo", "cppdemo", "pydemo"}
                                   \/ c = "dtdemo" /\ conn[c] = "rsdemo"

\* The goroutine comes to the end of its calls, though its dial blocks without
\* limit: as long as its process runs there is somebody to dial.
GoEnds ==
    \A c \in Clients :
      Client[c].calls = "eleven" => (<>[](server[c] = "up") => <>[](at[c] = "off" /\ left = 0))

\* The loops of Java and Kotlin recover from whatever they have met, calls to
\* another's server included: once their own server stays up, nobody else can
\* be on its port, and answers come again and again.
LoopersRecover ==
    \A c \in Clients \cap Servers :
      Client[c].calls = "for ever" =>
        (<>[](server[c] = "up" /\ at[c] # "off") => []<>(result[c] = "answer"))

\* Whoever has printed that it listens does.
AnnouncedListens == said \subseteq Listening
=============================================================================
