----------------------------- MODULE Demos_proofs -----------------------------
(* Who may run beside whom, and whom a client then talks to, for every     *)
(* choice of servers and clients of the repository; then what the browser  *)
(* adds to them, for every number of calls, navigations and documents.     *)
EXTENDS WebTab, TLAPS

On50051 == {"godemo", "phpdemo", "cppdemo", "pydemo", "jsdemo"}
On40041 == {"javademo", "dtdemo", "rsdemo"}
OnCore == {"phpdemo", "cppdemo", "pydemo"}
Names == On50051 \cup On40041 \cup {"ktdemo", "envoydemo"}

\* What the tables of programs say, in the form the proofs use.
LEMMA Domains == DOMAIN Server = Names /\ DOMAIN Client = Names
  BY DEF Server, Client, Names, On50051, On40041

LEMMA ServerPorts ==
    /\ \A s \in On50051 : Server[s].port = 50051
    /\ \A s \in On40041 : Server[s].port = 40041
    /\ Server["ktdemo"].port = 40441 /\ Server["envoydemo"].port = 9900
  BY DEF On50051, On40041, Server, GoServer, PhpServer, CppServer, PyServer, JsServer,
         JavaServer, DartServer, RustServer, KtServer, NodeServer

LEMMA ClientPorts ==
    /\ \A c \in On50051 : Client[c].port = 50051
    /\ \A c \in On40041 : Client[c].port = 40041
    /\ Client["ktdemo"].port = 40441 /\ Client["envoydemo"].port = 9900
  <1>1. \A c \in On50051 : Client[c].port = 50051
    BY DEF On50051, Client, GoClient, PhpClient, CppClient, PyClient, JsClient
  <1>2. /\ Client["javademo"] = JavaClient /\ Client["dtdemo"] = DartClient
        /\ Client["rsdemo"] = RustClient /\ Client["ktdemo"] = KtClient
        /\ Client["envoydemo"] = NodeClient
    BY DEF Client
  <1>3. /\ JavaClient.port = 40041 /\ DartClient.port = 40041 /\ RustClient.port = 40041
        /\ KtClient.port = 40441 /\ NodeClient.port = 9900
    BY DEF JavaClient, DartClient, RustClient, KtClient, NodeClient
  <1> QED
    BY <1>1, <1>2, <1>3 DEF On40041

LEMMA Families ==
    /\ \A s \in On50051 \cup {"javademo", "dtdemo"} : "v4" \in Server[s].families
    /\ "v6" \in Server["javademo"].families /\ "v6" \in Server["rsdemo"].families
    /\ Server["dtdemo"].families \cap Client["rsdemo"].dials = {}
  BY DEF On50051, Both, Server, GoServer, PhpServer, CppServer, PyServer, JsServer,
         JavaServer, DartServer, RustServer, Client, RustClient

LEMMA NotOnCore == \A s \in (On50051 \cup On40041) \ OnCore : ~ Server[s].ccore
  BY DEF On50051, On40041, OnCore, Server, GoServer, JsServer, JavaServer, DartServer, RustServer

\* Whom a client can reach while its own server listens.
LEMMA Pairs ==
    ASSUME NEW c \in Names, NEW t \in Names, t # c,
           Server[t].port = Client[c].port,
           Server[t].families \cap Client[c].dials # {},
           ~ Conflict(c, t)
    PROVE  {c, t} \subseteq OnCore \/ (c = "dtdemo" /\ t = "rsdemo")
  <1>1. CASE c \in On50051
    <2>1. t \in On50051
      BY <1>1, ServerPorts, ClientPorts DEF Names, On40041
    <2>2. Server[c].port = Server[t].port /\ Server[c].families \cap Server[t].families # {}
      BY <1>1, <2>1, ServerPorts, Families
    <2>3. Server[c].ccore /\ Server[t].ccore
      BY <2>2 DEF Conflict
    <2> QED
      BY <1>1, <2>1, <2>3, NotOnCore
  <1>2. CASE c \in On40041
    <2>1. t \in On40041
      BY <1>2, ServerPorts, ClientPorts DEF Names, On50051
    <2>2. Server[c].port = Server[t].port /\ ~ Server[c].ccore
      BY <1>2, <2>1, ServerPorts, NotOnCore DEF On40041, OnCore
    <2>3. Server[c].families \cap Server[t].families = {}
      BY <2>2 DEF Conflict
    <2>4. \/ c = "dtdemo" /\ t = "rsdemo"
          \/ c = "rsdemo" /\ t = "dtdemo"
      BY <1>2, <2>1, <2>3, Families DEF On40041
    <2> QED
      BY <2>4, Families
  <1>3. CASE c \in {"ktdemo", "envoydemo"}
    <2>1. Server[t].port \in {40441, 9900}
      BY <1>3, ClientPorts
    <2>2. t \notin On50051 /\ t \notin On40041
      BY <2>1, ServerPorts
    <2>3. t \in {"ktdemo", "envoydemo"}
      BY <2>2 DEF Names
    <2> QED
      BY <1>3, <2>3, ServerPorts, ClientPorts
  <1> QED
    BY <1>1, <1>2, <1>3 DEF Names
-----------------------------------------------------------------------------
(* The inductive invariant: no two listening servers conflict, and every   *)
(* channel is connected to a server that listens where the client dials.   *)

Exclusive == \A s, t \in Listening : s # t => ~ Conflict(s, t)

Reached ==
    \A c \in Clients : conn[c] # NoOne =>
      /\ Server[conn[c]].port = Client[c].port
      /\ Server[conn[c]].families \cap Client[c].dials # {}

CallsLeft == \A c \in Clients : Client[c].calls = "eleven" /\ at[c] # "off" => left \in Nat \ {0}

IInv == TypeOK /\ Exclusive /\ Reached /\ CallsLeft

LEMMA OnlyGoCounts == \A c \in Names : Client[c].calls = "eleven" => c = "godemo"
  <1>1. /\ Client["javademo"] = JavaClient /\ Client["dtdemo"] = DartClient
        /\ Client["rsdemo"] = RustClient /\ Client["ktdemo"] = KtClient
        /\ Client["envoydemo"] = NodeClient /\ Client["phpdemo"] = PhpClient
        /\ Client["cppdemo"] = CppClient /\ Client["pydemo"] = PyClient
        /\ Client["jsdemo"] = JsClient
    BY DEF Client
  <1>2. /\ JavaClient.calls # "eleven" /\ DartClient.calls # "eleven" /\ RustClient.calls # "eleven"
        /\ KtClient.calls # "eleven" /\ NodeClient.calls # "eleven" /\ PhpClient.calls # "eleven"
        /\ CppClient.calls # "eleven" /\ PyClient.calls # "eleven" /\ JsClient.calls # "eleven"
    BY DEF JavaClient, DartClient, RustClient, KtClient, NodeClient, PhpClient, CppClient,
           PyClient, JsClient
  <1> QED
    BY <1>1, <1>2 DEF Names, On50051, On40041

LEMMA ConflictSymmetric == \A s, t : Conflict(s, t) => Conflict(t, s)
  BY DEF Conflict

LEMMA Subsets == Servers \subseteq Names /\ Clients \subseteq Names /\ NoOne \notin Servers
  BY Domains, ProgramsAssumption

LEMMA Initially == Init => IInv
  BY DEF Init, IInv, TypeOK, Exclusive, Reached, CallsLeft, Listening

LEMMA TakenFact == \A s \in Names : Server[s].taken \in {"deaf", "null", "failed"}
  <1>1. \A s \in On50051 : Server[s].taken \in {"deaf", "null", "failed"}
    BY DEF On50051, Server, GoServer, PhpServer, CppServer, PyServer, JsServer
  <1>2. \A s \in On40041 \cup {"ktdemo", "envoydemo"} : Server[s].taken = "failed"
    BY DEF On40041, Server, JavaServer, DartServer, RustServer, KtServer, NodeServer
  <1> QED
    BY <1>1, <1>2 DEF Names

\* What a step of a server leaves true: it changes what listens, and cuts the
\* connections to what no longer does.
LEMMA ServerStep ==
    ASSUME IInv, NEW s \in Servers,
           Listen(s) \/ PortTaken(s) \/ Crash(s) \/ End(s) \/ Suspend(s) \/ Resume(s)
    PROVE  IInv'
  <1> USE DEF Become, Announce
  <1>1. CASE Listen(s)
    <2>1. Listening' = Listening \cup {s}
      BY <1>1 DEF Listen, Listening, IInv, TypeOK
    <2>2. Exclusive'
      BY <1>1, <2>1, ConflictSymmetric DEF Listen, IInv, Exclusive
    <2>3. Reached'
      BY <1>1 DEF Listen, IInv, Reached
    <2>4. CASE s = "godemo" /\ s \in Clients
      <3>1. at' = [at EXCEPT ![s] = "ready"] /\ result' = [result EXCEPT ![s] = "none"] /\ left' = GoCalls
        BY <1>1, <2>4 DEF Listen
      <3>2. TypeOK'
        BY <1>1, <2>1, <3>1, GoCallsAssumption DEF Listen, IInv, TypeOK
      <3>3. CallsLeft'
        BY <3>1, GoCallsAssumption DEF CallsLeft
      <3> QED
        BY <2>2, <2>3, <3>2, <3>3 DEF IInv
    <2>5. CASE ~ (s = "godemo" /\ s \in Clients)
      <3>1. UNCHANGED <<at, result, left>>
        BY <1>1, <2>5 DEF Listen
      <3>2. TypeOK'
        BY <1>1, <2>1, <3>1 DEF Listen, IInv, TypeOK
      <3>3. CallsLeft'
        BY <3>1 DEF IInv, CallsLeft
      <3> QED
        BY <2>2, <2>3, <3>2, <3>3 DEF IInv
    <2> QED
      BY <2>4, <2>5
  <1>2. CASE End(s)
    <2>1. Listening' = Listening \ {s}
      BY <1>2 DEF End, Listening, IInv, TypeOK
    <2>2. Exclusive'
      BY <2>1 DEF IInv, Exclusive
    <2>3. \A c \in Clients : conn'[c] \in {conn[c], NoOne} /\ conn'[c] # s
      BY <1>2, Subsets DEF End
    <2>4. \A c \in Clients : at'[c] \in {at[c], "off"}
      BY <1>2 DEF End
    <2>5. TypeOK'
      <3>1. conn' \in [Clients -> Listening' \cup {NoOne}]
        BY <1>2, <2>1 DEF End, IInv, TypeOK
      <3>2. at' \in [Clients -> {"off", "ready", "sent"}]
        BY <1>2 DEF End, IInv, TypeOK
      <3> QED
        BY <1>2, <3>1, <3>2 DEF End, IInv, TypeOK
    <2>6. Reached'
      BY <2>3 DEF IInv, Reached
    <2>7. CallsLeft'
      BY <1>2, <2>4 DEF End, IInv, CallsLeft
    <2> QED
      BY <2>2, <2>5, <2>6, <2>7 DEF IInv
  <1>3. CASE PortTaken(s) \/ Crash(s) \/ Suspend(s) \/ Resume(s)
    <2>0. Server[s].taken \in {"deaf", "null", "failed"}
      BY TakenFact, Subsets
    <2>1. UNCHANGED <<at, conn, result, left>>
      BY <1>3 DEF PortTaken, Crash, Suspend, Resume
    <2>2. /\ server' \in [Servers -> {"off", "up", "stuck", "deaf", "null", "failed"}]
          /\ said' \subseteq Servers
      BY <1>3, <2>0 DEF PortTaken, Crash, Suspend, Resume, IInv, TypeOK
    <2>3. Listening' = Listening
      <3>1. PICK from, to : /\ server[s] = from /\ server' = [server EXCEPT ![s] = to]
                            /\ from \in {"up", "stuck"} <=> to \in {"up", "stuck"}
        BY <1>3, <2>0 DEF PortTaken, Crash, Suspend, Resume
      <3> QED
        BY <3>1 DEF Listening, IInv, TypeOK
    <2>4. TypeOK' /\ Exclusive' /\ Reached' /\ CallsLeft'
      BY <2>1, <2>2, <2>3 DEF IInv, TypeOK, Exclusive, Reached, CallsLeft
    <2> QED
      BY <2>4 DEF IInv
  <1> QED
    BY <1>1, <1>2, <1>3

\* Every step of a client that is under way ends its call, but for Send.
LEMMA CallOver ==
    ASSUME NEW c \in Clients,
           Unreachable(c) \/ Answered(c) \/ Refused(c) \/ Broken(c) \/ Deadline(c) \/ ConnectTimesOut(c)
    PROVE  /\ at[c] # "off"
           /\ \E outcome \in {"answer", "error"}, peer \in {conn[c], NoOne} : Done(c, outcome, peer)
  BY DEF Unreachable, Answered, Refused, Broken, Deadline, ConnectTimesOut, InFlight

LEMMA DoneStep ==
    ASSUME IInv, NEW c \in Clients, at[c] # "off",
           NEW outcome \in {"answer", "error"}, NEW peer \in {conn[c], NoOne},
           Done(c, outcome, peer)
    PROVE  IInv'
  <1>1. UNCHANGED <<server, said>> /\ Listening' = Listening
    BY DEF Done, serverVars, Listening
  <1>2. /\ at' \in [Clients -> {"off", "ready", "sent"}]
        /\ \A d \in Clients \ {c} : at'[d] = at[d]
        /\ Client[c].calls = "eleven" /\ at'[c] # "off" => left' > 0
    BY DEF Done, IInv, TypeOK
  <1>3. conn' \in [Clients -> Listening \cup {NoOne}] /\ \A d \in Clients : conn'[d] \in {conn[d], NoOne}
    BY DEF Done, IInv, TypeOK
  <1>4. left' \in Nat /\ (Client[c].calls # "eleven" => left' = left)
    <2>1. left \in Nat /\ (Client[c].calls = "eleven" => left \in Nat \ {0})
      BY DEF IInv, TypeOK, CallsLeft
    <2>2. left' = IF Client[c].calls = "eleven" THEN left - 1 ELSE left
      BY DEF Done
    <2> QED
      BY <2>1, <2>2
  <1>5. TypeOK'
    BY <1>1, <1>2, <1>3, <1>4 DEF Done, IInv, TypeOK
  <1>6. Exclusive'
    BY <1>1 DEF IInv, Exclusive
  <1>7. Reached'
    BY <1>3 DEF IInv, Reached
  <1>8. CallsLeft'
    BY <1>2, <1>4, OnlyGoCounts, Subsets DEF IInv, CallsLeft
  <1> QED
    BY <1>5, <1>6, <1>7, <1>8 DEF IInv

LEMMA ClientMoves ==
    ASSUME IInv, NEW c \in Clients, StartClient(c) \/ EndClient(c) \/ Send(c)
    PROVE  IInv'
  <1>1. UNCHANGED <<server, said, left>> /\ Listening' = Listening
    BY DEF StartClient, EndClient, Send, serverVars, Listening
  <1>2. CASE Send(c)
    <2>1. PICK s \in (IF conn[c] # NoOne THEN {conn[c]} ELSE Reachable(c)) :
            conn' = [conn EXCEPT ![c] = s]
      BY <1>2 DEF Send
    <2>2. /\ s \in Listening /\ Server[s].port = Client[c].port
          /\ Server[s].families \cap Client[c].dials # {}
      BY <2>1 DEF Reachable, IInv, TypeOK, Reached
    <2>3. TypeOK'
      BY <1>1, <1>2, <2>1, <2>2 DEF Send, IInv, TypeOK
    <2>4. Reached'
      BY <2>1, <2>2 DEF IInv, TypeOK, Reached
    <2>5. Exclusive' /\ CallsLeft'
      BY <1>1, <1>2 DEF Send, IInv, TypeOK, Exclusive, CallsLeft
    <2> QED
      BY <2>3, <2>4, <2>5 DEF IInv
  <1>3. CASE StartClient(c) \/ EndClient(c)
    <2>1. TypeOK'
      BY <1>1, <1>3 DEF StartClient, EndClient, IInv, TypeOK
    <2>2. \A d \in Clients : conn'[d] \in {conn[d], NoOne}
      BY <1>3 DEF StartClient, EndClient, IInv, TypeOK
    <2>3. Reached'
      BY <2>2 DEF IInv, Reached
    <2>4. \A d \in Clients : Client[d].calls = "eleven" /\ at'[d] # "off" => at[d] # "off"
      BY <1>3, OnlyGoCounts, Subsets DEF StartClient, EndClient, IInv, TypeOK
    <2>5. Exclusive' /\ CallsLeft'
      BY <1>1, <2>4 DEF IInv, Exclusive, CallsLeft
    <2> QED
      BY <2>1, <2>3, <2>5 DEF IInv
  <1> QED
    BY <1>2, <1>3

-----------------------------------------------------------------------------
\* The inductive invariant holds in every state: servers and clients act one
\* at a time, each of them as the lemmas above have it.
THEOREM IInvHolds == Spec => []IInv
  <1>1. IInv /\ [Next]_vars => IInv'
    <2> SUFFICES ASSUME IInv, [Next]_vars PROVE IInv'
      OBVIOUS
    <2>1. ASSUME NEW s \in Servers, Listen(s) \/ PortTaken(s) \/ Crash(s) \/ End(s) \/ Suspend(s) \/ Resume(s)
          PROVE  IInv'
      BY <2>1, ServerStep
    <2>2. ASSUME NEW c \in Clients, StartClient(c) \/ EndClient(c) \/ ClientStep(c) \/ ConnectTimesOut(c)
          PROVE  IInv'
      <3>1. CASE StartClient(c) \/ EndClient(c) \/ Send(c)
        BY <3>1, ClientMoves
      <3>2. CASE Unreachable(c) \/ Answered(c) \/ Refused(c) \/ Broken(c) \/ Deadline(c) \/ ConnectTimesOut(c)
        <4>1. at[c] # "off"
          BY <3>2, CallOver
        <4>2. PICK outcome \in {"answer", "error"}, peer \in {conn[c], NoOne} : Done(c, outcome, peer)
          BY <3>2, CallOver
        <4> QED
          BY <4>1, <4>2, DoneStep
      <3> QED
        BY <2>2, <3>1, <3>2 DEF ClientStep
    <2>3. CASE UNCHANGED vars
      BY <2>3 DEF vars, serverVars, IInv, TypeOK, Exclusive, Reached, CallsLeft, Listening
    <2> QED
      BY <2>1, <2>2, <2>3 DEF Next
  <1> QED
    BY Initially, <1>1, PTL DEF Spec

\* TypeOK for every choice of servers and clients.
THEOREM TypeCorrect == Spec => []TypeOK
  <1>1. IInv => TypeOK
    BY DEF IInv
  <1> QED
    BY IInvHolds, <1>1, PTL

\* Mixups for every choice of servers and clients: who is connected to another
\* server while his own listens shares its port through the C core, or is
\* Dart's client, connected to tonic.
THEOREM MixupsAreShared == Spec => []Mixups
  <1>1. IInv => Mixups
    <2> SUFFICES ASSUME IInv, NEW c \in Clients \cap Listening, conn[c] \notin {NoOne, c}
                 PROVE  {c, conn[c]} \subseteq OnCore \/ (c = "dtdemo" /\ conn[c] = "rsdemo")
      BY DEF Mixups, OnCore
    <2>1. conn[c] \in Listening /\ ~ Conflict(c, conn[c])
      BY DEF IInv, TypeOK, Exclusive
    <2>2. c \in Names /\ conn[c] \in Names
      BY <2>1, Subsets DEF Listening
    <2>3. Server[conn[c]].port = Client[c].port /\ Server[conn[c]].families \cap Client[c].dials # {}
      BY DEF IInv, Reached
    <2> QED
      BY <2>1, <2>2, <2>3, Pairs
  <1> QED
    BY IInvHolds, <1>1, PTL

-----------------------------------------------------------------------------
(* Who announces what it does not do. *)

\* Whose line "listening" stands on the screen and who does not listen is the
\* C++ server, on its way to the null pointer.
HeldToWord == \A s \in said : s \in Listening \/ (s = "cppdemo" /\ server[s] = "null")

\* A null pointer is what cppdemo alone is left with when its port is taken.
LEMMA OnlyCppNull == \A s \in Names : Server[s].taken = "null" => s = "cppdemo"
  <1>1. \A s \in On50051 : Server[s].taken = "null" => s = "cppdemo"
    BY DEF On50051, Server, GoServer, PhpServer, CppServer, PyServer, JsServer
  <1>2. \A s \in On40041 \cup {"ktdemo", "envoydemo"} : Server[s].taken = "failed"
    BY DEF On40041, Server, JavaServer, DartServer, RustServer, KtServer, NodeServer
  <1> QED
    BY <1>1, <1>2 DEF Names

\* A step of one server: its own word is kept, or is cppdemo's.
LEMMA WordKept ==
    ASSUME TypeOK, HeldToWord, NEW s \in Servers,
           Listen(s) \/ PortTaken(s) \/ Crash(s) \/ End(s) \/ Suspend(s) \/ Resume(s)
    PROVE  HeldToWord'
  <1>1. \A t \in Servers \ {s} : server'[t] = server[t] /\ (t \in said' <=> t \in said)
    BY DEF Listen, PortTaken, Crash, End, Suspend, Resume, Become, Announce, TypeOK
  <1>2. s \in said' => server'[s] \in {"up", "stuck"} \/ (s = "cppdemo" /\ server'[s] = "null")
    <2>1. CASE Listen(s)
      BY <2>1 DEF Listen, Become, TypeOK
    <2>2. CASE PortTaken(s)
      BY <2>2, OnlyCppNull, Subsets DEF PortTaken, Become, Announce, TypeOK
    <2>3. CASE Crash(s) \/ End(s)
      BY <2>3 DEF Crash, End, Announce
    <2>4. CASE Suspend(s) \/ Resume(s)
      BY <2>4 DEF Suspend, Resume, Become, TypeOK
    <2> QED
      BY <2>1, <2>2, <2>3, <2>4
  <1>3. said' \subseteq Servers
    BY DEF Listen, PortTaken, Crash, End, Suspend, Resume, Announce, TypeOK
  <1> QED
    BY <1>1, <1>2, <1>3 DEF HeldToWord, Listening

\* Clients say nothing and change no server.
LEMMA ClientsSaySo ==
    ASSUME NEW c \in Clients,
           StartClient(c) \/ EndClient(c) \/ ClientStep(c) \/ ConnectTimesOut(c)
    PROVE  UNCHANGED serverVars
  BY DEF StartClient, EndClient, ClientStep, Send, Unreachable, Answered, Refused, Broken,
         Deadline, ConnectTimesOut, Done

\* AnnouncedListens, which MCCppAnnounces.cfg refutes, fails for one server and
\* in one state only: every other line "listening" is true while it stands,
\* whatever takes the ports, ends the processes or suspends them.
THEOREM OnlyCppAnnouncesInVain == Spec => []HeldToWord
  <1>1. Init => HeldToWord
    BY DEF Init, HeldToWord
  <1>2. TypeOK /\ HeldToWord /\ [Next]_vars => HeldToWord'
    <2> SUFFICES ASSUME TypeOK, HeldToWord, [Next]_vars PROVE HeldToWord'
      OBVIOUS
    <2>1. ASSUME NEW s \in Servers, Listen(s) \/ PortTaken(s) \/ Crash(s) \/ End(s) \/ Suspend(s) \/ Resume(s)
          PROVE  HeldToWord'
      BY <2>1, WordKept
    <2>2. ASSUME NEW c \in Clients, StartClient(c) \/ EndClient(c) \/ ClientStep(c) \/ ConnectTimesOut(c)
          PROVE  HeldToWord'
      BY <2>2, ClientsSaySo DEF serverVars, HeldToWord, Listening
    <2>3. CASE UNCHANGED vars
      BY <2>3 DEF vars, serverVars, HeldToWord, Listening
    <2> QED
      BY <2>1, <2>2, <2>3 DEF Next
  <1> QED
    BY TypeCorrect, <1>1, <1>2, PTL DEF Spec

-----------------------------------------------------------------------------
(* Liveness of the loops.  The provers know nothing of ENABLED, so the     *)
(* theorem takes as hypothesis what TLC finds in every state of the run: a *)
(* loop whose own server runs can go on.                                   *)

Loopers == {c \in Clients \cap Servers : Client[c].calls = "for ever"}
AtHome(c) == server[c] = "up" /\ at[c] # "off"

LoopCanStep(c) == AtHome(c) => ENABLED <<ClientStep(c)>>_vars
LoopersCanStep == \A c \in Loopers : LoopCanStep(c)

LEMMA OnlyJvmLoops == Loopers \subseteq {"javademo", "ktdemo"}
  <1>1. /\ Client["godemo"] = GoClient /\ Client["dtdemo"] = DartClient
        /\ Client["rsdemo"] = RustClient
        /\ Client["envoydemo"] = NodeClient /\ Client["phpdemo"] = PhpClient
        /\ Client["cppdemo"] = CppClient /\ Client["pydemo"] = PyClient
        /\ Client["jsdemo"] = JsClient
    BY DEF Client
  <1>2. /\ GoClient.calls # "for ever" /\ DartClient.calls # "for ever"
        /\ RustClient.calls # "for ever" /\ NodeClient.calls # "for ever"
        /\ PhpClient.calls # "for ever" /\ CppClient.calls # "for ever"
        /\ PyClient.calls # "for ever" /\ JsClient.calls # "for ever"
    BY DEF GoClient, DartClient, RustClient, NodeClient, PhpClient, CppClient, PyClient, JsClient
  <1> QED
    BY <1>1, <1>2, Subsets DEF Loopers, Names, On50051, On40041

\* The loops' servers know the method, and bind every family of their port.
LEMMA LoopersTables ==
    ASSUME NEW c \in {"javademo", "ktdemo"}
    PROVE  /\ Server[c].method = Client[c].method /\ Server[c].port = Client[c].port
           /\ Server[c].families \cap Client[c].dials # {}
           /\ Client[c].calls = "for ever"
  <1>1. /\ Client["javademo"] = JavaClient /\ Server["javademo"] = JavaServer
        /\ Client["ktdemo"] = KtClient /\ Server["ktdemo"] = KtServer
    BY DEF Client, Server
  <1>2. /\ JavaServer.method = JavaClient.method /\ JavaServer.port = JavaClient.port
        /\ KtServer.method = KtClient.method /\ KtServer.port = KtClient.port
        /\ JavaClient.calls = "for ever" /\ KtClient.calls = "for ever"
    BY DEF JavaClient, JavaServer, KtClient, KtServer
  <1>3. /\ JavaServer.families = Both /\ JavaClient.dials = Both
        /\ KtServer.families = Both /\ KtClient.dials = Both
    BY DEF JavaClient, JavaServer, KtClient, KtServer
  <1>4. Both \cap Both # {}
    BY DEF Both
  <1> QED
    BY <1>1, <1>2, <1>3, <1>4

\* While its own server listens, a loop reaches that one and no other.
LEMMA LooperAtHome ==
    ASSUME IInv, NEW c \in Loopers, AtHome(c)
    PROVE  Reachable(c) = {c} /\ conn[c] \in {NoOne, c} /\ c # NoOne /\ c # "godemo"
  <1>1. c \in {"javademo", "ktdemo"} /\ c \in Listening /\ c \in Names
    BY OnlyJvmLoops, Subsets DEF Loopers, AtHome, Listening
  <1>2. c \notin OnCore /\ c # "dtdemo" /\ c # "godemo" /\ c # NoOne
    BY <1>1, Subsets DEF OnCore, Listening
  <1>3. ASSUME NEW t \in Listening, t # c, Server[t].port = Client[c].port,
               Server[t].families \cap Client[c].dials # {}
        PROVE  FALSE
    <2>1. t \in Names /\ ~ Conflict(c, t)
      BY <1>1, <1>3, Subsets DEF IInv, Exclusive, Listening
    <2> QED
      BY <1>1, <1>2, <1>3, <2>1, Pairs
  <1>4. Reachable(c) = {c}
    BY <1>1, <1>3, LoopersTables DEF Reachable
  <1>5. conn[c] \in {NoOne, c}
    BY <1>3 DEF IInv, TypeOK, Reached, Loopers
  <1> QED
    BY <1>2, <1>4, <1>5

\* Where a loop is at home: before a call, in a call to its own server, or in
\* one that broke when its server ended.
Before(c) == AtHome(c) /\ at[c] = "ready"
Calls_(c) == AtHome(c) /\ at[c] = "sent" /\ conn[c] = c
Lost(c)   == AtHome(c) /\ at[c] = "sent" /\ conn[c] # c
Answer(c) == result[c] = "answer"

\* A loop's own step, at home: it sends, is answered, or hears of a loss.
LEMMA LooperSteps ==
    ASSUME IInv, NEW c \in Loopers, AtHome(c), ClientStep(c)
    PROVE  /\ server' = server
           /\ Before(c) => at'[c] = "sent" /\ conn'[c] = c
           /\ Calls_(c) => Answer(c)'
           /\ Lost(c) => at'[c] = "ready"
  <1>0. c \in Clients /\ c \in Servers /\ Client[c].calls = "for ever"
    BY DEF Loopers
  <1>1. /\ Reachable(c) = {c} /\ conn[c] \in {NoOne, c} /\ c # NoOne
        /\ Server[c].method = Client[c].method /\ server[c] = "up"
    BY LooperAtHome, OnlyJvmLoops, LoopersTables DEF AtHome
  <1>2. CASE Send(c)
    BY <1>0, <1>1, <1>2 DEF Send, Before, Calls_, Lost, IInv, TypeOK, serverVars
  <1>3. CASE Unreachable(c) \/ Refused(c) \/ Deadline(c)
    BY <1>0, <1>1, <1>3, Subsets DEF Unreachable, Refused, Deadline, InFlight
  <1>4. CASE Answered(c)
    BY <1>0, <1>1, <1>4, Subsets
    DEF Answered, InFlight, Done, Before, Calls_, Lost, Answer, IInv, TypeOK, serverVars
  <1>5. CASE Broken(c)
    BY <1>0, <1>1, <1>5 DEF Broken, Done, Before, Calls_, Lost, IInv, TypeOK, serverVars
  <1> QED
    BY <1>2, <1>3, <1>4, <1>5 DEF ClientStep

\* Nobody else moves a loop that stays at home.
LEMMA LooperLeftAlone ==
    ASSUME IInv, NEW c \in Loopers, AtHome(c), AtHome(c)', [Next]_vars
    PROVE  ClientStep(c) \/ (at'[c] = at[c] /\ (conn'[c] = c <=> conn[c] = c))
  <1>0. /\ c \in Clients /\ c \in Servers /\ c # "godemo" /\ server[c] = "up" /\ c # NoOne
        /\ conn[c] \in {NoOne, c} /\ Server[c].method = Client[c].method
    BY LooperAtHome, OnlyJvmLoops, LoopersTables DEF AtHome, Loopers
  <1>1. ASSUME NEW s \in Servers, Listen(s) \/ PortTaken(s) \/ Crash(s) \/ Suspend(s) \/ Resume(s)
        PROVE  at'[c] = at[c] /\ conn'[c] = conn[c]
    <2>1. CASE Listen(s)
      <3>1. conn' = conn /\ (at' = at \/ at' = [at EXCEPT !["godemo"] = "ready"])
        BY <2>1, Zenon DEF Listen
      <3> QED
        BY <1>0, <3>1 DEF IInv, TypeOK
    <2>2. CASE PortTaken(s) \/ Crash(s) \/ Suspend(s) \/ Resume(s)
      BY <2>2 DEF PortTaken, Crash, Suspend, Resume
    <2> QED
      BY <1>1, <2>1, <2>2
  <1>2. ASSUME NEW s \in Servers, End(s)
        PROVE  at'[c] = at[c] /\ conn'[c] = conn[c]
    <2>1. s # c
      BY <1>0, <1>2 DEF End, Become, AtHome, IInv, TypeOK
    <2> QED
      BY <1>0, <1>2, <2>1, Subsets DEF End
  <1>3. ASSUME NEW d \in Clients, d # c,
               StartClient(d) \/ EndClient(d) \/ ClientStep(d) \/ ConnectTimesOut(d)
        PROVE  at'[c] = at[c] /\ conn'[c] = conn[c]
    <2>1. CASE StartClient(d) \/ EndClient(d)
      BY <1>0, <1>3, <2>1 DEF StartClient, EndClient, IInv, TypeOK
    <2>2. CASE Send(d)
      BY <1>0, <1>3, <2>2 DEF Send, IInv, TypeOK
    <2>3. CASE Unreachable(d) \/ Answered(d) \/ Refused(d) \/ Broken(d) \/ Deadline(d) \/ ConnectTimesOut(d)
      <3>1. \E outcome \in {"answer", "error"}, peer \in {conn[d], NoOne} : Done(d, outcome, peer)
        BY <2>3, CallOver
      <3> QED
        BY <1>0, <1>3, <3>1 DEF Done, IInv, TypeOK
    <2> QED
      BY <1>3, <2>1, <2>2, <2>3 DEF ClientStep
  <1>4. ASSUME StartClient(c) \/ EndClient(c) \/ ConnectTimesOut(c)
        PROVE  FALSE
    BY <1>0, <1>4, Subsets DEF StartClient, EndClient, ConnectTimesOut, InFlight, AtHome, IInv, TypeOK
  <1>5. CASE UNCHANGED vars
    BY <1>5 DEF vars
  <1> QED
    BY <1>1, <1>2, <1>3, <1>4, <1>5 DEF Next

\* LoopersRecover for every choice of servers and clients: once their own
\* server stays up, the loops of Java and Kotlin are answered again and again.
THEOREM LoopsRecover == Spec /\ []LoopersCanStep => LoopersRecover
  <1>1. ASSUME NEW c \in Clients \cap Servers, Client[c].calls = "for ever"
        PROVE  Spec /\ []LoopersCanStep =>
                 (<>[](server[c] = "up" /\ at[c] # "off") => []<>(result[c] = "answer"))
    <2>0. c \in Loopers
      BY <1>1 DEF Loopers
    <2>1. IInv /\ AtHome(c) => Before(c) \/ Calls_(c) \/ Lost(c)
      BY DEF IInv, TypeOK, AtHome, Before, Calls_, Lost, Loopers
    <2>2. IInv /\ Before(c) /\ [Next]_vars /\ AtHome(c)' => Before(c)' \/ Calls_(c)'
      BY <2>0, LooperLeftAlone, LooperSteps DEF Before, Calls_, AtHome
    <2>3. IInv /\ Before(c) /\ <<ClientStep(c)>>_vars /\ AtHome(c)' => Calls_(c)'
      BY <2>0, LooperSteps DEF Before, Calls_, AtHome
    <2>4. IInv /\ Calls_(c) /\ [Next]_vars /\ AtHome(c)' => Calls_(c)' \/ Answer(c)'
      BY <2>0, LooperLeftAlone, LooperSteps DEF Calls_, AtHome
    <2>5. IInv /\ Calls_(c) /\ <<ClientStep(c)>>_vars => Answer(c)'
      BY <2>0, LooperSteps DEF Calls_
    <2>6. IInv /\ Lost(c) /\ [Next]_vars /\ AtHome(c)' => Lost(c)' \/ Before(c)'
      BY <2>0, LooperLeftAlone, LooperSteps DEF Lost, Before, AtHome
    <2>7. IInv /\ Lost(c) /\ <<ClientStep(c)>>_vars /\ AtHome(c)' => Before(c)'
      BY <2>0, LooperSteps DEF Lost, Before, AtHome
    <2>8. LoopersCanStep /\ AtHome(c) => ENABLED <<ClientStep(c)>>_vars
      BY <2>0 DEF LoopersCanStep, LoopCanStep
    <2>9. Spec => ClientFair(c)
      BY DEF Spec, Loopers
    <2>10. AtHome(c) <=> server[c] = "up" /\ at[c] # "off"
      BY DEF AtHome
    <2>11. Answer(c) <=> result[c] = "answer"
      BY DEF Answer
    <2> QED
      BY <2>1, <2>2, <2>3, <2>4, <2>5, <2>6, <2>7, <2>8, <2>9, <2>10, <2>11, IInvHolds, PTL
      DEF Spec, ClientFair
  <1> QED
    BY <1>1 DEF LoopersRecover

-----------------------------------------------------------------------------
(* The goroutine of godemo, in a process that runs.                        *)

GoUp == "godemo" \in Clients /\ server["godemo"] = "up"
GoCanStep == GoUp /\ at["godemo"] # "off" => ENABLED <<ClientStep("godemo")>>_vars

\* A goroutine that is off in a process that runs has made all its calls.
GoInv == "godemo" \in Clients /\ server["godemo"] \in {"up", "stuck"} /\ at["godemo"] = "off" => left = 0

LEMMA GoFacts ==
    /\ "godemo" \in Clients => "godemo" \in Servers /\ "godemo" # NoOne
    /\ Client["godemo"].calls = "eleven" /\ Server["godemo"].taken = "failed"
  BY ProgramsAssumption, Domains DEF Names, On50051, Client, GoClient, Server, GoServer

\* Its own steps: it sends, or a call is over and one less is left.
LEMMA GoSteps ==
    ASSUME IInv, "godemo" \in Clients, ClientStep("godemo") \/ ConnectTimesOut("godemo")
    PROVE  /\ server' = server /\ at["godemo"] # "off"
           /\ \/ at["godemo"] = "ready" /\ at'["godemo"] = "sent" /\ left' = left
              \/ /\ at["godemo"] = "sent" /\ left' = left - 1
                 /\ at'["godemo"] \in {"ready", "off"}
                 /\ at'["godemo"] = "off" => ~ (left' > 0)
  <1> DEFINE g == "godemo"
  <1>1. CASE Send(g)
    BY <1>1 DEF Send, serverVars, IInv, TypeOK
  <1>2. CASE Unreachable(g)
    BY <1>2, GoFacts DEF Unreachable
  <1>3. CASE Answered(g) \/ Refused(g) \/ Broken(g) \/ Deadline(g) \/ ConnectTimesOut(g)
    <2>1. /\ at[g] = "sent"
          /\ \E outcome \in {"answer", "error"}, peer \in {conn[g], NoOne} : Done(g, outcome, peer)
      BY <1>3 DEF Answered, Refused, Broken, Deadline, ConnectTimesOut, InFlight
    <2>2. PICK outcome, peer : Done(g, outcome, peer)
      BY <2>1
    <2>3. server' = server /\ left' = left - 1
      BY <2>2, GoFacts DEF Done, serverVars
    <2>4. at'[g] = IF left' > 0 THEN "ready" ELSE "off"
      BY <2>2, GoFacts DEF Done, IInv, TypeOK
    <2> QED
      BY <2>1, <2>3, <2>4
  <1> QED
    BY <1>1, <1>2, <1>3 DEF ClientStep

\* Nobody else moves it or counts its calls but its process.
LEMMA GoLeftAlone ==
    ASSUME IInv, "godemo" \in Clients, [Next]_vars,
           ~ (ClientStep("godemo") \/ ConnectTimesOut("godemo"))
    PROVE  \/ /\ UNCHANGED <<at["godemo"], left>>
              /\ server'["godemo"] \in {"up", "stuck"} => server["godemo"] \in {"up", "stuck"}
           \/ server["godemo"] \in {"off", "failed"} /\ at'["godemo"] = "ready"
           \/ server'["godemo"] = "off"
  <1> DEFINE g == "godemo"
  <1> DEFINE Same == /\ UNCHANGED <<at[g], left>>
                     /\ server'[g] \in {"up", "stuck"} => server[g] \in {"up", "stuck"}
  <1>1. ASSUME NEW s \in Servers, Listen(s)
        PROVE  Same \/ (server[g] \in {"off", "failed"} /\ at'[g] = "ready")
    BY <1>1, GoFacts DEF Listen, Become, IInv, TypeOK
  <1>2. ASSUME NEW s \in Servers, End(s)
        PROVE  Same \/ server'[g] = "off"
    BY <1>2, GoFacts DEF End, Become, IInv, TypeOK
  <1>3. ASSUME NEW s \in Servers, PortTaken(s) \/ Crash(s) \/ Suspend(s) \/ Resume(s)
        PROVE  Same
    BY <1>3, GoFacts DEF PortTaken, Crash, Suspend, Resume, Become, IInv, TypeOK
  <1>4. ASSUME NEW d \in Clients, d # g, ClientStep(d) \/ ConnectTimesOut(d)
        PROVE  Same
    <2>1. CASE Send(d)
      BY <1>4, <2>1 DEF Send, serverVars, IInv, TypeOK
    <2>2. CASE Unreachable(d) \/ Answered(d) \/ Refused(d) \/ Broken(d) \/ Deadline(d) \/ ConnectTimesOut(d)
      <3>1. PICK outcome, peer : Done(d, outcome, peer)
        BY <2>2, CallOver
      <3>2. Client[d].calls # "eleven"
        BY <1>4, OnlyGoCounts, Subsets
      <3> QED
        BY <1>4, <3>1, <3>2 DEF Done, serverVars, IInv, TypeOK
    <2> QED
      BY <1>4, <2>1, <2>2 DEF ClientStep
  <1>5. ASSUME NEW d \in Clients, StartClient(d) \/ EndClient(d)
        PROVE  Same
    BY <1>5 DEF StartClient, EndClient, serverVars, IInv, TypeOK
  <1>6. UNCHANGED vars => Same
    BY DEF vars, serverVars
  <1> QED
    BY <1>1, <1>2, <1>3, <1>4, <1>5, <1>6 DEF Next

LEMMA GoInvHolds == Spec => [](IInv /\ GoInv)
  <1>1. Init => GoInv
    BY DEF Init, GoInv
  <1>2. IInv /\ GoInv /\ [Next]_vars => GoInv'
    <2> SUFFICES ASSUME IInv, GoInv, [Next]_vars, "godemo" \in Clients,
                        server'["godemo"] \in {"up", "stuck"}, at'["godemo"] = "off"
                 PROVE  left' = 0
      BY DEF GoInv
    <2>1. CASE ClientStep("godemo") \/ ConnectTimesOut("godemo")
      <3>1. left \in Nat \ {0} /\ left' = left - 1 /\ ~ (left' > 0)
        BY <2>1, GoSteps, GoFacts DEF IInv, CallsLeft
      <3> QED
        BY <3>1
    <2>2. CASE ~ (ClientStep("godemo") \/ ConnectTimesOut("godemo"))
      BY <2>2, GoLeftAlone DEF GoInv
    <2> QED
      BY <2>1, <2>2
  <1> QED
    BY <1>1, <1>2, IInvHolds, PTL DEF Spec

\* While the process runs its count only falls, one call at a time, whatever
\* the other programs on its port do.
THEOREM GoCountsDown == Spec => [][GoUp /\ GoUp' => left' \in {left, left - 1}]_vars
  <1>1. IInv /\ [Next]_vars => (GoUp /\ GoUp' => left' \in {left, left - 1})
    BY GoSteps, GoLeftAlone DEF GoUp
  <1> QED
    BY <1>1, IInvHolds, PTL DEF Spec

\* GoEnds for every choice of servers and clients and every number of calls:
\* there is no n at which the goroutine's count comes to rest in a process that
\* stays up but at the end, and GoCountsDown has it come to rest.
THEOREM GoRunsOut ==
    ASSUME NEW n
    PROVE  Spec /\ []GoCanStep /\ (<>[]GoUp => <>[](left = n)) => GoEnds
  <1> DEFINE Rests == left = n
             Inv   == IInv /\ GoInv /\ Mixups
             Ready == GoUp /\ at["godemo"] = "ready"
             Sent  == GoUp /\ at["godemo"] = "sent"
             Over  == at["godemo"] = "off" /\ left = 0
  <1>1. ASSUME "godemo" \in Clients
        PROVE  Spec /\ []GoCanStep /\ (<>[]GoUp => <>[]Rests) => (<>[]GoUp => <>[]Over)
    <2> DEFINE g == "godemo"
    <2>1. Inv /\ GoUp /\ GoUp' /\ Rests /\ Rests' /\ [Next]_vars =>
            /\ Ready => Ready' \/ Sent'
            /\ Sent => Sent'
            /\ Over => Over'
      <3> SUFFICES ASSUME Inv, GoUp, GoUp', left' = left, [Next]_vars
                   PROVE  /\ Ready => Ready' \/ Sent'
                          /\ Sent => Sent'
                          /\ Over => Over'
        OBVIOUS
      <3>1. left # left - 1
        BY DEF IInv, TypeOK
      <3> QED
        BY <1>1, <3>1, GoSteps, GoLeftAlone DEF GoUp
    <2>2. Inv /\ GoUp /\ GoUp' /\ Rests /\ Rests' /\ <<ClientStep(g)>>_vars =>
            /\ ~ Sent
            /\ Ready => Sent'
      <3> SUFFICES ASSUME Inv, GoUp, GoUp', left' = left, ClientStep(g)
                   PROVE  ~ Sent /\ (Ready => Sent')
        OBVIOUS
      <3>1. left # left - 1
        BY DEF IInv, TypeOK
      <3> QED
        BY <1>1, <3>1, GoSteps DEF GoUp
    <2>3. Inv /\ GoUp => Ready \/ Sent \/ Over
      BY DEF IInv, TypeOK, GoInv, GoUp
    <2>4. GoCanStep /\ (Ready \/ Sent) => ENABLED <<ClientStep(g)>>_vars
      BY DEF GoCanStep
    <2>5. Spec => ClientFair(g)
      BY <1>1 DEF Spec
    <2>6. Spec => []Inv
      BY GoInvHolds, MixupsAreShared, PTL
    <2> HIDE DEF Inv, Ready, Sent, Over, Rests
    <2>7. Spec /\ []GoCanStep /\ (<>[]GoUp => <>[]Rests) => (<>[]GoUp => <>[]Over)
      BY <2>1, <2>2, <2>3, <2>4, <2>5, <2>6, PTL DEF Spec, ClientFair
    <2> QED
      BY <2>7
  <1>2. ASSUME NEW c \in Clients, Client[c].calls = "eleven"
        PROVE  Spec /\ []GoCanStep /\ (<>[]GoUp => <>[](left = n)) =>
                 (<>[](server[c] = "up") => <>[](at[c] = "off" /\ left = 0))
    <2>1. c = "godemo" /\ "godemo" \in Clients
      BY <1>2, OnlyGoCounts, Subsets
    <2>2. server[c] = "up" <=> GoUp
      BY <2>1 DEF GoUp
    <2>3. at[c] = "off" /\ left = 0 <=> Over
      BY <2>1
    <2>4. Spec /\ []GoCanStep /\ (<>[]GoUp => <>[]Rests) => (<>[]GoUp => <>[]Over)
      BY <1>1, <2>1
    <2> HIDE DEF Over
    <2> QED
      BY <2>2, <2>3, <2>4, PTL
  <1> QED
    BY <1>2 DEF GoEnds

-----------------------------------------------------------------------------
(* The tab. *)

\* The newest navigation, if it is over, is the one that led to what is shown
\* or found it there; no navigation is shown that has not begun.
RInv ==
    /\ last \in 0..MaxNavs /\ here \in 0..last
    /\ DOMAIN went = Navs /\ DOMAIN target = Navs
    /\ last # 0 /\ went[last] = "there" => here = last
    /\ last # 0 /\ went[last] = "duplicate" => here # 0 /\ target[here] = target[last]

LEMMA RouterInitially == RouterInit => RInv
  BY BoundsAssumption DEF RouterInit, RInv, Navs

LEMMA OpenStep == ASSUME NEW p \in Paths, Open(p) PROVE RInv'
  <1>1. DOMAIN went' = Navs /\ DOMAIN target' = Navs
    BY DEF Open
  <1>2. last' \in {0, 1} /\ here' \in 0..last' /\ 1 \in Navs
    BY BoundsAssumption DEF Open, Navs
  <1>3. last' = 1 => went'[1] \in {"loading", "there"} /\ (went'[1] = "there" => here' = 1)
    BY <1>2 DEF Open
  <1> QED
    BY <1>1, <1>2, <1>3, BoundsAssumption DEF RInv, Navs

LEMMA NavigateStep == ASSUME RInv, NEW p, NEW first, Navigate(p, first) PROVE RInv'
  <1> DEFINE n == last + 1
  <1>1. /\ n \in Navs /\ last' = n /\ last \in 0..MaxNavs /\ here \in 0..last
        /\ n \in 1..MaxNavs /\ n # here
    BY BoundsAssumption DEF Navigate, RInv, Navs
  <1>2. PICK ends :
          /\ went' = [went EXCEPT ![n] = ends] /\ ends \in {"duplicate", "loading", "there"}
          /\ ends = "duplicate" => here # 0 /\ target[here] = p
          /\ here' = IF ends = "there" THEN n ELSE here
    BY Zenon DEF Navigate
  <1>3. target' = [target EXCEPT ![n] = p]
    BY DEF Navigate
  <1>4. /\ DOMAIN went' = Navs /\ DOMAIN target' = Navs
        /\ went'[n] = ends /\ target'[n] = p
    BY <1>1, <1>2, <1>3 DEF RInv
  <1>5. here # 0 => target'[here] = target[here]
    BY <1>1, <1>3, BoundsAssumption DEF RInv, Navs
  <1> QED
    BY <1>1, <1>2, <1>4, <1>5, BoundsAssumption DEF RInv

LEMMA LoadEndsStep == ASSUME RInv, NEW n \in Navs, LoadEnds(n) PROVE RInv'
  <1>1. last' = last /\ target' = target
    BY DEF LoadEnds
  <1>2. CASE n = last
    <2>1. went' = [went EXCEPT ![n] = "there"] /\ here' = n
      BY <1>2 DEF LoadEnds
    <2> QED
      BY <1>1, <1>2, <2>1, BoundsAssumption DEF RInv, Navs
  <1>3. CASE n # last
    <2>1. went' = [went EXCEPT ![n] = "overtaken"] /\ here' = here
      BY <1>3 DEF LoadEnds
    <2>2. went'[last] = went[last] /\ DOMAIN went' = DOMAIN went
      BY <1>3, <2>1
    <2> QED
      BY <1>1, <2>1, <2>2 DEF RInv
  <1> QED
    BY <1>2, <1>3

\* Every step of a tab, and every step of anything else, keeps it.
LEMMA RouterStep == RInv /\ [RouterNext]_routerVars => RInv'
  <1> SUFFICES ASSUME RInv, [RouterNext]_routerVars PROVE RInv'
    OBVIOUS
  <1>1. ASSUME UNCHANGED navVars PROVE RInv'
    BY <1>1 DEF navVars, RInv
  <1>2. ASSUME NEW p \in Paths, Push(p) \/ Pop(p) PROVE RInv'
    BY <1>2, NavigateStep DEF Push, Pop
  <1>3. ASSUME NEW n \in Navs, LoadFails(n) PROVE RInv'
    <2>1. /\ last' = last /\ target' = target /\ here' = here
          /\ went' = [went EXCEPT ![n] = "failed"]
      BY <1>3 DEF LoadFails
    <2> QED
      BY <2>1 DEF RInv
  <1>4. TaskEnds \/ Reset \/ UNCHANGED routerVars => UNCHANGED navVars
    BY DEF TaskEnds, Reset, routerVars
  <1> QED
    BY <1>1, <1>2, <1>3, <1>4, OpenStep, LoadEndsStep DEF RouterNext, InDocument, LoadOver

LEMMA RInvIsEnough == RInv => LastNavigationWins
  BY DEF RInv, LastNavigationWins

\* Whatever the calls and the servers do, the tab behaves as PageRouter says.
LEMMA WebStepOfTab == [WebNext]_tabVars => [RouterNext]_routerVars
  <1>1. Click => UNCHANGED routerVars
    BY DEF Click
  <1>2. OpenDocument \/ OpenScript => RouterNext
    BY DEF OpenDocument, OpenScript, RouterNext
  <1>3. UNCHANGED tabVars => UNCHANGED routerVars
    BY DEF tabVars
  <1> QED
    BY <1>1, <1>2, <1>3 DEF WebNext, RouterNext, Calling, Orphan

\* The tab with its calls implements the tab alone.
THEOREM TabRefined == WebSpec => RouterSpec
  <1>1. WebInit => RouterInit
    BY DEF WebInit
  <1> QED
    BY <1>1, WebStepOfTab, PTL DEF WebSpec, RouterSpec

\* LastNavigationWins, in the tab alone and with everything around it.
THEOREM NewestShown ==
    (RouterInit /\ [][RouterNext]_routerVars) => []LastNavigationWins
  <1> QED
    BY RouterInitially, RouterStep, RInvIsEnough, PTL

THEOREM NewestShownInTab == WebSpec => []LastNavigationWins
  BY TabRefined, NewestShown, PTL DEF RouterSpec

-----------------------------------------------------------------------------
\* Liveness of the tab, from the hypothesis that the import of a page can end,
\* which TLC finds in every state of the run.
LoadCanEnd(n) ==
    went[n] = "loading" => ENABLED <<LoadOver(n)>>_routerVars
LoadsCanEnd == \A n \in Navs : LoadCanEnd(n)

\* A path has a first route, and every route has a page.
LEMMA EveryPathHasAPage ==
    ASSUME app \in Routed, NEW p \in Paths
    PROVE  PageOf(p) # "none"
  <1>1. /\ app \in {"v2demo", "v3demo"}
        /\ Routes["v2demo"] = V2Routes /\ Routes["v3demo"] = V3Routes
    BY DEF Routed, Routes
  <1> DEFINE rs == Routes[app]
             First(r) == p \in rs[r].paths /\ \A q \in 1..(r - 1) : p \notin rs[q].paths
  <1>2. /\ app = "v2demo" => DOMAIN rs = 1..5 /\ p \in rs[5].paths
        /\ app = "v3demo" => DOMAIN rs = 1..4 /\ p \in rs[4].paths
    <2>1. DOMAIN V2Routes = 1..5 /\ V2Routes[5].paths = Paths
      BY DEF V2Routes, Route
    <2>2. DOMAIN V3Routes = 1..4 /\ V3Routes[4].paths = Paths
      BY DEF V3Routes, Route
    <2> QED
      BY <1>1, <2>1, <2>2
  <1>3. \E r \in DOMAIN rs : First(r)
    <2>1. CASE app = "v2demo"
      <3>1. p \in rs[5].paths /\ DOMAIN rs = 1..5
        BY <1>2, <2>1
      <3> HIDE DEF rs
      <3> QED
        BY <3>1
    <2>2. CASE app = "v3demo"
      <3>1. p \in rs[4].paths /\ DOMAIN rs = 1..4
        BY <1>2, <2>2
      <3> HIDE DEF rs
      <3> QED
        BY <3>1
    <2> QED
      BY <1>1, <2>1, <2>2
  <1>4. Matched[app][p] = CHOOSE r \in DOMAIN rs : First(r)
    BY DEF Matched
  <1>5. Matched[app][p] \in DOMAIN rs
    <2> HIDE DEF rs, First
    <2> QED
      BY <1>3, <1>4
  <1>6. \A r \in DOMAIN rs : rs[r].page # "none"
    <2>1. CASE app = "v2demo"
      BY <1>1, <2>1 DEF V2Routes, Route
    <2>2. CASE app = "v3demo"
      BY <1>1, <2>2 DEF V3Routes, Route
    <2> QED
      BY <1>1, <2>1, <2>2
  <1> QED
    BY <1>5, <1>6 DEF PageOf, RouteOf

\* A tab whose project has routes has begun to navigate, and its newest
\* navigation waits for its page, is there or has failed.
InTab == app \in Routed /\ tab = "open"
TInv ==
    /\ tab = "open" => ComponentsFound
    /\ InTab => last \in Navs /\ went[last] \in {"loading", "there", "duplicate", "failed"}
    /\ \A n \in 1..last : target[n] \in Paths

LEMMA TabInitially == RouterInit => TInv
  BY DEF RouterInit, TInv, InTab

LEMMA TabStep == RInv /\ TInv /\ [RouterNext]_routerVars => TInv' /\ (InTab => InTab')
  <1> SUFFICES ASSUME RInv, TInv, [RouterNext]_routerVars PROVE TInv' /\ (InTab => InTab')
    OBVIOUS
  <1>1. app' = app /\ shared' = shared
    BY DEF RouterNext, InDocument, TaskEnds, Push, Pop, Navigate, LoadOver, LoadEnds, LoadFails,
           Reset, Open, routerVars
  <1>2. ASSUME NEW p \in Paths, Open(p) PROVE TInv' /\ (InTab => InTab')
    <2>1. 1 \in Navs
      BY BoundsAssumption DEF Navs
    <2>2. tab' = "open" <=> ComponentsFound
      BY <1>2 DEF Open
    <2>3. tab' = "open" /\ app \in Routed => last' = 1 /\ went'[1] \in {"loading", "there"}
      BY <1>2, <2>1 DEF Open
    <2>4. last' \in {0, 1} /\ (last' = 1 => target'[1] = p)
      BY <1>2, <2>1 DEF Open
    <2>5. \A n \in 1..last' : target'[n] \in Paths
      BY <2>4
    <2> QED
      BY <1>1, <2>1, <2>2, <2>3, <2>5 DEF TInv, InTab, ComponentsFound
  <1>3. ASSUME NEW p \in Paths, NEW first, Navigate(p, first)
        PROVE  TInv' /\ (InTab => InTab')
    <2> DEFINE n == last + 1
    <2>1. n \in Navs /\ last' = n /\ tab' = tab /\ target' = [target EXCEPT ![n] = p]
      BY <1>3 DEF Navigate
    <2>2. PICK ends \in {"duplicate", "loading", "there"} : went' = [went EXCEPT ![n] = ends]
      BY <1>3, Zenon DEF Navigate
    <2>3. went'[n] \in {"duplicate", "loading", "there"} /\ target'[n] = p
      BY <2>1, <2>2 DEF RInv
    <2>4. \A m \in 1..n : target'[m] \in Paths
      BY <2>1, <2>3, BoundsAssumption DEF RInv, TInv, Navs
    <2> QED
      BY <1>1, <2>1, <2>3, <2>4 DEF TInv, InTab, ComponentsFound
  <1>4. ASSUME NEW n \in Navs, LoadEnds(n) \/ LoadFails(n)
        PROVE  TInv' /\ (InTab => InTab')
    <2>1. last' = last /\ tab' = tab /\ target' = target
      BY <1>4 DEF LoadEnds, LoadFails
    <2>2. PICK ends : /\ went' = [went EXCEPT ![n] = ends]
                      /\ n = last => ends \in {"there", "failed"}
      BY <1>4 DEF LoadEnds, LoadFails
    <2>3. went'[last] = went[last] \/ went'[last] \in {"there", "failed"}
      BY <2>2
    <2> QED
      BY <1>1, <2>1, <2>3 DEF TInv, InTab, ComponentsFound
  <1>5. CASE TaskEnds \/ Reset \/ UNCHANGED routerVars
    BY <1>5 DEF TaskEnds, Reset, routerVars, navVars, TInv, InTab, ComponentsFound
  <1> QED
    BY <1>2, <1>3, <1>4, <1>5 DEF RouterNext, InDocument, Push, Pop, LoadOver

LEMMA TabSound == RouterSpec => [](RInv /\ TInv)
  BY RouterInitially, TabInitially, RouterStep, TabStep, PTL DEF RouterSpec

\* What is in the tab when its newest navigation is over.
LEMMA OverIsShown ==
    RInv /\ TInv /\ InTab /\ went[last] # "loading" =>
      Shown # "none" \/ Unfetched
  <1> SUFFICES ASSUME RInv, TInv, InTab, went[last] \notin {"loading", "failed"}
               PROVE  Shown # "none"
    BY DEF TInv, Unfetched
  <1>1. here # 0 /\ here \in 1..last
    BY BoundsAssumption DEF RInv, TInv, Navs
  <1>2. target[here] \in Paths
    BY <1>1 DEF TInv
  <1>3. app \notin Scripts
    BY DEF InTab, Routed, Routes, Scripts
  <1> QED
    BY <1>1, <1>2, <1>3, EveryPathHasAPage DEF Shown, Mounted, InTab

\* ShownAnyway, for every number of navigations and documents, once no more
\* navigations begin: the page is shown or could not be fetched, whether or not
\* the timer of App.vue's hooks ever fires.  A tab that is pushed on before each
\* import ends stays empty for as long; the model's MaxNavs alone ends that.
THEOREM ShownWhenLeftAlone ==
    ASSUME NEW k
    PROVE  RouterSpec /\ []LoadsCanEnd /\ <>[](last = k) => ShownAnyway
  <1> DEFINE Alone == last = k
             Waits == InTab /\ last = k /\ went[k] = "loading"
             Over  == Shown # "none" \/ Unfetched
             Inv   == RInv /\ TInv
  <1>1. Inv /\ InTab /\ Alone => (Waits \/ Over) /\ k \in Navs
    BY OverIsShown DEF TInv
  <1>2. Inv /\ InTab /\ [RouterNext]_routerVars => InTab'
    BY TabStep
  <1>3. RouterSpec => []Inv
    BY TabSound
  <1>4. app \in Routed /\ tab = "open" <=> InTab
    BY DEF InTab
  <1>5. CASE k \in Navs
    <2>1. Inv /\ Waits /\ <<LoadOver(k)>>_routerVars => ~ Waits'
      BY <1>5 DEF LoadOver, LoadEnds, LoadFails, RInv
    <2>2. LoadsCanEnd /\ Waits => ENABLED <<LoadOver(k)>>_routerVars
      <3>1. LoadsCanEnd => LoadCanEnd(k)
        BY <1>5 DEF LoadsCanEnd
      <3> QED
        BY <3>1 DEF LoadCanEnd
    <2>3. RouterSpec => LoadFair(k)
      BY <1>5 DEF RouterSpec, RouterFairness
    <2> HIDE DEF Waits, Inv, Over, Alone
    <2>4. RouterSpec /\ []LoadsCanEnd /\ <>[]Alone => (InTab ~> Over)
      BY <1>1, <1>2, <1>3, <2>1, <2>2, <2>3, PTL DEF RouterSpec, LoadFair
    <2> QED
      BY <1>4, <2>4, PTL DEF ShownAnyway, Over, Alone
  <1>6. CASE k \notin Navs
    <2>1. Inv /\ InTab => ~ Alone
      BY <1>1, <1>6
    <2> HIDE DEF Waits, Inv
    <2> QED
      BY <1>2, <1>3, <1>4, <2>1, PTL DEF RouterSpec, ShownAnyway
  <1> QED
    BY <1>5, <1>6

\* The same of the tab with its calls and servers around it.
THEOREM ShownInTab ==
    ASSUME NEW k
    PROVE  WebSpec /\ []LoadsCanEnd /\ <>[](last = k) => ShownAnyway
  BY TabRefined, ShownWhenLeftAlone, PTL

-----------------------------------------------------------------------------
(* What becomes of a push.                                                 *)

\* The pushes that resolved for their caller though the tab did not go there.
Misled == {n \in Navs : promise[n] = "resolved" /\ went[n] \notin {"there", "duplicate"}}

MisledAreReported == Misled = reported /\ \A n \in Misled : n < last /\ went[n] = "overtaken"

PushInv ==
    /\ last \in 0..MaxNavs
    /\ DOMAIN went = Navs /\ DOMAIN promise = Navs /\ reported \subseteq Navs
    /\ \A n \in Navs :
         /\ n > last => went[n] = "none" /\ promise[n] = "none"
         /\ promise[n] \in {"none", "pending", "resolved"}
         /\ promise[n] # "none" => app = "v2demo"
         /\ promise[n] = "pending" => went[n] = "loading"
         /\ promise[n] = "resolved" => went[n] \in {"there", "duplicate", "overtaken"}
         /\ went[n] = "overtaken" => n < last
         /\ n \in reported <=> promise[n] = "resolved" /\ went[n] = "overtaken"

\* Every step keeps what is known of the pushes.
LEMMA PushStep == PushInv /\ [RouterNext]_routerVars => PushInv'
  <1> SUFFICES ASSUME PushInv, [RouterNext]_routerVars PROVE PushInv'
    OBVIOUS
  <1>0. MaxNavs \in Nat /\ MaxNavs >= 1 /\ Navs = 1..MaxNavs
    BY BoundsAssumption DEF Navs
  <1>1. ASSUME NEW p \in Paths, Open(p) PROVE PushInv'
    BY <1>0, <1>1 DEF Open, PushInv
  <1>2. CASE TaskEnds \/ Reset \/ UNCHANGED routerVars
    BY <1>2 DEF TaskEnds, Reset, routerVars, navVars, PushInv
  <1>3. ASSUME NEW p \in Paths, NEW first \in {"none", "pending"}, Navigate(p, first)
        PROVE  PushInv'
    <2> DEFINE n == last + 1
    <2>1. PICK ends \in {"duplicate", "loading", "there"} :
            /\ went' = [went EXCEPT ![n] = ends]
            /\ promise' = [promise EXCEPT ![n] = Returned(first, ends)]
      BY <1>3 DEF Navigate
    <2>2. n \in Navs /\ last' = n /\ app = "v2demo" /\ app' = app /\ reported' = reported
      BY <1>3 DEF Navigate
    <2>3. n \notin reported /\ last \in Nat
      BY <1>0, <2>2 DEF PushInv
    <2>4. /\ Returned(first, ends) \in {"none", "pending", "resolved"}
          /\ Returned(first, ends) = "pending" => ends = "loading"
          /\ Returned(first, ends) = "resolved" => ends \in {"duplicate", "there"}
      BY <1>3 DEF Returned
    <2>5. /\ went'[n] = ends /\ promise'[n] = Returned(first, ends)
          /\ \A q \in Navs \ {n} : went'[q] = went[q] /\ promise'[q] = promise[q]
          /\ DOMAIN went' = Navs /\ DOMAIN promise' = Navs
      BY <2>1, <2>2 DEF PushInv
    <2> HIDE DEF n
    <2>6. last < n /\ \A q \in Navs : q > n => q > last
      BY <1>0, <2>3 DEF n
    <2>7. last' \in 0..MaxNavs
      BY <1>0, <2>2
    <2> QED
      BY <1>0, <2>1, <2>2, <2>3, <2>4, <2>5, <2>6, <2>7 DEF PushInv
  <1>4. ASSUME NEW n \in Navs, LoadEnds(n) PROVE PushInv'
    <2>1. PICK ends \in {"there", "overtaken"} :
            /\ ends = "overtaken" => n # last
            /\ went' = [went EXCEPT ![n] = ends]
            /\ promise' = [promise EXCEPT ![n] = Returned(@, ends)]
            /\ reported' = IF Thrown(promise[n], ends) THEN reported \cup {n} ELSE reported
      BY <1>4 DEF LoadEnds
    <2>2. went[n] = "loading" /\ UNCHANGED <<last, app>>
      BY <1>4 DEF LoadEnds
    <2>3. n <= last /\ promise[n] \in {"none", "pending"} /\ n \notin reported
      BY <1>0, <2>2 DEF PushInv
    <2>4. /\ went'[n] = ends /\ promise'[n] = Returned(promise[n], ends)
          /\ \A q \in Navs \ {n} : went'[q] = went[q] /\ promise'[q] = promise[q]
          /\ DOMAIN went' = Navs /\ DOMAIN promise' = Navs
      BY <2>1 DEF PushInv
    <2>5. n \in reported' <=> promise[n] = "pending" /\ ends = "overtaken"
      BY <2>1, <2>3 DEF Thrown
    <2>6. /\ promise[n] = "pending" => promise'[n] = "resolved"
          /\ promise[n] = "none" => promise'[n] = "none"
      BY <2>1, <2>4 DEF Returned
    <2>7. \A q \in Navs \ {n} : q \in reported' <=> q \in reported
      BY <2>1
    <2> QED
      BY <1>0, <2>1, <2>2, <2>3, <2>4, <2>5, <2>6, <2>7 DEF PushInv
  <1>5. ASSUME NEW n \in Navs, LoadFails(n) PROVE PushInv'
    <2>1. /\ app = "v3demo" /\ went[n] = "loading" /\ went' = [went EXCEPT ![n] = "failed"]
          /\ UNCHANGED <<app, last, promise, reported>>
      BY <1>5 DEF LoadFails
    <2>2. promise[n] = "none" /\ n <= last
      BY <1>0, <2>1 DEF PushInv
    <2>3. /\ went'[n] = "failed" /\ DOMAIN went' = Navs
          /\ \A q \in Navs \ {n} : went'[q] = went[q]
      BY <2>1 DEF PushInv
    <2> QED
      BY <1>0, <2>1, <2>2, <2>3 DEF PushInv
  <1> QED
    BY <1>1, <1>2, <1>3, <1>4, <1>5 DEF RouterNext, InDocument, LoadOver, Push, Pop

\* What the comment on Router.push (router.js:21) says is wrong of the pushes
\* that a later navigation overtook, and of no others: the newest push never
\* resolves for its caller without being there, and the window hears of exactly
\* those that do (unhandledrejection), for every number of navigations and resets.
THEOREM OnlyOvertakenMislead == RouterSpec => []MisledAreReported
  <1>1. RouterInit => PushInv
    BY BoundsAssumption DEF RouterInit, PushInv, Navs
  <1>2. PushInv => MisledAreReported
    BY DEF PushInv, MisledAreReported, Misled
  <1> QED
    BY <1>1, <1>2, PushStep, PTL DEF RouterSpec

\* The same in the tab with its calls and servers.
THEOREM OnlyOvertakenMisleadInTab == WebSpec => []MisledAreReported
  BY TabRefined, OnlyOvertakenMislead, PTL

-----------------------------------------------------------------------------
(* The calls. *)

\* A call knows by its place whether its handler has run; only of one that has
\* failed, was cut or dropped it cannot be told, and only such a one, or one
\* that is with its server, may be handled yet.
SInv ==
    /\ DOMAIN place = Calls /\ DOMAIN served = Calls
    /\ \A c \in Calls :
         /\ served[c] \in {0, 1}
         /\ place[c] \in {"idle", "asked", "posted", "upstream"} => served[c] = 0
         /\ place[c] \in {"served", "timer", "ok"} => served[c] = 1
         /\ c \in held => served[c] = 0 /\ place[c] \in {"upstream", "cut", "failed", "dropped"}

LEMMA CallsInitially == GrpcWebInit => SInv
  BY DEF GrpcWebInit, SInv

\* A call that goes on without its handler, and not to where only an answered
\* one can be.
LEMMA MoveStep ==
    ASSUME SInv, NEW c \in Calls, NEW from, NEW to, Move(c, from, to), served' = served,
           held' = held \/ (to = "upstream" /\ held' = held \cup {c}),
           \/ to \in {"failed", "cut", "dropped"}
           \/ from = "asked" /\ to = "posted"
           \/ from = "posted" /\ to = "upstream"
           \/ from \in {"served", "timer"} /\ to \in {"timer", "ok"}
    PROVE  SInv'
  <1>1. place[c] = from /\ place' = [place EXCEPT ![c] = to]
    BY DEF Move
  <1>2. \A d \in Calls : place'[d] = IF d = c THEN to ELSE place[d]
    BY <1>1 DEF SInv
  <1>3. DOMAIN place' = Calls
    BY <1>1 DEF SInv
  <1>4. \A d \in Calls : d \in held' => d \in held \/ (d = c /\ to = "upstream")
    OBVIOUS
  <1> QED
    BY <1>1, <1>2, <1>3, <1>4 DEF SInv

\* A handler runs for a call that is with its server or that nobody waits for.
LEMMA HandleStep ==
    ASSUME SInv, NEW c \in Calls, Handles(c), DOMAIN place' = Calls,
           \A d \in Calls \ {c} : place'[d] = place[d],
           \/ place'[c] = place[c] /\ place[c] # "upstream"
           \/ place'[c] = "served"
    PROVE  SInv'
  <1>1. c \in held /\ served' = [served EXCEPT ![c] = served[c] + 1] /\ held' = held \ {c}
    BY DEF Handles, Handled
  <1>2. served[c] = 0 /\ place[c] \in {"upstream", "cut", "failed", "dropped"}
    BY <1>1 DEF SInv
  <1>3. DOMAIN served' = Calls /\ served'[c] = 1 /\ c \notin held'
    BY <1>1, <1>2 DEF SInv
  <1>4. \A d \in Calls \ {c} : served'[d] = served[d] /\ (d \in held' => d \in held)
    BY <1>1
  <1> QED
    BY <1>2, <1>3, <1>4 DEF SInv

LEMMA ServeStep == ASSUME SInv, NEW c \in Calls, Serve(c) PROVE SInv'
  <1>1. Handles(c) /\ place' = [place EXCEPT ![c] = "served"]
    BY DEF Serve, Move
  <1>2. /\ DOMAIN place' = Calls /\ place'[c] = "served"
        /\ \A d \in Calls \ {c} : place'[d] = place[d]
    BY <1>1 DEF SInv
  <1> QED
    BY <1>1, <1>2, HandleStep, Zenon

LEMMA OrphanStep == ASSUME SInv, NEW c \in Calls, OrphanRuns(c) PROVE SInv'
  <1>1. Handles(c) /\ place' = place /\ place[c] \in {"cut", "failed", "dropped"}
    BY DEF OrphanRuns
  <1>2. /\ DOMAIN place' = Calls /\ place'[c] = place[c] /\ place[c] # "upstream"
        /\ \A d \in Calls \ {c} : place'[d] = place[d]
    BY <1>1 DEF SInv
  <1> QED
    BY <1>1, <1>2, HandleStep, Zenon

LEMMA GarbledStep == ASSUME SInv, NEW c \in Calls, Garbled(c) PROVE SInv'
  <1>1. place[c] = "posted" /\ place' = [place EXCEPT ![c] = "failed"]
    BY DEF Garbled, Move
  <1>2. served[c] = 0 /\ c \notin held
    BY <1>1 DEF SInv
  <1>3. \/ served' = [served EXCEPT ![c] = served[c] + 1] /\ held' = held
        \/ served' = served /\ held' \in {held, held \cup {c}}
    BY DEF Garbled, Handled
  <1>4. /\ served'[c] \in {0, 1} /\ (c \in held' => served'[c] = 0)
        /\ \A d \in Calls \ {c} : served'[d] = served[d] /\ (d \in held' => d \in held)
        /\ DOMAIN served' = Calls
    BY <1>2, <1>3 DEF SInv
  <1>5. DOMAIN place' = Calls /\ place'[c] = "failed" /\ \A d \in Calls \ {c} : place'[d] = place[d]
    BY <1>1 DEF SInv
  <1> QED
    BY <1>4, <1>5 DEF SInv

LEMMA CallStepKeeps == ASSUME SInv, NEW c \in Calls, CallStep(c) PROVE SInv'
  <1>1. CASE Preflight(c)
    BY <1>1, MoveStep, Zenon DEF Preflight
  <1>2. CASE Denied(c) \/ NotForwarded(c) \/ BrokenOff(c) \/ IdleTimeout(c)
    BY <1>2, MoveStep, Zenon DEF Denied, NotForwarded, BrokenOff, IdleTimeout, Fail
  <1>3. CASE Forward(c)
    BY <1>3, MoveStep, Zenon DEF Forward
  <1>4. CASE Return(c)
    BY <1>4, MoveStep, Zenon DEF Return
  <1>5. CASE TimerFires(c)
    BY <1>5, MoveStep, Zenon DEF TimerFires
  <1> QED
    BY <1>1, <1>2, <1>3, <1>4, <1>5, ServeStep, GarbledStep DEF CallStep

\* A step that leaves the handlers alone, asks anew or takes a call off its way.
LEMMA Disturbed ==
    ASSUME SInv, served' = served, held' \subseteq held, DOMAIN place' = Calls,
           \A c \in Calls : \/ place'[c] = place[c]
                            \/ place'[c] \in {"cut", "dropped"}
                            \/ place[c] = "idle" /\ place'[c] = "asked"
    PROVE  SInv'
  BY DEF SInv

LEMMA TabStepKeeps == ASSUME SInv, Click \/ OpenDocument \/ OpenScript PROVE SInv'
  <1>1. CASE Click
    <2>1. PICK c \in Calls : place[c] = "idle" /\ place' = [place EXCEPT ![c] = "asked"]
      BY <1>1 DEF Click, Ask
    <2>2. served' = served /\ held' = held
      BY <1>1 DEF Click
    <2> QED
      BY <2>1, <2>2, Disturbed DEF SInv
  <1>2. CASE OpenDocument
    <2>1. served' = served /\ held' = held /\ place' = [c \in Calls |-> Reopened(c)]
      BY <1>2 DEF OpenDocument
    <2> QED
      BY <2>1, Disturbed DEF Reopened
  <1>3. CASE OpenScript
    <2>1. PICK c \in Calls :
            /\ place[c] = "idle" /\ served' = served /\ held' = held
            /\ place' = [d \in Calls |-> IF d = c THEN "asked" ELSE Reopened(d)]
      BY <1>3 DEF OpenScript, Ask
    <2> QED
      BY <2>1, Disturbed DEF Reopened
  <1> QED
    BY <1>1, <1>2, <1>3

LEMMA ServersStepKeeps == ASSUME SInv, FrontDies \/ FrontStarts \/ MachineStep PROVE SInv'
  <1>1. CASE FrontDies
    <2>1. /\ served' = served /\ held' \subseteq held /\ DOMAIN place' = Calls
          /\ \A c \in Calls : place'[c] \in {"cut", place[c]}
      BY <1>1 DEF FrontDies
    <2> QED
      BY <2>1, Disturbed
  <1>2. CASE FrontStarts
    BY <1>2 DEF FrontStarts, callVars, SInv
  <1>3. CASE MachineStep
    <2>1. /\ served' = served /\ held' \subseteq held /\ DOMAIN place' = Calls
          /\ \A c \in Calls : place'[c] \in {"cut", place[c]}
      BY <1>3 DEF MachineStep
    <2> QED
      BY <2>1, Disturbed
  <1> QED
    BY <1>1, <1>2, <1>3

LEMMA CallsKept == SInv /\ [WebNext]_tabVars => SInv'
  <1> SUFFICES ASSUME SInv, [WebNext]_tabVars PROVE SInv'
    OBVIOUS
  <1>1. ASSUME UNCHANGED callVars PROVE SInv'
    BY <1>1 DEF callVars, SInv
  <1>2. (InDocument /\ UNCHANGED <<vars, front, callVars>>) \/ UNCHANGED tabVars
          => UNCHANGED callVars
    BY DEF tabVars
  <1> QED
    BY <1>1, <1>2, CallStepKeeps, OrphanStep, TabStepKeeps, ServersStepKeeps
       DEF WebNext, Calling, Orphan

\* SInv holds and ServedOnce with it.
THEOREM HandlersRunOnce == WebSpec => []ServedOnce
  <1>1. WebInit => SInv
    BY CallsInitially DEF WebInit
  <1>2. SInv => ServedOnce
    BY DEF SInv, ServedOnce
  <1> QED
    BY <1>1, <1>2, CallsKept, PTL DEF WebSpec

Direct == {"IndexPage", "GrpcPage"}

\* A call of such a page never gets past its preflight, and no server has it.
DInv ==
    /\ DOMAIN page = Calls /\ DOMAIN place = Calls /\ DOMAIN served = Calls
    /\ \A c \in Calls :
         page[c] \in Direct => /\ served[c] = 0 /\ c \notin held
                               /\ place[c] \in {"asked", "failed", "dropped"}

LEMMA DirectRefused == ASSUME NEW c, page[c] \in Direct PROVE ~ Allowed(c)
  <1>1. Page[page[c]] = DirectPage
    BY DEF Direct, Page
  <1>2. DirectPage.dials = "dynserver"
    BY DEF DirectPage, Dials
  <1>3. Front["dynserver"] = Dynserver
    BY DEF Front
  <1>4. ~ Dynserver.answers
    BY DEF Dynserver
  <1> QED
    BY <1>1, <1>2, <1>3, <1>4 DEF Allowed, Accepts, Of

LEMMA DirectCallStep == ASSUME DInv, NEW c \in Calls, CallStep(c) PROVE DInv'
  <1>1. page' = page
    BY DEF CallStep, Preflight, Denied, Forward, Garbled, NotForwarded, Serve, Return,
           TimerFires, BrokenOff, IdleTimeout, Fail, Move
  <1>2. CASE page[c] \in Direct
    <2>1. place[c] \in {"asked", "failed", "dropped"}
      BY <1>2 DEF DInv
    <2>2. Denied(c)
      BY <1>2, <2>1, DirectRefused
         DEF CallStep, Preflight, Forward, Garbled, NotForwarded, Serve, Return,
             TimerFires, BrokenOff, IdleTimeout, Fail, Move
    <2>3. place' = [place EXCEPT ![c] = "failed"] /\ served' = served /\ held' = held
      BY <2>2 DEF Denied, Fail, Move
    <2> QED
      BY <1>1, <1>2, <2>3 DEF DInv
  <1>3. CASE page[c] \notin Direct
    <2>1. \E to : place' = [place EXCEPT ![c] = to]
      BY Zenon DEF CallStep, Preflight, Denied, Forward, Garbled, NotForwarded, Serve, Return,
             TimerFires, BrokenOff, IdleTimeout, Fail, Move
    <2>2. \E times : served' = [served EXCEPT ![c] = times] \/ served' = served
      BY Zenon DEF CallStep, Preflight, Denied, Forward, Garbled, NotForwarded, Serve, Return,
             TimerFires, BrokenOff, IdleTimeout, Fail, Handles, Handled
    <2>3. held' \subseteq held \cup {c}
      BY DEF CallStep, Preflight, Denied, Forward, Garbled, NotForwarded, Serve, Return,
             TimerFires, BrokenOff, IdleTimeout, Fail, Handles
    <2>4. /\ DOMAIN place' = DOMAIN place /\ DOMAIN served' = DOMAIN served
          /\ \A d \in Calls \ {c} : /\ place'[d] = place[d] /\ served'[d] = served[d]
                                    /\ d \in held' => d \in held
      BY <2>1, <2>2, <2>3 DEF DInv
    <2>5. \A d \in Calls \ {c} :
            page'[d] \in Direct => /\ served'[d] = 0 /\ d \notin held'
                                   /\ place'[d] \in {"asked", "failed", "dropped"}
      BY <1>1, <2>4 DEF DInv
    <2> QED
      BY <1>1, <1>3, <2>4, <2>5 DEF DInv
  <1> QED
    BY <1>2, <1>3

LEMMA DirectOrphanStep == ASSUME DInv, NEW c \in Calls, OrphanRuns(c) PROVE DInv'
  <1>1. /\ c \in held /\ served' = [served EXCEPT ![c] = served[c] + 1]
        /\ held' = held \ {c} /\ page' = page /\ place' = place
    BY DEF OrphanRuns, Handles, Handled
  <1>2. page[c] \notin Direct
    BY <1>1 DEF DInv
  <1> QED
    BY <1>1, <1>2 DEF DInv

LEMMA DirectDisturbed ==
    ASSUME SInv, DInv, served' = served, held' \subseteq held,
           DOMAIN place' = Calls, DOMAIN page' = Calls,
           \A c \in Calls :
             \/ page'[c] = page[c] /\ place'[c] \in {place[c], "dropped"}
             \/ page'[c] = page[c] /\ OnTheWay(c)
             \/ place[c] = "idle" /\ place'[c] = "asked"
    PROVE  DInv'
  <1> SUFFICES ASSUME NEW c \in Calls, page'[c] \in Direct
               PROVE  /\ served[c] = 0 /\ c \notin held'
                      /\ place'[c] \in {"asked", "failed", "dropped"}
    BY DEF DInv
  <1>1. CASE page'[c] = page[c] /\ place'[c] \in {place[c], "dropped"}
    BY <1>1 DEF DInv
  <1>2. CASE page'[c] = page[c] /\ OnTheWay(c)
    BY <1>2 DEF DInv, OnTheWay
  <1>3. CASE place[c] = "idle" /\ place'[c] = "asked"
    BY <1>3 DEF SInv
  <1> QED
    BY <1>1, <1>2, <1>3

LEMMA DirectKept == SInv /\ DInv /\ [WebNext]_tabVars => DInv'
  <1> SUFFICES ASSUME SInv, DInv, [WebNext]_tabVars PROVE DInv'
    OBVIOUS
  <1>1. ASSUME UNCHANGED callVars PROVE DInv'
    BY <1>1 DEF callVars, DInv
  <1>2. CASE Click
    <2>1. PICK c \in Calls : /\ place[c] = "idle" /\ place' = [place EXCEPT ![c] = "asked"]
                             /\ page' = [page EXCEPT ![c] = Shown]
                             /\ served' = served /\ held' = held
      BY <1>2 DEF Click, Ask
    <2> QED
      BY <2>1, DirectDisturbed DEF DInv
  <1>3. CASE OpenDocument
    <2>1. /\ served' = served /\ held' = held /\ page' = page
          /\ place' = [c \in Calls |-> Reopened(c)]
      BY <1>3 DEF OpenDocument
    <2> QED
      BY <2>1, DirectDisturbed DEF Reopened, DInv
  <1>4. CASE OpenScript
    <2>1. PICK c \in Calls :
            /\ place[c] = "idle" /\ served' = served /\ held' = held
            /\ page' = [page EXCEPT ![c] = app]
            /\ place' = [d \in Calls |-> IF d = c THEN "asked" ELSE Reopened(d)]
      BY <1>4 DEF OpenScript, Ask
    <2> QED
      BY <2>1, DirectDisturbed DEF Reopened, DInv
  <1>5. CASE FrontDies
    <2>1. /\ served' = served /\ held' \subseteq held /\ page' = page /\ DOMAIN place' = Calls
          /\ \A c \in Calls : place'[c] = place[c] \/ OnTheWay(c)
      BY <1>5 DEF FrontDies
    <2> QED
      BY <2>1, DirectDisturbed DEF DInv
  <1>6. CASE MachineStep
    <2>1. /\ served' = served /\ held' \subseteq held /\ page' = page /\ DOMAIN place' = Calls
          /\ \A c \in Calls : place'[c] = place[c] \/ OnTheWay(c)
      BY <1>6 DEF MachineStep
    <2> QED
      BY <2>1, DirectDisturbed DEF DInv
  <1>7. FrontStarts \/ (InDocument /\ UNCHANGED <<vars, front, callVars>>) \/ UNCHANGED tabVars
          => UNCHANGED callVars
    BY DEF tabVars, FrontStarts
  <1> QED
    BY <1>1, <1>2, <1>3, <1>4, <1>5, <1>6, <1>7, DirectCallStep, DirectOrphanStep
       DEF WebNext, Calling, Orphan

\* No server is reached by the pages that dial it directly.
THEOREM DirectIsHopeless == WebSpec => []DirectNeverServed
  <1>1. WebInit => SInv /\ DInv
    BY CallsInitially DEF WebInit, GrpcWebInit, DInv, Direct
  <1>2. DInv => DirectNeverServed
    BY DEF DInv, DirectNeverServed, Direct
  <1> QED
    BY <1>1, <1>2, CallsKept, DirectKept, PTL DEF WebSpec

\* What the browser does leaves the machine of DemoMachine as it is.
THEOREM MachineRefined == WebSpec => Init /\ [][Next]_vars
  <1>1. WebInit => Init
    BY DEF WebInit
  <1>2. [WebNext]_tabVars => [Next]_vars
    BY DEF WebNext, tabVars, Click, OpenDocument, OpenScript, Calling, Orphan, MachineStep
  <1> QED
    BY <1>1, <1>2, PTL DEF WebSpec

-----------------------------------------------------------------------------
(* A call implements UnaryCall. *)

\* A call that is not over has told nobody, and one that goes on comes from a
\* page that calls.
UInv ==
    /\ DOMAIN page = Calls /\ DOMAIN heard = Calls
    /\ \A c \in Calls : /\ place[c] \in Going => page[c] \in DOMAIN Page
                        /\ place[c] \in Going \cup {"idle"} => heard[c] = "no"

LEMMA UnaryInitially == WebInit => UInv /\ Unary!Init
  BY DEF WebInit, GrpcWebInit, UInv, Going, Unary!Init, State

LEMMA Domain == DOMAIN Page = Clickable \cup {"webpackgrpc", "vitetsgrpc", "grpcdemo"}
  BY DEF Page, Clickable

\* Somebody is named for every outcome, and nobody's timer waits for an error.
LEMMA Hearers ==
    \A p \in DOMAIN Page : /\ Page[p].answer # "no"
                           /\ Page[p].error \notin {"no", "timer"}
  <1>1. /\ Page["webpackgrpc"] = WebpackPage /\ Page["vitetsgrpc"] = ViteTsPage
        /\ Page["grpcdemo"] = StaticPage /\ Page["IndexPage"] = DirectPage
        /\ Page["DemoPage"] = AspNetPage /\ Page["Index"] = JswbPage
        /\ Page["GrpcPage"] = DirectPage /\ Page["ImprobableGrpcPage"] = ImprobablePage
    BY DEF Page
  <1>2. \A d \in {WebpackPage, ViteTsPage, StaticPage, DirectPage, AspNetPage, JswbPage, ImprobablePage} :
          d.answer # "no" /\ d.error \notin {"no", "timer"}
    BY DEF WebpackPage, ViteTsPage, StaticPage, DirectPage, AspNetPage, JswbPage,
           ImprobablePage, Dials
  <1> QED
    BY <1>1, <1>2, Domain DEF Clickable

\* One call goes to a place, its handler has run so often, so much is heard.
Moves(c, to, times, who) ==
    /\ page' = page /\ DOMAIN heard' = Calls
    /\ place'[c] = to /\ served'[c] = times /\ heard'[c] = who
    /\ \A d \in Calls \ {c} :
         place'[d] = place[d] /\ served'[d] = served[d] /\ heard'[d] = heard[d]

LEMMA MovesRefine ==
    ASSUME SInv, UInv, NEW c \in Calls, place[c] \in Going,
           NEW to, NEW times, NEW who, Moves(c, to, times, who),
           times = served[c] \/ (served[c] = 0 /\ times = 1),
           \/ to \in Going /\ who = "no"
           \/ to = "ok" /\ times = served[c] /\ served[c] = 1 /\ who # "no"
           \/ to = "failed" /\ who # "no"
    PROVE  UInv' /\ Unary!Next
  <1>1. UInv'
    BY DEF Moves, UInv, Going
  <1>2. \A d \in Calls \ {c} : Unary!Step(d)
    BY DEF Moves, Unary!Step, Unary!Rest, Unary!Turns, State
  <1>3. heard[c] = "no" /\ State[c] = "going"
    BY DEF UInv, State
  <1>4. CASE to \in Going /\ who = "no"
    <2>1. State'[c] = "going"
      BY <1>4 DEF Moves, State
    <2> QED
      BY <1>1, <1>2, <1>3, <1>4, <2>1
         DEF Moves, Unary!Next, Unary!Step, Unary!Handle, Unary!MayRun, Unary!Turns
  <1>5. CASE to \in {"ok", "failed"}
    <2>1. State'[c] = to
      BY <1>5 DEF Moves, State, Going
    <2> QED
      BY <1>1, <1>2, <1>3, <1>5, <2>1
         DEF Moves, Unary!Next, Unary!Step, Unary!Answer, Unary!Fail, Unary!MayRun, Unary!Turns, Going
  <1> QED
    BY <1>4, <1>5

LEMMA CallStepRefines ==
    ASSUME SInv, UInv, NEW c \in Calls, CallStep(c)
    PROVE  UInv' /\ Unary!Next
  <1>1. ASSUME NEW from \in Going, Fail(c, from) PROVE UInv' /\ Unary!Next
    <2>1. /\ place[c] = from /\ place' = [place EXCEPT ![c] = "failed"] /\ page' = page
          /\ served' = served /\ heard' = [heard EXCEPT ![c] = Page[page[c]].error]
      BY <1>1 DEF Fail, Move, Hearer
    <2>2. Moves(c, "failed", served[c], Page[page[c]].error)
      BY <2>1 DEF Moves, SInv, UInv
    <2>3. Page[page[c]].error # "no"
      BY <2>1, Hearers DEF UInv
    <2> QED
      BY <2>1, <2>2, <2>3, MovesRefine
  <1>2. ASSUME NEW from \in Going, NEW to \in Going, Move(c, from, to), UNCHANGED <<served, heard>>
        PROVE  UInv' /\ Unary!Next
    <2>1. place[c] = from /\ Moves(c, to, served[c], "no")
      BY <1>2 DEF Move, Moves, SInv, UInv
    <2> QED
      BY <2>1, MovesRefine
  <1>3. CASE Garbled(c)
    <2>1. /\ place[c] = "posted" /\ page' = page
          /\ place' = [place EXCEPT ![c] = "failed"]
          /\ heard' = [heard EXCEPT ![c] = Page[page[c]].error]
      BY <1>3 DEF Garbled, Move, Hearer
    <2>2. served' = [served EXCEPT ![c] = served[c] + 1] \/ served' = served
      BY <1>3 DEF Garbled, Handled
    <2>3. PICK ran \in {0, 1} : served'[c] = served[c] + ran
      BY <2>2 DEF SInv
    <2>4. Moves(c, "failed", served[c] + ran, Page[page[c]].error)
      BY <2>1, <2>2, <2>3 DEF Moves, SInv, UInv
    <2>5. served[c] = 0 /\ Page[page[c]].error # "no"
      BY <2>1, Hearers DEF SInv, UInv, Going
    <2>6. served[c] + ran = served[c] \/ served[c] + ran = 1
      BY <2>5
    <2> QED
      BY <2>1, <2>4, <2>5, <2>6, MovesRefine DEF Going
  <1>4. CASE Serve(c)
    <2>1. /\ place[c] = "upstream" /\ Moves(c, "served", served[c] + 1, "no")
      BY <1>4 DEF Serve, Handles, Handled, Move, Moves, SInv, UInv, Going
    <2>2. served[c] = 0 /\ served[c] + 1 = 1
      BY <2>1 DEF SInv
    <2> QED
      BY <2>1, <2>2, MovesRefine DEF Going
  <1>5. CASE Return(c)
    <2> DEFINE who == Page[page[c]].answer
    <2>1. /\ place[c] = "served" /\ page' = page /\ served' = served
          /\ place' = [place EXCEPT ![c] = IF who = "timer" THEN "timer" ELSE "ok"]
          /\ heard' = [heard EXCEPT ![c] = IF who = "timer" THEN "no" ELSE who]
      BY <1>5 DEF Return, Move, Hearer
    <2>2. served[c] = 1 /\ who # "no"
      BY <2>1, Hearers DEF SInv, UInv, Going
    <2>3. CASE who = "timer"
      <3>1. Moves(c, "timer", served[c], "no")
        BY <2>1, <2>3 DEF Moves, SInv, UInv
      <3> QED
        BY <2>1, <3>1, MovesRefine DEF Going
    <2>4. CASE who # "timer"
      <3>1. Moves(c, "ok", served[c], who)
        BY <2>1, <2>4 DEF Moves, SInv, UInv
      <3> QED
        BY <2>1, <2>2, <3>1, MovesRefine DEF Going
    <2> QED
      BY <2>3, <2>4
  <1>6. CASE TimerFires(c)
    <2>1. place[c] = "timer" /\ Moves(c, "ok", served[c], "page")
      BY <1>6 DEF TimerFires, Move, Moves, SInv, UInv
    <2>2. served[c] = 1
      BY <2>1 DEF SInv
    <2> QED
      BY <2>1, <2>2, MovesRefine DEF Going
  <1>7. CASE Preflight(c) \/ Forward(c)
    BY <1>2, <1>7 DEF Preflight, Forward, Going
  <1>8. CASE Denied(c) \/ NotForwarded(c) \/ BrokenOff(c) \/ IdleTimeout(c)
    BY <1>1, <1>8 DEF Denied, NotForwarded, BrokenOff, IdleTimeout, Going
  <1> QED
    BY <1>3, <1>4, <1>5, <1>6, <1>7, <1>8 DEF CallStep

\* A handler that runs late is one that UnaryCall allows.
LEMMA OrphanRefines ==
    ASSUME SInv, UInv, NEW c \in Calls, OrphanRuns(c)
    PROVE  UInv' /\ Unary!Next
  <1>1. /\ c \in held /\ served' = [served EXCEPT ![c] = served[c] + 1]
        /\ page' = page /\ place' = place /\ heard' = heard
        /\ place[c] \in {"cut", "failed", "dropped"}
    BY DEF OrphanRuns, Handles, Handled
  <1>2. served[c] = 0 /\ served'[c] = 1 /\ \A d \in Calls \ {c} : served'[d] = served[d]
    BY <1>1 DEF SInv
  <1>3. \A d \in Calls : State'[d] = State[d]
    BY <1>1 DEF State
  <1>4. \A d \in Calls \ {c} : Unary!Step(d)
    BY <1>1, <1>2, <1>3 DEF Unary!Step, Unary!Rest, Unary!Turns
  <1>5. Unary!MayRun(c)
    BY <1>2 DEF Unary!MayRun
  <1>6. CASE place[c] = "cut"
    <2>1. State[c] = "going"
      BY <1>6 DEF State, Going
    <2> QED
      BY <1>1, <1>3, <1>4, <1>5, <2>1
         DEF Unary!Next, Unary!Step, Unary!Handle, Unary!Turns, UInv
  <1>7. CASE place[c] \in {"failed", "dropped"}
    <2>1. State[c] \in {"failed", "dropped"}
      BY <1>7 DEF State, Going
    <2> QED
      BY <1>1, <1>3, <1>4, <1>5, <2>1
         DEF Unary!Next, Unary!Step, Unary!Late, Unary!Turns, UInv
  <1> QED
    BY <1>1, <1>6, <1>7

\* A step of the tab, of the proxy or of the server makes, drops or cuts calls.
LEMMA DisturbedRefines ==
    ASSUME SInv, UInv, served' = served, heard' = heard, DOMAIN page' = Calls,
           \A c \in Calls :
             \/ page'[c] = page[c] /\ place'[c] = place[c]
             \/ page'[c] = page[c] /\ place[c] \in Going /\ place'[c] \in {"cut", "dropped"}
             \/ page'[c] \in DOMAIN Page /\ place[c] = "idle" /\ place'[c] = "asked"
    PROVE  UInv' /\ Unary!Next
  <1>1. UInv'
    BY DEF UInv, Going
  <1>2. SUFFICES ASSUME NEW c \in Calls PROVE Unary!Step(c)
    BY <1>1 DEF Unary!Next
  <1>3. CASE place'[c] = place[c]
    BY <1>3 DEF Unary!Step, Unary!Rest, Unary!Turns, State
  <1>4. CASE place[c] \in Going /\ place'[c] \in {"cut", "dropped"}
    BY <1>4 DEF Unary!Step, Unary!Handle, Unary!MayRun, Unary!Drop, Unary!Turns, State, Going
  <1>5. CASE place[c] = "idle" /\ place'[c] = "asked"
    BY <1>5 DEF Unary!Step, Unary!Make, Unary!Turns, State, Going
  <1> QED
    BY <1>3, <1>4, <1>5

LEMMA WebStepRefines == SInv /\ UInv /\ [WebNext]_tabVars => UInv' /\ Unary!Next
  <1> SUFFICES ASSUME SInv, UInv, [WebNext]_tabVars PROVE UInv' /\ Unary!Next
    OBVIOUS
  <1>1. ASSUME UNCHANGED callVars PROVE UInv' /\ Unary!Next
    BY <1>1, DisturbedRefines DEF callVars, UInv
  <1>2. CASE Click
    <2>1. PICK c \in Calls : /\ place[c] = "idle" /\ place' = [place EXCEPT ![c] = "asked"]
                             /\ page' = [page EXCEPT ![c] = Shown]
      BY <1>2 DEF Click, Ask
    <2>2. Shown \in DOMAIN Page /\ served' = served /\ heard' = heard
      BY <1>2, Domain DEF Click
    <2> QED
      BY <2>1, <2>2, DisturbedRefines DEF SInv, UInv
  <1>3. CASE OpenDocument
    <2>1. /\ served' = served /\ heard' = heard /\ page' = page
          /\ place' = [c \in Calls |-> Reopened(c)]
      BY <1>3 DEF OpenDocument
    <2> QED
      BY <2>1, DisturbedRefines DEF Reopened, UInv
  <1>4. CASE OpenScript
    <2>1. PICK c \in Calls :
            /\ place[c] = "idle" /\ page' = [page EXCEPT ![c] = app]
            /\ place' = [d \in Calls |-> IF d = c THEN "asked" ELSE Reopened(d)]
      BY <1>4 DEF OpenScript, Ask
    <2>2. app \in DOMAIN Page /\ served' = served /\ heard' = heard
      BY <1>4, Domain DEF OpenScript, Scripts
    <2> QED
      BY <2>1, <2>2, DisturbedRefines DEF Reopened, UInv
  <1>5. CASE FrontDies \/ MachineStep
    <2>1. /\ served' = served /\ heard' = heard /\ page' = page
          /\ \A c \in Calls : place'[c] = place[c] \/ (OnTheWay(c) /\ place'[c] = "cut")
      BY <1>5 DEF FrontDies, MachineStep
    <2> QED
      BY <2>1, DisturbedRefines DEF OnTheWay, UInv, Going
  <1>6. FrontStarts \/ (InDocument /\ UNCHANGED <<vars, front, callVars>>) \/ UNCHANGED tabVars
          => UNCHANGED callVars
    BY DEF tabVars, FrontStarts
  <1> QED
    BY <1>1, <1>2, <1>3, <1>4, <1>5, <1>6, CallStepRefines, OrphanRefines
       DEF WebNext, Calling, Orphan

\* UnarySpec for every number of calls: initial states and steps map to those
\* of UnaryCall.
THEOREM CallsKeepPromise == WebSpec => UnarySpec
  <1>1. WebInit => SInv /\ UInv /\ Unary!Init
    BY CallsInitially, UnaryInitially DEF WebInit
  <1>2. SInv /\ UInv /\ [WebNext]_tabVars => SInv' /\ UInv' /\ [Unary!Next]_(Unary!vars)
    BY CallsKept, WebStepRefines
  <1> QED
    BY <1>1, <1>2, PTL DEF WebSpec, UnarySpec, Unary!Spec

-----------------------------------------------------------------------------
(* Liveness of the calls.  The provers know nothing of ENABLED, so the     *)
(* theorems take as hypothesis what TLC finds in every state of the run: a *)
(* call that is under way can go on.                                       *)

CallCanGoOn(c) == place[c] \in Going => ENABLED <<Calling(c)>>_tabVars
CallsCanGoOn == \A c \in Calls : CallCanGoOn(c)

\* Where a call goes by itself.
CallOnward(p) == CASE p = "asked" -> {"posted", "failed"}
                   [] p = "posted" -> {"upstream", "failed"}
                   [] p = "upstream" -> {"served", "cut", "failed"}
                   [] p = "served" -> {"timer", "ok", "cut"}
                   [] p = "timer" -> {"ok"}
                   [] p = "cut" -> {"failed"}

\* Whom a call's end is told to; an answer, the page itself.
Listened(c) == \/ heard[c] \in {"page", "framework", "window"}
               \/ page[c] = "vitetsgrpc" /\ heard[c] = "nobody"

EndHeard(c) ==
    /\ place[c] \in {"ok", "failed"} => Listened(c)
    /\ place[c] = "ok" /\ page[c] # "vitetsgrpc" => heard[c] = "page"
HInv == \A c \in Calls : EndHeard(c)

\* The proxy or the ASP.NET server is up, and the server behind the proxy.
AllUp(c) == front = "up" /\ (ByEnvoy(c) => Node({"up"}))

\* Who hears of an answer and of an error, page by page.
LEMMA WhoHears ==
    \A p \in DOMAIN Page :
      /\ Page[p].answer \in {"page", "timer", "nobody"}
      /\ Page[p].error \in {"page", "framework", "window", "nobody"}
      /\ "nobody" \in {Page[p].answer, Page[p].error} => p = "vitetsgrpc"
  <1>1. /\ Page["webpackgrpc"] = WebpackPage /\ Page["vitetsgrpc"] = ViteTsPage
        /\ Page["grpcdemo"] = StaticPage /\ Page["IndexPage"] = DirectPage
        /\ Page["DemoPage"] = AspNetPage /\ Page["Index"] = JswbPage
        /\ Page["GrpcPage"] = DirectPage /\ Page["ImprobableGrpcPage"] = ImprobablePage
    BY DEF Page
  <1>2. \A d \in {WebpackPage, ViteTsPage, StaticPage, DirectPage, AspNetPage, JswbPage, ImprobablePage} :
          /\ d.answer \in {"page", "timer", "nobody"}
          /\ d.error \in {"page", "framework", "window", "nobody"}
    BY DEF WebpackPage, ViteTsPage, StaticPage, DirectPage, AspNetPage, JswbPage,
           ImprobablePage, Dials
  <1>3. \A d \in {WebpackPage, StaticPage, DirectPage, AspNetPage, JswbPage, ImprobablePage} :
          d.answer # "nobody" /\ d.error # "nobody"
    BY DEF WebpackPage, StaticPage, DirectPage, AspNetPage, JswbPage, ImprobablePage, Dials
  <1> QED
    BY <1>1, <1>2, <1>3, Domain DEF Clickable

\* One step of a call takes it onward, and its end is told.
LEMMA CallGoesOn ==
    ASSUME SInv, UInv, NEW c \in Calls, CallStep(c)
    PROVE  /\ place[c] \in Going /\ place'[c] \in CallOnward(place[c])
           /\ page' = page /\ DOMAIN place' = Calls
           /\ \A d \in Calls \ {c} : place'[d] = place[d] /\ heard'[d] = heard[d]
           /\ EndHeard(c)'
  <1>1. ASSUME NEW from \in {"asked", "posted", "upstream", "cut"}, Fail(c, from)
        PROVE  /\ place[c] = from /\ place' = [place EXCEPT ![c] = "failed"] /\ page' = page
               /\ heard' = [heard EXCEPT ![c] = Page[page[c]].error]
    BY <1>1 DEF Fail, Move, Hearer
  <1>2. place[c] \in Going => page[c] \in DOMAIN Page
    BY DEF UInv
  <1>3. CASE Denied(c) \/ NotForwarded(c) \/ BrokenOff(c) \/ IdleTimeout(c)
    <2>1. PICK from \in {"asked", "posted", "upstream", "cut"} : Fail(c, from)
      BY <1>3 DEF Denied, NotForwarded, BrokenOff, IdleTimeout
    <2> QED
      BY <1>1, <1>2, <2>1, WhoHears DEF SInv, UInv, Going, CallOnward, EndHeard, Listened
  <1>4. CASE Garbled(c)
    <2>1. /\ place[c] = "posted" /\ place' = [place EXCEPT ![c] = "failed"] /\ page' = page
          /\ heard' = [heard EXCEPT ![c] = Page[page[c]].error]
      BY <1>4 DEF Garbled, Move, Hearer
    <2> QED
      BY <1>2, <2>1, WhoHears DEF SInv, UInv, Going, CallOnward, EndHeard, Listened
  <1>5. CASE Return(c)
    <2> DEFINE who == Page[page[c]].answer
    <2>1. /\ place[c] = "served" /\ page' = page
          /\ place' = [place EXCEPT ![c] = IF who = "timer" THEN "timer" ELSE "ok"]
          /\ heard' = [heard EXCEPT ![c] = IF who = "timer" THEN "no" ELSE who]
      BY <1>5 DEF Return, Move, Hearer
    <2> QED
      BY <1>2, <2>1, WhoHears DEF SInv, UInv, Going, CallOnward, EndHeard, Listened
  <1>6. CASE TimerFires(c)
    <2>1. /\ place[c] = "timer" /\ page' = page
          /\ place' = [place EXCEPT ![c] = "ok"] /\ heard' = [heard EXCEPT ![c] = "page"]
      BY <1>6 DEF TimerFires, Move
    <2> QED
      BY <2>1 DEF SInv, UInv, Going, CallOnward, EndHeard, Listened
  <1>7. CASE Preflight(c) \/ Forward(c) \/ Serve(c)
    BY <1>7 DEF Preflight, Forward, Serve, Move, SInv, UInv, Going, CallOnward, EndHeard
  <1> QED
    BY <1>3, <1>4, <1>5, <1>6, <1>7 DEF CallStep

\* Whatever else happens, a call stays, is dropped with its document, or is cut.
LEMMA CallLeftAlone ==
    ASSUME SInv, UInv, [WebNext]_tabVars, NEW c \in Calls, place[c] # "idle"
    PROVE  \/ CallStep(c)
           \/ /\ page'[c] = page[c] /\ heard'[c] = heard[c]
              /\ \/ place'[c] = place[c]
                 \/ place[c] \in Going /\ place'[c] = "dropped"
                 \/ OnTheWay(c) /\ place'[c] = "cut" /\ ~ AllUp(c)'
  <1>1. ASSUME UNCHANGED callVars
        PROVE  place'[c] = place[c] /\ page'[c] = page[c] /\ heard'[c] = heard[c]
    BY <1>1 DEF callVars
  <1>2. ASSUME NEW d \in Calls, d # c, CallStep(d)
        PROVE  place'[c] = place[c] /\ page'[c] = page[c] /\ heard'[c] = heard[c]
    BY <1>2, CallGoesOn
  <1>3. CASE Click
    <2>1. PICK d \in Calls : /\ place[d] = "idle" /\ place' = [place EXCEPT ![d] = "asked"]
                             /\ page' = [page EXCEPT ![d] = Shown]
      BY <1>3 DEF Click, Ask
    <2>2. heard' = heard
      BY <1>3 DEF Click
    <2> QED
      BY <2>1, <2>2 DEF SInv, UInv
  <1>4. CASE OpenDocument
    <2>1. heard' = heard /\ page' = page /\ place'[c] = Reopened(c)
      BY <1>4 DEF OpenDocument
    <2> QED
      BY <2>1 DEF Reopened
  <1>5. CASE OpenScript
    <2>1. PICK d \in Calls :
            /\ place[d] = "idle" /\ page' = [page EXCEPT ![d] = app]
            /\ place' = [e \in Calls |-> IF e = d THEN "asked" ELSE Reopened(e)]
      BY <1>5 DEF OpenScript, Ask
    <2>2. heard' = heard
      BY <1>5 DEF OpenScript
    <2> QED
      BY <2>1, <2>2 DEF Reopened, SInv, UInv
  <1>6. CASE FrontDies \/ MachineStep
    BY <1>6 DEF FrontDies, MachineStep, AllUp, Node, ByEnvoy
  <1>7. ASSUME NEW d \in Calls, Orphan(d)
        PROVE  place'[c] = place[c] /\ page'[c] = page[c] /\ heard'[c] = heard[c]
    BY <1>7 DEF Orphan, OrphanRuns
  <1>8. FrontStarts \/ (InDocument /\ UNCHANGED <<vars, front, callVars>>) \/ UNCHANGED tabVars
          => UNCHANGED callVars
    BY DEF tabVars, FrontStarts
  <1> QED
    BY <1>1, <1>2, <1>3, <1>4, <1>5, <1>6, <1>7, <1>8 DEF WebNext, Calling

\* A call that is not made yet is at most made.
LEMMA IdleStays ==
    ASSUME SInv, UInv, [WebNext]_tabVars, NEW c \in Calls, place[c] = "idle", ~ CallStep(c)
    PROVE  place'[c] \in {"idle", "asked"}
  <1>1. ASSUME NEW d \in Calls, d # c, CallStep(d) PROVE place'[c] = place[c]
    BY <1>1, CallGoesOn
  <1>2. CASE Click
    <2>1. PICK d \in Calls : place' = [place EXCEPT ![d] = "asked"]
      BY <1>2 DEF Click
    <2> QED
      BY <2>1 DEF SInv
  <1>3. CASE OpenDocument
    BY <1>3 DEF OpenDocument, Reopened, Going
  <1>4. CASE OpenScript
    <2>1. PICK d \in Calls : place' = [e \in Calls |-> IF e = d THEN "asked" ELSE Reopened(e)]
      BY <1>4 DEF OpenScript
    <2> QED
      BY <2>1 DEF Reopened, Going
  <1>5. CASE FrontDies \/ MachineStep
    BY <1>5 DEF FrontDies, MachineStep, OnTheWay
  <1>6. FrontStarts \/ (InDocument /\ UNCHANGED <<vars, front, callVars>>) \/ UNCHANGED tabVars
          => UNCHANGED callVars
    BY DEF tabVars, FrontStarts
  <1>7. UNCHANGED callVars => place'[c] = place[c]
    BY DEF callVars
  <1>8. ASSUME NEW d \in Calls, Orphan(d) PROVE place'[c] = place[c]
    BY <1>8 DEF Orphan, OrphanRuns
  <1> QED
    BY <1>1, <1>2, <1>3, <1>4, <1>5, <1>6, <1>7, <1>8 DEF WebNext, Calling

\* The end of a call is heard of by whom its page says.
LEMMA HeardStep == SInv /\ UInv /\ HInv /\ [WebNext]_tabVars => HInv'
  <1> SUFFICES ASSUME SInv, UInv, HInv, [WebNext]_tabVars, NEW c \in Calls
               PROVE  EndHeard(c)'
    BY DEF HInv
  <1>1. CASE place[c] = "idle"
    <2>1. CASE CallStep(c)
      BY <2>1, CallGoesOn
    <2>2. CASE ~ CallStep(c)
      <3>1. place'[c] \notin {"ok", "failed"}
        BY <1>1, <2>2, IdleStays
      <3> QED
        BY <3>1 DEF EndHeard
    <2> QED
      BY <2>1, <2>2
  <1>2. CASE place[c] # "idle"
    BY <1>2, CallLeftAlone, CallGoesOn DEF HInv, EndHeard, Listened, Going
  <1> QED
    BY <1>1, <1>2

LEMMA CallsSound == WebSpec => [](SInv /\ UInv /\ HInv)
  <1>1. WebInit => SInv /\ UInv /\ HInv
    BY CallsInitially, UnaryInitially DEF WebInit, GrpcWebInit, HInv, EndHeard
  <1> QED
    BY <1>1, CallsKept, WebStepRefines, HeardStep, PTL DEF WebSpec

\* The step of a call from one place to the next.
CallPasses(c, p) == place[c] = p ~> place[c] \in CallOnward(p) \cup {"dropped"}

LEMMA CallPassesOn ==
    ASSUME NEW c \in Calls, NEW p \in Going
    PROVE  WebSpec /\ []CallsCanGoOn => CallPasses(c, p)
  <1> DEFINE In   == place[c] = p
             Left == place[c] \in CallOnward(p) \cup {"dropped"}
             Inv  == SInv /\ UInv /\ HInv
  <1>1. Inv /\ In /\ [WebNext]_tabVars => In' \/ Left'
    BY CallLeftAlone, CallGoesOn DEF Going, OnTheWay, CallOnward
  <1>2. Inv /\ In /\ <<Calling(c)>>_tabVars => Left'
    BY CallGoesOn DEF Calling
  <1>3. CallsCanGoOn /\ In => ENABLED <<Calling(c)>>_tabVars
    BY DEF CallsCanGoOn, CallCanGoOn
  <1>4. WebSpec => CallFair(c)
    BY DEF WebSpec, WebFairness
  <1>5. WebSpec => []Inv
    BY CallsSound
  <1> HIDE DEF In, Left, Inv
  <1>6. WebSpec /\ []CallsCanGoOn => (In ~> Left)
    BY <1>1, <1>2, <1>3, <1>4, <1>5, PTL DEF WebSpec, CallFair
  <1> QED
    BY <1>6 DEF In, Left, CallPasses

\* EveryCallHeard for every number of calls, servers and pages: every call is
\* answered, fails or is dropped with its document, a server that hangs for good
\* included, and whoever its page names hears of the end.
THEOREM EveryCallIsHeard == WebSpec /\ []CallsCanGoOn => EveryCallHeard
  <1>1. ASSUME NEW c \in Calls
        PROVE  WebSpec /\ []CallsCanGoOn =>
                 (place[c] \in Going ~> \/ place[c] = "dropped"
                                        \/ heard[c] \in {"page", "framework", "window"}
                                        \/ page[c] = "vitetsgrpc" /\ heard[c] = "nobody")
    <2> DEFINE At(p) == place[c] = p
               Heard == \/ place[c] = "dropped"
                        \/ heard[c] \in {"page", "framework", "window"}
                        \/ page[c] = "vitetsgrpc" /\ heard[c] = "nobody"
               Over == place[c] \in {"ok", "failed", "dropped"}
    <2>1. place[c] \in Going => \/ At("asked") \/ At("posted") \/ At("upstream")
                                \/ At("served") \/ At("timer") \/ At("cut")
      BY DEF Going
    <2>2. HInv /\ Over => Heard
      BY DEF HInv, EndHeard, Listened
    <2>3. /\ place[c] \in CallOnward("asked") \cup {"dropped"} => At("posted") \/ Over
          /\ place[c] \in CallOnward("posted") \cup {"dropped"} => At("upstream") \/ Over
          /\ place[c] \in CallOnward("upstream") \cup {"dropped"} => At("served") \/ At("cut") \/ Over
          /\ place[c] \in CallOnward("served") \cup {"dropped"} => At("timer") \/ At("cut") \/ Over
          /\ place[c] \in CallOnward("timer") \cup {"dropped"} => Over
          /\ place[c] \in CallOnward("cut") \cup {"dropped"} => Over
      BY DEF CallOnward
    <2>4. WebSpec /\ []CallsCanGoOn =>
            /\ CallPasses(c, "asked") /\ CallPasses(c, "posted") /\ CallPasses(c, "upstream")
            /\ CallPasses(c, "served") /\ CallPasses(c, "timer") /\ CallPasses(c, "cut")
      BY CallPassesOn DEF Going
    <2> QED
      BY <2>1, <2>2, <2>3, <2>4, CallsSound, PTL DEF CallPasses
  <1> QED
    BY <1>1 DEF EveryCallHeard

-----------------------------------------------------------------------------
\* Where a call of a page that works goes while its proxy and server are up.
WorkingPages == {"webpackgrpc", "DemoPage"}

WorkOnward(p) == CASE p = "asked" -> {"posted"}
                   [] p = "posted" -> {"upstream"}
                   [] p = "upstream" -> {"served"}
                   [] p = "served" -> {"timer", "ok"}
                   [] p = "timer" -> {"ok"}

Underway == {"asked", "posted", "upstream", "served", "timer"}

\* What a page that works dials answers, allows its header and translates.
LEMMA WorkingPagesDial ==
    ASSUME NEW c \in Calls, page[c] \in WorkingPages, AllUp(c)
    PROVE  Allowed(c) /\ Forwardable(c) /\ Of(c).translates
  <1>1. /\ Page["webpackgrpc"] = WebpackPage /\ Page["DemoPage"] = AspNetPage
        /\ Front["envoy"] = Envoy /\ Front["aspmvc"] = AspMvc
    BY DEF Page, Front
  <1>2. /\ WebpackPage.dials = "envoy" /\ WebpackPage.header = "custom-header-1"
        /\ AspNetPage.dials = "aspmvc" /\ AspNetPage.header = "my-http-header-1"
    BY DEF WebpackPage, AspNetPage, Dials
  <1>3. /\ Envoy.answers /\ Envoy.translates /\ "custom-header-1" \in Envoy.allows
        /\ AspMvc.answers /\ AspMvc.translates /\ "my-http-header-1" \in AspMvc.allows
    BY DEF Envoy, AspMvc
  <1>4. /\ Of(c).answers /\ Of(c).translates
        /\ Page[page[c]].header \in Of(c).allows
    BY <1>1, <1>2, <1>3 DEF Of, WorkingPages
  <1>5. Accepts(c)
    BY <1>4 DEF Accepts, AllUp
  <1> QED
    BY <1>4, <1>5 DEF Allowed, Forwardable, AllUp, Node

\* Its own step takes such a call nearer to its answer.
LEMMA WorkGoesOn ==
    ASSUME SInv, UInv, NEW c \in Calls, AllUp(c), page[c] \in WorkingPages,
           place[c] \in Underway, CallStep(c)
    PROVE  place'[c] \in WorkOnward(place[c])
  <1>1. Allowed(c) /\ Forwardable(c) /\ Of(c).translates
    BY WorkingPagesDial
  <1>2. ~ (Denied(c) \/ NotForwarded(c) \/ Garbled(c) \/ BrokenOff(c) \/ IdleTimeout(c))
    BY <1>1 DEF Denied, NotForwarded, Garbled, BrokenOff, IdleTimeout, Fail, Move, Underway,
                AllUp, Node
  <1>3. CASE Preflight(c) \/ Forward(c) \/ Serve(c) \/ Return(c) \/ TimerFires(c)
    BY <1>3 DEF Preflight, Forward, Serve, Return, TimerFires, Move, SInv, WorkOnward
  <1> QED
    BY <1>2, <1>3 DEF CallStep

\* The step of such a call from one place to the next.
Working(c, p) == place[c] = p /\ page[c] \in WorkingPages
WorkedOn(c, p) == \/ place[c] \in WorkOnward(p) /\ page[c] \in WorkingPages
                  \/ place[c] = "dropped"
WorkPasses(c, p) == []([]AllUp(c) /\ Working(c, p) => <>WorkedOn(c, p))

LEMMA WorkPassesOn ==
    ASSUME NEW c \in Calls, NEW p \in Underway
    PROVE  WebSpec /\ []CallsCanGoOn => WorkPasses(c, p)
  <1> DEFINE Up   == AllUp(c)
             In   == Working(c, p)
             Left == WorkedOn(c, p)
             Inv  == SInv /\ UInv /\ HInv
  <1>1. Inv /\ Up /\ Up' /\ In /\ [WebNext]_tabVars => In' \/ Left'
    <2> SUFFICES ASSUME Inv, Up, Up', In, [WebNext]_tabVars PROVE In' \/ Left'
      OBVIOUS
    <2>1. place[c] \in Underway /\ page[c] \in WorkingPages
      BY DEF Working
    <2>2. CASE CallStep(c)
      BY <2>1, <2>2, WorkGoesOn, CallGoesOn DEF Working, WorkedOn
    <2>3. CASE ~ CallStep(c)
      BY <2>1, <2>3, CallLeftAlone DEF Working, WorkedOn, Underway
    <2> QED
      BY <2>2, <2>3
  <1>2. Inv /\ Up /\ In /\ <<Calling(c)>>_tabVars => Left'
    BY WorkGoesOn, CallGoesOn DEF Calling, Working, WorkedOn
  <1>3. CallsCanGoOn /\ In => ENABLED <<Calling(c)>>_tabVars
    BY DEF CallsCanGoOn, CallCanGoOn, Working, Underway, Going
  <1>4. WebSpec => CallFair(c)
    BY DEF WebSpec, WebFairness
  <1>5. WebSpec => []Inv
    BY CallsSound
  <1> HIDE DEF Up, In, Left, Inv
  <1>6. WebSpec /\ []CallsCanGoOn => []([]Up /\ In => <>Left)
    BY <1>1, <1>2, <1>3, <1>4, <1>5, PTL DEF WebSpec, CallFair
  <1> QED
    BY <1>6 DEF Up, In, Left, WorkPasses

\* WorkingPagesAnswered for every number of calls and whatever the tab does
\* meanwhile: with the proxy and the server behind it up, and with the ASP.NET
\* server up, what the pages that work ask for is answered and the page hears of
\* it, unless its document is gone.
THEOREM WorkingPagesWork == WebSpec /\ []CallsCanGoOn => WorkingPagesAnswered
  <1>1. ASSUME NEW c \in Calls
        PROVE  WebSpec /\ []CallsCanGoOn =>
                 ((/\ [](front = "up" /\ (ByEnvoy(c) => Node({"up"})))
                   /\ place[c] = "asked" /\ page[c] \in {"webpackgrpc", "DemoPage"})
                  ~> (place[c] = "dropped" \/ (place[c] = "ok" /\ heard[c] = "page")))
    <2> DEFINE PageTold == place[c] = "dropped" \/ (place[c] = "ok" /\ heard[c] = "page")
    <2>1. place[c] = "asked" /\ page[c] \in {"webpackgrpc", "DemoPage"} => Working(c, "asked")
      BY DEF Working, WorkingPages
    <2>2. /\ WorkedOn(c, "asked") => Working(c, "posted") \/ PageTold
          /\ WorkedOn(c, "posted") => Working(c, "upstream") \/ PageTold
          /\ WorkedOn(c, "upstream") => Working(c, "served") \/ PageTold
      BY DEF WorkedOn, WorkOnward, Working
    <2>3. HInv => /\ WorkedOn(c, "served") => Working(c, "timer") \/ PageTold
                  /\ WorkedOn(c, "timer") => PageTold
      BY DEF WorkedOn, WorkOnward, Working, WorkingPages, HInv, EndHeard
    <2>4. WebSpec /\ []CallsCanGoOn =>
            /\ WorkPasses(c, "asked") /\ WorkPasses(c, "posted") /\ WorkPasses(c, "upstream")
            /\ WorkPasses(c, "served") /\ WorkPasses(c, "timer")
      BY WorkPassesOn DEF Underway
    <2>5. AllUp(c) <=> front = "up" /\ (ByEnvoy(c) => Node({"up"}))
      BY DEF AllUp
    <2> QED
      BY <2>1, <2>2, <2>3, <2>4, <2>5, CallsSound, PTL DEF WorkPasses
  <1> QED
    BY <1>1 DEF WorkingPagesAnswered
=============================================================================
