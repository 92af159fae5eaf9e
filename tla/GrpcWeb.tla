--------------------------------- MODULE GrpcWeb ---------------------------------
(***************************************************************************)
(* The calls a browser makes to the repository's servers: from a page, by  *)
(* way of whatever speaks gRPC-Web for the server, or of nothing that      *)
(* does, and back to whoever listens for the outcome.  The server of the   *)
(* envoy demo is the one of DemoMachine; Docker starts it and its proxy    *)
(* again when they end.                                                    *)
(***************************************************************************)
EXTENDS DemoMachine

CONSTANT Calls  \* bound: the numbers of the calls made

ASSUME CallsAssumption == Calls \subseteq Nat
-----------------------------------------------------------------------------
(* What a page dials, whether that is another origin than its own, the     *)
(* header it adds, and who hears of an answer and of an error: the page's  *)
(* own code, the framework around it, the window, or nobody.               *)

Dials(front, across, header, answer, error) ==
    [dials |-> front, across |-> across, header |-> header, answer |-> answer, error |-> error]

\* The answer is printed by a timer of a second.
WebpackPage == Dials("envoy", TRUE, "custom-header-1", "timer", "page")
\* The call is printed, not what comes of it; its promises are deferred ones
\* that report nothing.
ViteTsPage == Dials("envoy", TRUE, "none", "nobody", "nobody")
\* The gRPC server itself, from both versions of the project.
DirectPage == Dials("dynserver", TRUE, "my-http-header-1", "page", "page")
AspNetPage == Dials("aspmvc", TRUE, "my-http-header-1", "page", "page")
\* "//" and the method give an address whose host is "jsdemo".
ImprobablePage == Dials("nowhere", TRUE, "none", "page", "page")
\* Jswb, awaited by a click handler without a catch: Vue prints the error.
JswbPage == Dials("nginx", TRUE, "my-http-header-1", "page", "framework")
\* Jswb with "//", on the site nginx serves; then() without a catch.
StaticPage == Dials("nginx", FALSE, "my-http-header-1", "page", "window")

Page == [webpackgrpc |-> WebpackPage, vitetsgrpc |-> ViteTsPage, grpcdemo |-> StaticPage,
         IndexPage |-> DirectPage, DemoPage |-> AspNetPage, Index |-> JswbPage,
         GrpcPage |-> DirectPage, ImprobableGrpcPage |-> ImprobablePage]

\* Mutant: the promise of Jswb is resolved and never rejected.
HearerUnrejected(p, ok) ==
    IF ok THEN Page[p].answer ELSE IF p \in {"Index", "grpcdemo"} THEN "no" ELSE Page[p].error

\* Who is told, by the callback of the stub, through the promise that Jswb
\* makes of it, or by onEnd.
Hearer(p, ok) == IF ok THEN Page[p].answer ELSE Page[p].error

-----------------------------------------------------------------------------
(* What is dialled: whether it answers a browser's HTTP/1.1 at all, the    *)
(* headers its preflight allows another origin, and whether it translates  *)
(* gRPC-Web.                                                               *)

\* Mutant: a header of one's own is not in the list.
EnvoyNoHeader == [answers |-> TRUE, allows |-> {"none"}, translates |-> TRUE]

\* The prefix "*" is read as any origin.
Envoy == [answers |-> TRUE, allows |-> {"none", "custom-header-1"}, translates |-> TRUE]

\* Mutant: without UseGrpcWeb the page's request is not translated.
AspMvcNoGrpcWeb == [answers |-> TRUE, allows |-> {"none", "custom-header-1", "my-http-header-1"},
                    translates |-> FALSE]

\* AllowAnyHeader, and UseGrpcWeb.
AspMvc == [answers |-> TRUE, allows |-> {"none", "custom-header-1", "my-http-header-1"},
           translates |-> TRUE]
\* HTTP/2 only, no CORS.
Dynserver == [answers |-> FALSE, allows |-> {}, translates |-> FALSE]
\* grpc_pass forwards, and the browser finds no trailer: "Incomplete response".
Nginx == [answers |-> TRUE, allows |-> {}, translates |-> FALSE]
Nowhere == [answers |-> FALSE, allows |-> {}, translates |-> FALSE]

Front == [envoy |-> Envoy, aspmvc |-> AspMvc, dynserver |-> Dynserver, nginx |-> Nginx,
          nowhere |-> Nowhere]

VARIABLES
    front,   \* the proxy, or the ASP.NET server, of the page: "up" or "down"
    page,    \* the page each call comes from
    place,   \* where it is
    held,    \* calls whose request a server has and has not handled
    served,  \* how often the handler of each has run
    heard    \* who has been told how it ended

callVars == <<page, place, held, served, heard>>

GrpcWebInit ==
    /\ front = "up"
    /\ page = [c \in Calls |-> "none"] /\ place = [c \in Calls |-> "idle"]
    /\ held = {} /\ served = [c \in Calls |-> 0] /\ heard = [c \in Calls |-> "no"]

-----------------------------------------------------------------------------
\* The node server behind envoy is in one of these states.
Node(states) == "envoydemo" \in Servers /\ server["envoydemo"] \in states

Of(c) == Front[Page[page[c]].dials]
ByEnvoy(c) == page[c] # "none" /\ Page[page[c]].dials = "envoy"

\* Only these two are ever restarted here; the others fail up or down.
Accepts(c) ==
    Of(c).answers /\ (Page[page[c]].dials \in {"envoy", "aspmvc"} => front = "up")

Move(c, from, to) ==
    /\ place[c] = from /\ place' = [place EXCEPT ![c] = to]
    /\ UNCHANGED <<front, page>>

\* Mutant: without the else of webpackgrpc an error sets the timer as well.
FailFallsThrough(c, from) ==
    /\ Move(c, from, IF page[c] = "webpackgrpc" THEN "timer" ELSE "failed")
    /\ heard' = [heard EXCEPT ![c] = Hearer(page[c], FALSE)]
    /\ UNCHANGED <<held, served>>

\* A call is over and its hearer is told, the page of webpackgrpc only when
\* its timer fires.
Fail(c, from) ==
    Move(c, from, "failed") /\ heard' = [heard EXCEPT ![c] = Hearer(page[c], FALSE)]
    /\ UNCHANGED <<held, served>>

Allowed(c) == Accepts(c) /\ (Page[page[c]].across => Page[page[c]].header \in Of(c).allows)

Preflight(c) == place[c] = "asked" /\ Allowed(c) /\ Move(c, "asked", "posted")
                /\ UNCHANGED <<held, served, heard>>

Denied(c) == place[c] = "asked" /\ ~ Allowed(c) /\ Fail(c, "asked")

\* Envoy connects within a quarter of a second or says UNAVAILABLE; a server
\* that is suspended is connected to.
Forwardable(c) == Accepts(c) /\ (ByEnvoy(c) => Node({"up", "stuck"}))

Forward(c) == /\ place[c] = "posted" /\ Forwardable(c) /\ Of(c).translates
              /\ Move(c, "posted", "upstream") /\ held' = held \cup {c}
              /\ UNCHANGED <<served, heard>>

Handled(c) == served' = [served EXCEPT ![c] = @ + 1]

\* Sent on as it is: a handler may have run or may yet run, and its answer
\* cannot be read.
Garbled(c) ==
    /\ place[c] = "posted" /\ Forwardable(c) /\ ~ Of(c).translates
    /\ Move(c, "posted", "failed") /\ heard' = [heard EXCEPT ![c] = Hearer(page[c], FALSE)]
    /\ \/ Handled(c) /\ UNCHANGED held
       \/ UNCHANGED served /\ held' \in {held, held \cup {c}}

NotForwarded(c) == place[c] = "posted" /\ ~ Forwardable(c) /\ Fail(c, "posted")

\* The handler: Echo of the node server, ListBooks of the ASP.NET one.
Handles(c) == c \in held /\ (ByEnvoy(c) => Node({"up"})) /\ Handled(c) /\ held' = held \ {c}

Serve(c) == Handles(c) /\ Move(c, "upstream", "served") /\ UNCHANGED heard

Return(c) ==
    LET who == Hearer(page[c], TRUE)
    IN  /\ Move(c, "served", IF who = "timer" THEN "timer" ELSE "ok")
        /\ heard' = [heard EXCEPT ![c] = IF who = "timer" THEN "no" ELSE who]
        /\ UNCHANGED <<held, served>>

TimerFires(c) == Move(c, "timer", "ok") /\ heard' = [heard EXCEPT ![c] = "page"]
                 /\ UNCHANGED <<held, served>>

\* The connection under the call is gone, before or after its handler ran.
\* Nothing on the way sends it again.
BrokenOff(c) == Fail(c, "cut")

\* route.timeout is 0s, which leaves Envoy's stream_idle_timeout of five
\* minutes: no server that runs is as slow as that.  The pages set no deadline.
IdleTimeout(c) == ByEnvoy(c) /\ Node({"stuck"}) /\ Fail(c, "upstream")

CallStep(c) ==
    \/ Preflight(c) \/ Denied(c) \/ Forward(c) \/ Garbled(c) \/ NotForwarded(c)
    \/ Serve(c) \/ Return(c) \/ TimerFires(c) \/ BrokenOff(c) \/ IdleTimeout(c)

\* A server handles what it has received of a call that nobody waits for.
OrphanRuns(c) ==
    /\ Handles(c) /\ place[c] \in {"cut", "failed", "dropped"}
    /\ UNCHANGED <<front, page, place, heard>>

-----------------------------------------------------------------------------
OnTheWay(c) == place[c] \in {"upstream", "served"}

\* The node server keeps what the proxy has forwarded to it.
FrontDies ==
    /\ front = "up" /\ front' = "down"
    /\ place' = [c \in Calls |-> IF OnTheWay(c) THEN "cut" ELSE place[c]]
    /\ held' = {c \in held : ByEnvoy(c)}
    /\ UNCHANGED <<page, served, heard>>

FrontStarts == front = "down" /\ front' = "up" /\ UNCHANGED callVars

\* What the server does by itself; a call that is with it when it ends is cut.
MachineStep ==
    LET lost == {c \in Calls : ByEnvoy(c) /\ ~ Node({"up", "stuck"})'}
    IN  /\ Next
        /\ place' = [c \in Calls |-> IF OnTheWay(c) /\ c \in lost THEN "cut" ELSE place[c]]
        /\ held' = held \ lost
        /\ UNCHANGED <<front, page, served, heard>>
=============================================================================
