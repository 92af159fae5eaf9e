# exert-grpc: models, checks and proofs

The repository is a collection of small gRPC programs: the same kind of client
and server written in C#, Go, Java, Kotlin, Dart, C++, Python, PHP, Rust and
JavaScript, with mutual TLS, graceful shutdown, grpc-web and image drawing tried
out on the way. The programs share no state. What is worth
verifying lies inside each of them: how a server stops, how a client loop reacts
to a failing call, how a hosted service takes the process down, how many requests
may run through one handler, what the two drawing handlers compute, and what a
browser's call meets on its way. One thing they share after all is the machine
they run on: five of them want port 50051, three want 40041.

## 1. Inventory

Paths are relative to `src/`.

| Part | State it keeps | Operations | How it interacts | What is hard | What makes it correct |
|---|---|---|---|---|---|
| CsDemo.Server, SkiaDemo (`CsDemo/CsDemo.Server/Implements/SkiaDemoImplement.cs`, `Utils/SkiaExtentions.cs`) | locals of one call: reading position, list of lines, running height, drawing point | `DrawBySkia`, `ParseTextWrap` | unary call from CsDemo.CsClient | a `while` that only moves if one character fits; `Aggregate` without seed; two loops that must add up the same heights; float to int truncation | no character lost or repeated, picture ends on the last row of the canvas, a reply only when everything had room, a drawable request fails only at its canvas |
| CsDemo.Server, ImageSharpDemo (`Implements/ImageSharpDemoImplement.cs`) | locals of one call | `DrawByImageSharp` | as above | `Substring(0, 111)` of a text of any length; every exception becomes Code -1 | never a fault, Code 0 only with an image |
| CsDemo.Server host (`Services/ServerService.cs`, `Program.cs`, `CsDemoImplement.cs`, `BookImplement.cs`) | port, listening server | StartAsync, StopAsync, two SayHello | serves CsDemo.CsClient | calls in flight when the server goes down | an accepted call is answered or failed once |
| CsDemo.CsClient (`CsDemo/CsDemo.CsClient/Services/ClientService.cs`) | channel, two once-flags, two files on disk | ExecuteAsync loop, DoSkiaAsync, DoImageSharpAsync | calls four services; the host cancels it | no try/catch: one failed call ends the loop and the host; delays ignore the token; result files opened without truncation; restarts | each drawing is written at most once per run, calls after a stop are bounded, files hold what the server sent, the host stops |
| AuthDemo.Server (`CsDemo/AuthDemo.Server/Services/ApiService.cs`, `AuthDemoImplement.cs`) | listening server | Say | serves AuthDemo clients | Login is not implemented | - |
| AuthDemo.Client (`CsDemo/AuthDemo.Client/*.cs`) | three background loops in one host | Http, Https and Tester ExecuteAsync, ValidCert | calls AspCertsDemo and AuthDemo.Server | the first two loops swallow all errors, the third stops the host with its first; waits without token or deadline | two loops survive failures, stop ends in bounded time |
| AspCertsDemo (`CsDemo/AspCertsDemo/*.cs`) | `ccc.pfx`, `rootca.pfx` on disk | certificate authentication, MakeCert, SetAuth, SayHello | called over http and https by AuthDemo.Client | the authentication event writes one file from concurrent requests; existence test and creation of the root key are two steps | a certified caller is let in |
| AspMvcDemo (`CsDemo/AspMvcDemo`) | none | ListBooks behind grpc-web and CORS | browser clients | middleware order | - |
| godemo (`godemo`) | connection per call | server, goroutine of eleven calls, CallDemoBook | client and server in one process | dial blocks without limit, one second for the call | every connection closed, ids in order |
| godemo2 (`godemo2`) | key and certificate files | mTLS server and client, gen.sh | files read at start-up | regeneration is not atomic | client accepted iff chain and dates fit |
| javademo (`javademo`) | server lifecycle | main, shutdown hook, getName, client loop | JVM signals | grace period, forced cancel, hook against main thread | accepted calls get their grace |
| ktdemo (`ktdemo`) | server lifecycle | start, stop, blockUntilShutdown, client loop | JVM signals | stop does not wait | what the log line says has happened |
| dtdemo, cppdemo, phpdemo, rsdemo (same names) | none | one unary call or one echo service | client and server | - | - |
| pydemo (`pydemo`) | pool of forked servers on one port | run, serve, get_port | kernel balances over SO_REUSEPORT | SIGINT at any point of start-up | workers share the port, all joined |
| jsdemo servers (`jsdemo/dynserver`, `dynclient`) | none | one unary call | client and server | a callback that throws when nothing is bound | - |
| jsdemo v2demo (`jsdemo/v2demo`) | router history, matcher, the promise of `myasync.js` | main.js, loader, `Router.push`, `Router.reset`, hooks of `App.vue`, two pages with a button | browser to dynserver or AspMvcDemo | promise not returned, async hooks not awaited, a lazy page overtaken, a matcher replaced under a navigation | the newest navigation is shown; a page is shown without the hooks; who pushes learns how it ended |
| jsdemo jswb, v3demo (`jsdemo/jswb`, `jsdemo/v3demo`) | the promise of one request | `Jswb.request`, routes, three pages with a button, `grpcdemo.html` | browser to nginx, dynserver, or nowhere | rejections that nobody catches, pages that cannot be imported | a failed call is told to someone |
| envoydemo (`envoydemo`) | none of its own | proxy configuration, node server and client, `webpackgrpc`, `vitetsgrpc` | browser through envoy to node; Docker restarts both | preflight in one file and header in another, no deadline in a page and `timeout: 0s` in the proxy, restarts under calls, a server that handles what nobody waits for any more | every browser call ends, none is handled twice, not even late |

Vendored web libraries (`AspMvcDemo/wwwroot/lib`), generated stubs and resource
classes are left aside.

What is hard, across the parts:

- **A stop meets work in progress.** The JVM halts when its hook returns; the .NET
  host waits, but only 30 seconds and one service after the other; a Python
  parent joins children that no SIGINT reached.
- **A failing call meets a loop.** Some loops catch everything, some nothing, and
  an uncaught exception of one hosted service stops all of them.
- **Requests meet in one file.** The authentication event of AspCertsDemo writes
  `ccc.pfx`; `gen.sh` rewrites certificates while programs read them; a result
  file is written over without truncation.
- **Programs meet on one port**, with runtimes that share it or do not.
- **A call or a navigation outlives what it began in**: the page it was made from,
  the proxy, the server, the navigation after it, the matcher it was matched by.
- **Layout arithmetic**, where two loops and three truncations must agree.

The hazards, each with its line and the properties about it, are in
`PROJECT.json`.

## 2. Plan

| Step | Module | Models | State |
|---|---|---|---|
| 1 | `SkiaDraw`, `SkiaDraw_proofs` | the drawing handler | done |
| 2 | `CsClient`, `CsClient_proofs` | the client loop, its host, the server it calls | done |
| 3 | `CertAuth`, `CertAuth_proofs` | certificate authentication side by side | done |
| 4 | `ServerLifecycle`, `JvmServer`, `JvmServer_proofs` | the promise of a stopping server, and the two JVM servers that implement it | done |
| 5 | `AuthClientHost`, `AuthClientHost_proofs` | three hosted loops and the order of their stop | done |
| 6 | `MtlsCerts`, `MtlsCerts_proofs` | certificates regenerated under running programs | done |
| 7 | `PyPool`, `PyPool_proofs` | forked workers under SIGINT | done |
| 8 | `DemoMachine`, `Demos_proofs` | ten pairs of programs on one machine | done |
| 9 | `PageRouter`, `Demos_proofs` | a browser tab with the pages of v2demo, v3demo and the others, and their router | done |
| 10 | `GrpcWeb` | a browser's call, by envoy, by the grpc-web middleware of AspMvcDemo, or by neither | done |
| 11 | `UnaryCall`, `WebTab`, `Demos_proofs` | what a call promises its page; tab, calls and `DemoMachine` in one, which keep it | done |
| 12 | `ImageSharpDraw` | the handler of `ImageSharpDemoImplement.cs`: the first 111 characters, the canvas sized by another text than the one drawn, Code -1 | open |
| 13 | `CsServer` | `ServerService` for several clients, as a second implementation of `ServerLifecycle`: `ShutdownAsync` without a time limit of its own inside the host's 30 seconds | open |

Compositions: `ServerLifecycle` is the abstract specification that `JvmServer`
implements (`INSTANCE ... WITH`) and `CsServer` shall, `UnaryCall` the one that the
calls of `WebTab` implement. `CsClient` composes client
and server, `DemoMachine` composes all small programs, `WebTab` composes
`PageRouter`, `GrpcWeb` and `DemoMachine`.

Theorems still worth proving: the refinement of step 13, and the properties of step 12.

## 3. The modules

A module's comment says what a step of it is; `PROJECT.json` maps every definition
to its lines. Operators and actions marked `Mutant` are not part of the model: they
are the same operation with a plausible bug, and each property is known to fail with
one of them in place of the real one.

### SkiaDraw

One call of `DrawBySkia` at a time, for the handler keeps all its state in locals.
The variables are these locals: `item` and `head` are the positions of the two
loops of `ParseTextWrap`, `lines` its result, `summed` and `height` the `Aggregate`
that sizes the canvas, `drawn` and `pointY` the drawing loop. `Receive` starts a
call, `Decode`, `BreakLine`, `OutOfMemory`, `NextText`, `WrapDone`, `SumLine`,
`MakeCanvas`, `DrawLine`, `DrawBitmap` and `Encode` follow the code from line to
line. A text is its advance widths and ink heights, given by the constants, so the
font is arbitrary; the external `BreakText` is any count that fits and cannot be
one larger. Heights are counted in `SubPixel`s because the code adds floats and
truncates; the rounding of the float sums themselves is left out, so a difference in
the order of two sums is not caught by `PictureClosesCanvas`. `MakeCanvas` may fail, for
`SKSurface.Create` returns null when it cannot have the pixels. `Encode` fails when a
side of the canvas is `TooLarge` for JPEG, the height or the width.
`MaxLines` stands for the memory the list of lines may take: with a character
wider than the picture the loop of line 38 adds empty lines until there is none.

### CsClient

`pc` is where `ExecuteAsync` is. `call` is the call it awaits (`Send`, `Accept`,
then one of the replies, `Unreachable`, or `ServerKill`). There is no try/catch:
a failed call leads to `faulted`, and `FaultStops` is the host's
`BackgroundServiceExceptionBehavior.StopHost`. `Overwrite` is `FileMode.OpenOrCreate`:
blocks behind the new end stay. The files outlive the process (`Kill`, `Exit`,
`Start`), flags and channel do not. The server is the one of `ServerService`:
`ServerStop` is `ShutdownAsync`, which drains, `ServerKill` is the end of its
process. `DrawingThrows` is what either drawing handler may throw, which ends the
client as any failed call does. ImageSharp may also answer Code -1: the client sets its
flag and writes nothing, and the history `refused` notes that. `saves` and `late` are
history variables too.

### AuthClientHost

For each service the place in its loop (`at`, `step`), for the host its phase, the
service it is stopping, the tokens cancelled and the state of the shutdown time.
`StopNext` is one turn of the loop in `Host.StopAsync` of .NET 7, which goes through
the services in the reverse order of their registration, cancels the token of one
and awaits its task. `Caught` is the catch-all of the two services that call
AspCertsDemo, `Fault` the missing one of `TesterService`. The delays ignore the
token, and no call has a deadline, so a server that is `stuck` holds a stop until
its time is over (`Expire`).

### CertAuth

The way of each request: `ConnectHttp` or `ConnectHttps` (Kestrel demands and
validates a certificate on port 7087), then `OnCertificateValidated`, cut where the
file system sees it: `OpenFile`, which creates or truncates `ccc.pfx`, and
`CertificateValidated`, which has written it and sets the principal. Where the
system enforces `FileShare.Read` (`enforced`, Windows), a second writer gets an
exception, the certificate handler turns it into `OnAuthenticationFailed`, and
`[Authorize]` then answers 403. Elsewhere both write. `ExportFails` is every other
exception of the export, with the same end: before the file is open (rights, a reader
from outside), or with a part of it written (the disk is full). The histories `opener`
and `export` say who opened the file last and how each export ended. One specification starts in
either kind of system. Certificates that `MakeCert` has signed exist once `MakeCert`
has answered.

### ServerLifecycle and JvmServer

`ServerLifecycle` is the abstract promise of a server to its callers: `phase` goes
from opening through open and closing to gone, every call ends once, none is accepted
outside the open phase, and an accepted one is lost only when the server has given
up waiting or its process is killed. `JvmServer` is both JVM servers: `app` says which,
and is chosen at the start. The main thread (`Start`, `AddShutdownHook`,
`AwaitTermination`), the hook (`Shutdown`, then `JavaDrained` or `JavaShutdownNow` and
`JavaForced`; or `KtPrint`), `io.grpc.Server` (`Accept`, `Refuse`, `Answer`, `Cancel`,
`Terminate`) and the JVM (`Signal`, `Halt`) take steps in any order. `Lifecycle` is the
refinement mapping.

### MtlsCerts

A certificate is represented by the runs of `gen.sh` that made its key and its CA, 0 for an
absent or unfinished file. Every command of the script is a step that may fail without
stopping the script, and `rm *.pem` a step for each file, which may stay in place; the history
`kept` names the files that did. The script may be killed anywhere. `ca-key.pem` is left out:
only `Sign` reads it, and `Sign` may fail in any state. A program reads three files in three
steps. Two programs accept each other when each one's certificate was signed by the CA the
other has read.

### PyPool

The parent's fork loop, `get_port`'s `finally`, the join loop and the interpreter's exit; for
every worker the time before its `try` and the time in it. SIGINT sets a flag; `Interrupt` is
the `KeyboardInterrupt` raised between two bytecodes, so an ordinary step of the parent
requires the flag to be down, and only `Fork`, which is inside a system call, does not look at
it. A forked child is `born` until it is scheduled and its interpreter has begun (`Begins`),
which clears the signals it has been sent meanwhile; `deaf` remembers the children a Ctrl+C
met in that state. `known` is the set of children that `Process.start` has registered and that
the exit of the parent joins.

### DemoMachine

The tables `Server` and `Client` say of each program what its code says: port, address
families, method, what becomes of it when the port is taken, how often it calls. The
actions are the same for all: `Listen` or `PortTaken`, `Crash` for the C++ server that
follows a null pointer, `End`, `Suspend`, `Resume`; `Send`, `Answered`, `Refused`,
`Broken`, `Deadline` and so on for the clients. The environment is Linux, with
what the pinned runtimes do there: the C core (PHP, C++, Python) sets `SO_REUSEPORT`
and binds `[::]` for `0.0.0.0`; the others do not share.

### PageRouter

One tab of a browser. `app` is the project whose page it shows; `Open` loads a
document, which is the run of `main.js` from its first line to `$mount` in one step,
because nothing in it is awaited: `task` is the promise of `myasync.js`, and the hooks
of `App.vue` wait for it on their own. `ComponentsFound` is `loader.js`, whose
`require.context` throws where `src/components` is missing, as it is here; `shared`
says whether it is. The tables `V2Routes` and `V3Routes` are what `parseRoutes` and
`createMyDemoRouter` make of the tree. A navigation is a number; `last` is
vue-router's `history.pending`, `here` its `current`, `made` the matcher of each, `gen`
the matcher now. `Navigate` is `transitionTo` of vue-router 3: it makes itself the
newest before it looks whether the route is the one shown, and calls a route a
duplicate only if the records are the same ones, which they are not across a `Reset`.
A lazy page is imported once for each record (`loaded`); `LoadEnds` checks whether its
navigation is still the newest. `promise` and `reported` are what `Router.push` makes
of it for its caller and for the window. No page of v2demo pushes by itself: `Push`
is the application that this skeleton is for, `Pop` the back and forward buttons. v2demo's
bundle holds its pages, v3demo fetches them and may fail (`LoadFails`), as
`GrpcPage.vue:11` says it does.

### GrpcWeb

The call of a browser from page to handler and back: `asked`, `posted` after the preflight,
`upstream`, `served`, then `ok`, `failed`, or `cut` when the connection under it goes. Three
tables say what the code says: `Page` of each page, what it dials, from which origin, with
which header, and who hears of answer and error; `Front` of each thing that is dialled, what
it allows and whether it translates gRPC-Web. Envoy reads the prefix `*` as any origin.
vitetsgrpc prints the call and not what becomes of it. An async click handler of v3demo has no
catch; Vue 3 prints the error in its place (`framework`). `grpcdemo.html` leaves it to the
window. `Garbled` is nginx's `grpc_pass`: the call may be handled, and its answer cannot be
read. The node server is the one of `DemoMachine`: `MachineStep` composes any step of it with
its effect on the calls. `held` are the calls whose request a server has and has not handled:
`Serve` is the handler of a call that is waited for, `OrphanRuns` that of one which was cut,
has failed or was dropped, for a node server that was suspended still finds the request when
it goes on. `IdleTimeout` is Envoy's `stream_idle_timeout`: a route's `timeout: 0s` leaves its
default of five minutes, which only a server that hangs outlasts. `FrontDies` and
`FrontStarts` are the end and the restart (`restart: always`) of the proxy, or of the ASP.NET
server; what the proxy has forwarded the node server keeps.

### UnaryCall and WebTab

`UnaryCall` is the abstract promise of a call to the page that makes it: `state` goes from
`idle` over `going` to `ok`, `failed` or `dropped` and stays there, `handled` counts
runs of the handler and never passes one, an answer needs one, and `told` is set once, with
the outcome. A handler may have run for a call that fails, and may run after it has failed
or was dropped (`Late`). A step may be one of several
calls, as when a document is closed under them. In `WebTab` all places from `asked` to
`cut` are `going`; `UnarySpec` is the refinement.

The tab and its calls: a click on the page that is shown, or the script of a page
without router, makes a call; a call goes on when the tab has gone to another page and is
dropped when another document is loaded, though a server keeps what it has of it (`Orphan`).
`EnvoyDemo` and `HasFront` bound the
instance: servers end and hang only for the projects that call them.

## 4. What the runs check

| Run | Instance | Distinct states | What it shows |
|---|---|---|---|
| `skia_draw` | four texts over three characters, five picture sizes, one too wide for the encoder, and undecodable bytes, up to two texts | 1 394 | `Lossless`, `ReplyNeedsRoom`, `PictureClosesCanvas`; the action property `OnlyCanvasFails`; `EveryCallEnds` |
| `cs_client` | two pictures, answers of one to three blocks, three starts of the process | 80 886 | `SavedOncePerRun`, `FileIsLayered`, `OneRoundMore`; `StopEnds`, `DeadServerEndsClient`, `DrawsOrEnds` |
| `auth_client_host` | the three services and two servers of the code | 119 988 | `ReverseOrder`, `NobodyForgotten`; `StopEnds`, `ErrorsSurvived`, `DeadServerEndsClient` |
| `cert_auth` | three requests, both kinds of system, exports that fail | 215 146 | `AuthorizedIsCertified`, `TurnedAwayAtFile`, `FileIsOneCert`; `EveryoneAnswered` |
| `jvm_servers` | three calls, both servers | 1 883 | `LossNeedsGrace`, `NobodyLeftWaiting`; `ExitHalts`; `LifecycleSpec`, the refinement |
| `mtls_certs` | two servers, one client, two runs of `gen.sh` | 414 006 | the action properties `OneRun`, `RefusedIsStale`; `ClientEnds` |
| `py_pool` | four workers, three SIGINTs | 401 590 | `MissesAtMostOne`, `UnknownAtMostOne`; `CtrlCEnds` |
| `port_50051` | go, php, cpp and js, server and client of each | 190 472 | `Mixups`; `GoEnds` |
| `port_40041` | java, dart and rust on 40041, kotlin on 40441 | 306 625 | `LoopersRecover` |
| `cpp_announces` | the C++ server beside the Go server | violation | finding: it prints that it listens when it does not |
| `web_tab` | every project in the tab, three paths, two navigations, one reset, two documents, two calls, the node server | 36 875 | `LastNavigationWins`; `UnarySpec`, the refinement; `EveryCallHeard`, `WorkingPagesAnswered`, `ShownAnyway` |
| `push_resolved` | v2demo in the tab | violation | finding: a push resolves for its caller though the tab never went there |

What was learned from them, beyond "no error":

- `DrawBySkia` fails for a request that can be drawn only at its canvas: there is no
  memory for it, or its height or width is beyond JPEG. All other failures are those of
  `Drawable`: no picture, no text, a character wider than the picture.
- A client that is not disturbed writes both files, or ImageSharp has refused its picture:
  the flag is set all the same, so that run never tries again (`DrawsOrEnds`).
- A result file of CsClient is in general a mixture of runs: the newest answer,
  then the tails of longer ones (`FileIsLayered`).
- A caller with a good certificate gets 403 when the export to `ccc.pfx` fails, for
  whatever reason. Without a failure of its own that happens only on Windows, and only
  because another request had the file open: of those that collide one is let in, if it
  can write. Elsewhere none is refused for the file, and it may hold a mixture.
- No mixture of certificates that an interrupted or failed `gen.sh` leaves can be
  loaded by both sides and then refused, because a key that does not fit its
  certificate is refused when it is loaded. There is one exception, and the run needs it:
  `rm` removed neither the server's certificate nor its key, the new CA stands beside the
  old pair, and two programs fresh from the disk refuse each other.
- A Ctrl+C during the start of the Python pool misses the children whose interpreter has
  not begun, which clear it, and besides them at most one worker: the one whose fork was under
  way. These serve on, and the parent waits for those of them it knows.
- On port 40041 Dart's client may talk to the Rust server, and a client of the
  three C core servers to any of them, with nobody reporting a conflict.
- Reset, duplicates and slow imports of v2demo's router in any order never show an
  older page than the one asked for last, though `reset` leaves the current route with
  records that the new matcher does not know.
- No page sets a limit of time on its call, and the proxy's `timeout: 0s` leaves only its
  idle timeout. With that every call ends, even when the node server hangs for
  good. A handler may run after its page was told of a failure, or is gone; but no restart
  of proxy or server makes it run twice, because nothing on the way retries.
- Of the eight pages that call, two can ever be answered with the servers of the
  repository: webpackgrpc and v2demo's DemoPage (vitetsgrpc is answered and does not look).

### Findings

- `push_resolved`: `router.js:21` says that `push` catches the exception of a repeated
  route. It catches all of them; for the others, line 30 makes a rejected promise and does not
  return it. A push that another one overtakes resolves, the tab never went there, and
  only the window's `unhandledrejection` hears of it.
  The theorem `OnlyOvertakenMislead` says how far it goes: the pushes that mislead their caller are
  the overtaken ones and no others, never the newest, and the window hears of each of them.
- `cpp_announces`: `srvdemo/src/main.cpp:33` may return a null pointer, line 35 prints
  `listen: 0.0.0.0:50051` all the same, and the next line follows the pointer.
  The theorem `OnlyCppAnnouncesInVain` says that this is the only line of its kind: of all ten
  servers no other one stands announced and does not listen, and cppdemo only in the state
  before it follows the pointer.

A smaller one without a run: `Server.kt:20` prints `*** server shut down` when `stop()` has only
called `server.shutdown()`, which returns at once, and accepted calls are still served
(`KtPrint`).

### Bounds, and why they are enough

- `MaxRuns = 3` for `CsClient`: a file can hold parts of at most as many answers as
  there are writes, and one write per run; a third run is needed to see an old tail
  survive two later writes. `MostLate = 5` bounds no behaviour,
  it only ends the counting one above the claim.
- Two pictures with answers of different length, the longer one first for one file
  and last for the other: both orders of a shorter and a longer write occur.
- Three requests for `CertAuth`: a writer, one that collides with it, and one that
  comes between or after them. A failed export may leave any number of blocks, from none to
  all of the certificate's.
- Three calls for `JvmServer`: one that ends in time, one that is cancelled or lost,
  one that is refused, in the same behaviour.
- `MtlsCerts`: two runs of `gen.sh` are an old set of files and a new one, with any of the old
  ones left in place; the proofs of `OneRun` and `RefusedIsStale` are for every number of runs.
- `PyPool`: `N = 4` gives workers before, at, and behind the interrupted fork, and several
  that are born at once; `MaxSigs = 3` reaches the loop, the clean-up and the last join of one parent.
- `DemoMachine`: `GoCalls = 2` in place of eleven has a first, a last and a next call.
  Programs of different ports share nothing but the model's steps, so the ports are checked
  apart; Python's pair, which differs from PHP's in its method and in dialling 127.0.0.1 only,
  is left to the proof. The proof has no such bound: it is about all ten pairs.
- `PageRouter`, `WebTab`: two navigations are the first and one that overtakes it, finds
  it a duplicate, or follows a reset; a third repeats these, and the theorems
  `NewestShown` and `NewestShownInTab` hold for every number. Two documents are one with
  calls and one that drops them. Of two calls one can be made before and one after a
  restart or a change of page; calls do not touch each other. The paths are one lazy
  page, one in the bundle and one that v2demo does not know but v3demo does.
- `SkiaDraw`: wrapping widths of 0, 3, 5 and 9 against characters of width 1, 2 and 4 contain
  the character that does not fit, the exact fit and the line of several characters; `MaxLines
  = 7` exceeds the six characters of the longest request, so `OutOfMemory` is only met by
  empty lines; `MaxJpegSide` is below the tallest canvas and below the widest picture.

### Deadlock

Deadlock is checked except in `cert_auth` (all requests have been answered),
`jvm_servers` (the JVM has halted, all calls are settled), `py_pool` (all processes
have ended), `web_tab` and `push_resolved` (the user is through with the tab), where
the system is meant to stop.

### Fairness

- `SkiaDraw`: the thread pool runs an accepted call on; nothing makes a client call.
- `CsClient`: delays elapse, a call reaches the server or fails, a handler ends, the
  host's stop goes on. Nobody has to start, stop or kill a process. The shutdown time
  (30 s) exceeds the delays of a round (11 s), hence `ExitTimeout` only with a call in flight.
- `AuthClientHost`: the same for each loop, and the steps of the stop. The delays of
  all three loops together are 9 s. Servers and users owe nothing.
- `CertAuth`: the thread pool serves each request it has taken, to its success or failure.
- `JvmServer`: the threads of the JVM run, and `Halt` follows the last hook. A call
  may last for ever, no signal has to come.
- `MtlsCerts`: only the client must go on, and only its own clock of four seconds ends
  a call: a server may be suspended.
- `PyPool`: parent and workers are scheduled; no signal has to come.
- `DemoMachine`: each client's steps. Starting, ending, suspending and resuming are
  never promised; `GoEnds` and `LoopersRecover` assume in their own statement that a
  server stays up.
- `WebTab`: an import ends, well or not; a call that can take a step takes one. The user
  owes no click, proxy and servers owe no restart, and nobody owes a late handler (`Orphan`).
  `EveryCallHeard` assumes nothing more: a server that stays suspended runs into the proxy's idle
  timeout. `WorkingPagesAnswered` assumes for each call that what it goes through is up: proxy and
  node server for webpackgrpc, the ASP.NET server for DemoPage.

## 5. What is proved

Every `_proofs` module holds an inductive invariant `IInv`, a lemma that the initial states
satisfy it, lemmas that the actions keep it, and the theorems that follow. All are for every
value of the constants, under the named assumptions of the module: any font and any requests,
any number of requests, calls, services, workers, signals and runs. Type correctness is part
of every `IInv` (`IInvHolds`, `TypeCorrect`); the runs therefore leave the type invariants
out. Some properties are proved and not run: `Mixups` for the servers of port 40041
(`MixupsAreShared` is about all ten pairs), `QuietEnd` of `PyPool`, and of `WebTab`
`DirectNeverServed` and `ServedOnce`, which `UnarySpec` contains.

| Module | Theorems about checked properties | The inductive invariant, and why it is needed |
|---|---|---|
| `SkiaDraw_proofs` | `WrapCorrect` (`Lossless`, and `ReadingOrder`), `ReplyHasRoom`, `PictureCloses`, `DrawableIsDrawn` (`OnlyCanvasFails`) | Lines lie behind the reading position and fit (`LinesBehind`, `LinesFit`), which makes the next line new. `Layout` names the height of the first k lines by a function `s`: canvas and drawing position are values of the same `s`, which no state component says by itself. `Budget`: a drawable request has never more lines than characters read, so a heap with a line for each character (`RoomAssumption`) is never full; the room up to each text is given by a function, which takes the place of an induction over the texts. |
| `CsClient_proofs` | `OncePerRun`, `FewCallsAfterStop`, `LayersHold` (`FileIsLayered`) | `Remembered`: whatever this run has written stands in its flags. `Late`: at each place of the loop, how many of the four calls can have been made since the stop. `FileIsLayered` is inductive by itself: each write is the newest layer, and what it does not reach is as it was. |
| `AuthClientHost_proofs` | `StopsInReverse`, `StopIsComplete` | The cancelled tokens are exactly those from the awaited service to the last (`Tokens`), and behind it every loop is over or the time is (`Behind`). |
| `CertAuth_proofs` | `AuthorizationHolds`, `CollisionHolds` (`TurnedAwayAtFile`), `FileHolds` | `Way`: a user is one whose export ran to its end. `Met`: who is on the way to be refused, without a failure of its own, has met another request that has the file open or had it. `OneWriter`: with enforced shares one writer, the one that opened the file last, on an empty file; and what a failed write leaves is of that one. |
| `JvmServer_proofs` | `JavaGrace`, `NobodyWaits`, `Refinement` (`LifecycleSpec`) | `Together` ties the places of thread, hook, server and JVM; `Drain` says what the hook knows when it returns. The refinement proof maps each action to a step of `ServerLifecycle` or a stutter. |
| `MtlsCerts_proofs` | `AnsweredHoldOneRun` (`OneRun`), `FreshAreNotRefused` (`RefusedIsStale`) | On the disk certificate and key are not older than the CA, or an `rm` has kept them (`DiskInv`); what a process has read is ordered in time (`MemInv`): its CA is never newer than its certificate, unless both certificate and key were kept. Mutual acceptance then forces equality. `CleanInv` is what holds while no file was kept. |
| `PyPool_proofs` | `CtrlCMissesAtMostOne`, `ExitKnowsTheRest`, `QuietEndIsClean` | By the place of the parent, which workers a signal can have missed or the parent not know. All who are `born` after the flag was set are `deaf` but the one of the fork under way, so beginning loses the signal of no others. |
| `Demos_proofs` | `MixupsAreShared` (`Mixups`) | No two listening servers conflict, and a channel leads to a server its client can reach: two listening servers on one port then share it or differ in family. |
| `Demos_proofs` | `OnlyCppAnnouncesInVain` (`HeldToWord`, what is true in place of `AnnouncedListens`) | By itself: a server's line is set and struck out with its state, and the table of programs leaves a null pointer to one of them. |
| `Demos_proofs` | `NewestShown`, `NewestShownInTab` (`LastNavigationWins`) | `RInv`: what is shown is the newest of the navigations that ended there, and a duplicate that is the newest has the path of what is shown. `TabRefined`, `WebSpec => RouterSpec`, carries it from the tab alone to the composition. |
| `Demos_proofs` | `OnlyOvertakenMislead`, `OnlyOvertakenMisleadInTab` (`MisledAreReported`, what is true in place of `ResolvedIsThere`) | `PushInv`: a push whose promise is pending has its page loading, and a number that no navigation has taken yet has neither promise nor report. |
| `Demos_proofs` | `CallsKeepPromise` (`UnarySpec`), `HandlersRunOnce` (`ServedOnce`), `DirectIsHopeless` (`DirectNeverServed`), `MachineRefined` | By the place of a call, how often its handler has run, and that a request still held by a server has not been handled (`SInv`), and that nobody has heard of it while it goes on (`UInv`), with which every step is one of `UnaryCall`; a call from a page that dials the gRPC server itself never leaves its preflight, so no server ever holds it (`DInv`). |

### Liveness, and what its theorems assume

The prover takes `WF_vars(A)` apart soundly, but it knows nothing of `ENABLED`, which
stays an opaque formula to it. So each theorem about a liveness property has one
hypothesis `[]Can...`: at the places where the argument leans on fairness, the action
with the fairness is enabled. The `Can...` predicates are state predicates, stated in the
`_proofs` module beside the theorem. TLC evaluates `ENABLED`, and finds each of them
true in every state of the run of the same component when it is added to the cfg as an
invariant. Everything else in these theorems is for every value of the constants.

| Theorem | Property | Hypothesis on `ENABLED` | Comes to rest |
|---|---|---|---|
| `CallEnds` | `EveryCallEnds` | `ServeCanStep` | `StepsLeft` of a call that does not end (`CallComesNearer`, `NoCallRests`) |
| `StopCompletes`, `RoundDraws` | `StopEnds`, `DrawsOrEnds` of `CsClient` | `ClientCanStep` | - |
| `NoServerNoProcess`, `LastRunEnds` | `DeadServerEndsClient` of `CsClient` | `ClientCanStep` | `runs`, for the second only |
| `StopComesToEnd` | `StopEnds` of `AuthClientHost` | `CanGoOn` | the service awaited (`StopGoesDown`) and what its loop has to go (`LastRoundOnly`) |
| `LoopsOutliveErrors` | `ErrorsSurvived` | `CanGoOn` | what a loop that never again delays has to go (`LoopMoves`) |
| `DeadServerEndsAll` | `DeadServerEndsClient` of `AuthClientHost` | `CanGoOn` | -, but it takes `StopEnds` as a hypothesis |
| `AnswersArrive` | `EveryoneAnswered` | `AllCanBeServed` | - |
| `ExitEnds` | `ExitHalts` | `ExitCanStep` | - |
| `EveryClientEnds` | `ClientEnds` | `AllCanGoOn` | - |
| `SignalledWorkersEnd`, `CtrlCLeavesNobody` | `CtrlCEnds` | `PoolCanStep` | `Alive`, for the second only (`PoolOnlyShrinks`) |
| `LoopsRecover` | `LoopersRecover` | `LoopersCanStep` | - |
| `GoRunsOut` | `GoEnds` | `GoCanStep` | `left`, in a process that stays up (`GoCountsDown`) |
| `ShownWhenLeftAlone`, `ShownInTab` | `ShownAnyway` | `LoadsCanEnd` | `last`: no more navigations (at most `MaxNavs` in the model) |
| `EveryCallIsHeard`, `WorkingPagesWork` | `EveryCallHeard`, `WorkingPagesAnswered` | `CallsCanGoOn` | - |

The last column names what the argument needs a second hypothesis for. A process that
goes through a fixed number of places is followed from place to place. Where the number
depends on the constants (lines of a text, calls of a round, services, workers), the
argument is that a natural number falls, so that it must come to rest, and that nothing
rests but what has ended. That the number only falls, and that it can rest nowhere else,
are proved; that a falling number comes to rest is an induction over the naturals with a
temporal formula in it, which none of the provers can do, so `<>[](number = n)` is a
hypothesis of the theorem, for an arbitrary `n`. It is not a condition on the program: every
behaviour satisfies it for one `n`, because of the theorem in brackets.
Only the hypotheses of `LastRunEnds` and `ShownInTab` bound what a user does: how often
the client is started, and how often somebody navigates; the model bounds both
(`MaxRuns`, `MaxNavs`).

The arguments: `Placed` (`CsClient`), `Told` (`CertAuth`), `GoInv`, `TInv` and `HInv` (`Demos_proofs`)
are the invariants that liveness needs besides `IInv`: which flags a place of the loop
implies, that what is done has its answer, how the goroutine's count belongs to its place,
that a page which is open has a navigation that has begun, and who hears of a call that has
ended. `FInv` (`AuthClientHost`) says that a stop whose time has not begun to run meets no
stuck server, which is why the loops of `StopComesToEnd` end by themselves or the time does.

### Only model-checked

- The `Can...` predicates above, and with them what the theorems say without them.
- That a falling count comes to rest, hence the properties with an entry in the last
  column without that hypothesis.

Every invariant, every action property and every refinement that a run checks is proved
without hypotheses. `ServerLifecycle` and `UnaryCall` have no fairness, and `RouterSpec` has that
of its imports, which the tab's own implies (`TabRefined`), so all three refinements are proved in full.

## 6. Not modelled, and why

- Contents: pictures, fonts, colours, texts of messages and logs, exit statuses.
- Code that nothing calls: `EnsureRootCert`, `MakeRootCert`, `MakeClientCert`,
  `MakeClientCertChain`, `PrintChain`, the `ExportCertPfxTo` of AuthDemo.Client, `RootCerts`, the Kotlin
  client's `close`.
- The Java hook's catch of `InterruptedException`: nothing interrupts the hook.
- Certificate names and dates: the script's always fit.
- Torn writes: one write of a result file is one step.
- Handlers without state (`SayHello`, `getName`, `Say`, the echo services) are the reply
  step of their caller.
- `vitejsgrpc`, which makes no call; the proxy of `vite.config.ts`, which no page's call
  passes (`"//"` and the method give an address whose host is `jsdemo`); the MVC pages of
  AspMvcDemo, which call nothing; the names that `loader.js` gives to components, of
  which the repository has none.
- Streams: every call of the repository is unary.
- The handler of ImageSharpDemo, of which only the two outcomes are modelled.
- Vendored and generated code.
