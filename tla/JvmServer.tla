------------------------------ MODULE JvmServer ------------------------------
(***************************************************************************)
(* The two servers that run in a JVM, javademo's and ktdemo's: a main      *)
(* thread that starts the server and waits for it, the calls it serves,    *)
(* and the shutdown hook the JVM runs on SIGTERM or Ctrl-C.  They differ   *)
(* in the hook: Java's waits 30 seconds for the calls, cancels what is     *)
(* left and waits 5 more; Kotlin's only calls shutdown() and prints.       *)
(*                                                                         *)
(* The JVM halts as soon as the hook has returned, whatever else runs.  A  *)
(* signal that comes before the hook is registered halts it at once.  No   *)
(* thread interrupts the hook: Java's catch of InterruptedException is not *)
(* modelled.                                                               *)
(***************************************************************************)
CONSTANT Calls   \* the calls clients make

VARIABLES
    app,        \* the program this JVM runs: "javademo" or "ktdemo"
    main,       \* the main thread
    hook,       \* the shutdown hook's thread
    server,     \* io.grpc.Server
    jvm,
    calls,      \* where each call is
    drained     \* what awaitTermination(30, SECONDS) returned to Java's hook

vars == <<app, main, hook, server, jvm, calls, drained>>

HookAwaits == app = "javademo"

Running == {c \in Calls : calls[c] = "running"}

Init ==
    /\ app \in {"javademo", "ktdemo"}
    /\ main = "starting"
    /\ hook = "absent"
    /\ server = "built"
    /\ jvm = "up"
    /\ calls = [c \in Calls |-> "none"]
    /\ drained = "unknown"

-----------------------------------------------------------------------------
(* The main thread.  The server takes calls before the hook is there. *)

Start ==
    /\ main = "starting" /\ jvm # "halted"
    /\ main' = "started"
    /\ server' = "serving"
    /\ UNCHANGED <<app, hook, jvm, calls, drained>>

AddShutdownHook ==
    /\ main = "started" /\ jvm = "up"
    /\ main' = "awaiting"
    /\ hook' = "registered"
    /\ UNCHANGED <<app, server, jvm, calls, drained>>

\* Mutant: main does not wait.
AwaitNothing ==
    /\ main = "awaiting" /\ jvm # "halted"
    /\ main' = "returned"
    /\ UNCHANGED <<app, hook, server, jvm, calls, drained>>

AwaitTermination ==
    /\ main = "awaiting" /\ jvm # "halted"
    /\ server = "terminated"
    /\ main' = "returned"
    /\ UNCHANGED <<app, hook, server, jvm, calls, drained>>

-----------------------------------------------------------------------------
(* The calls, and io.grpc.Server around them. *)

Settle(c, from, to) ==
    /\ calls[c] = from
    /\ calls' = [calls EXCEPT ![c] = to]
    /\ UNCHANGED <<app, main, hook, server, jvm, drained>>

Accept(c) == server = "serving" /\ jvm # "halted" /\ Settle(c, "none", "running")

\* Nothing listens, or the server refuses new streams.
Refuse(c) == (server # "serving" \/ jvm = "halted") /\ Settle(c, "none", "refused")

\* The handler's onNext and onCompleted reach the caller.
Answer(c) == jvm # "halted" /\ Settle(c, "running", "answered")

\* shutdownNow reaches the call's stream, perhaps when the hook has returned.
Cancel(c) == /\ drained = "no" /\ jvm # "halted"
             /\ Settle(c, "running", "cancelled")

Terminate ==
    /\ server = "shutdown" /\ jvm # "halted"
    /\ Running = {}
    /\ server' = "terminated"
    /\ UNCHANGED <<app, main, hook, jvm, calls, drained>>

-----------------------------------------------------------------------------
(* The JVM. *)

Killed == [c \in Calls |-> IF c \in Running THEN "lost" ELSE calls[c]]

Signal ==
    /\ jvm = "up"
    /\ IF hook = "registered"
         THEN jvm' = "exiting" /\ hook' = "begun" /\ UNCHANGED calls
         ELSE jvm' = "halted" /\ calls' = Killed /\ UNCHANGED hook
    /\ UNCHANGED <<app, main, server, drained>>

Halt ==
    /\ jvm = "exiting" /\ hook = "done"
    /\ jvm' = "halted"
    /\ calls' = Killed
    /\ UNCHANGED <<app, main, hook, server, drained>>

-----------------------------------------------------------------------------
(* The hooks.  Both begin with server.shutdown(). *)

\* Mutant: Java's hook returns without waiting.
ShutdownOnly ==
    /\ hook = "begun"
    /\ server' = "shutdown"
    /\ hook' = "done"
    /\ UNCHANGED <<app, main, jvm, calls, drained>>

\* Mutant: the hook waits for a server it has not shut down.
ShutdownForgotten ==
    /\ hook = "begun"
    /\ hook' = IF HookAwaits THEN "draining" ELSE "stopped"
    /\ UNCHANGED <<app, main, server, jvm, calls, drained>>

Shutdown ==
    /\ hook = "begun"
    /\ server' = "shutdown"
    /\ hook' = IF HookAwaits THEN "draining" ELSE "stopped"
    /\ UNCHANGED <<app, main, jvm, calls, drained>>

\* awaitTermination(30, SECONDS) returns true.
JavaDrained ==
    /\ hook = "draining"
    /\ server = "terminated"
    /\ drained' = "yes"
    /\ hook' = "done"
    /\ UNCHANGED <<app, main, server, jvm, calls>>

\* It returns false: shutdownNow().
JavaShutdownNow ==
    /\ hook = "draining"
    /\ server # "terminated"
    /\ drained' = "no"
    /\ hook' = "forcing"
    /\ UNCHANGED <<app, main, server, jvm, calls>>

\* Mutant: the second wait has no limit.
JavaForcedUnlimited ==
    /\ hook = "forcing"
    /\ server = "terminated"
    /\ hook' = "done"
    /\ UNCHANGED <<app, main, server, jvm, calls, drained>>

\* The last 5 seconds end, with the server terminated or not.
JavaForced ==
    /\ hook = "forcing"
    /\ hook' = "done"
    /\ UNCHANGED <<app, main, server, jvm, calls, drained>>

\* "*** server shut down", while the calls go on.
KtPrint ==
    /\ hook = "stopped"
    /\ hook' = "done"
    /\ UNCHANGED <<app, main, server, jvm, calls, drained>>

Hook == Shutdown \/ JavaDrained \/ JavaShutdownNow \/ JavaForced \/ KtPrint

Next == \/ Start \/ AddShutdownHook \/ AwaitTermination
        \/ Terminate \/ Signal \/ Halt \/ Hook
        \/ \E c \in Calls : Accept(c) \/ Refuse(c) \/ Answer(c) \/ Cancel(c)

\* The threads of the JVM run; nobody has to call the server, a call may last
\* for ever, and no signal has to come.
Fairness == /\ WF_vars(Start \/ AddShutdownHook) /\ WF_vars(Hook) /\ WF_vars(Halt)
            /\ WF_vars(Terminate)

Spec == Init /\ [][Next]_vars /\ Fairness

-----------------------------------------------------------------------------
(* Properties. *)

\* The type invariant: the states of the threads and of the server object of
\* App.java and Server.kt.
TypeOK ==
    /\ app \in {"javademo", "ktdemo"}
    /\ main \in {"starting", "started", "awaiting", "returned"}
    /\ hook \in {"absent", "registered", "begun", "draining", "forcing", "stopped", "done"}
    /\ server \in {"built", "serving", "shutdown", "terminated"}
    /\ jvm \in {"up", "exiting", "halted"}
    /\ calls \in [Calls -> {"none", "running", "answered", "refused", "cancelled", "lost"}]
    /\ drained \in {"unknown", "yes", "no"}

Unanswered(c) == calls[c] \in {"cancelled", "lost"}

\* Java's hook lets the accepted calls finish: a call the server accepted goes
\* without an answer only after the 30 seconds of awaitTermination have passed,
\* or when the signal came before the hook was registered.
LossNeedsGrace ==
    HookAwaits =>
      \A c \in Calls : Unanswered(c) => drained = "no" \/ hook = "absent"

\* No caller is left waiting on a JVM that is gone, and the main thread's
\* awaitTermination never returns while a call is being served.
NobodyLeftWaiting ==
    jvm = "halted" \/ main = "returned" => Running = {}

\* Both hooks end in bounded time even with a call that never finishes: a JVM
\* that begins to exit halts.
ExitHalts == jvm = "exiting" ~> jvm = "halted"

-----------------------------------------------------------------------------
(* The promise to the callers. *)

Phase == CASE jvm = "halted" -> "gone"
           [] jvm # "halted" /\ server = "built" -> "opening"
           [] jvm # "halted" /\ server = "serving" -> "open"
           [] OTHER -> "closing"

Outcome == [c \in Calls |-> CASE calls[c] = "running" -> "pending"
                              [] calls[c] = "cancelled" -> "lost"
                              [] OTHER -> calls[c]]

GaveUp == hook \in {"forcing", "done"}

Lifecycle == INSTANCE ServerLifecycle WITH
    phase <- Phase, outcome <- Outcome, gaveUp <- GaveUp

\* Both servers keep the promise of ServerLifecycle: every call is settled
\* once, none is accepted once shutdown() was called, and an accepted one is
\* lost only after the hook gave up or with a process killed before its hook.
LifecycleSpec == Lifecycle!Spec
=============================================================================
