-------------------------------- MODULE PyPool --------------------------------
(***************************************************************************)
(* pydemo_server_mp.py: a parent reserves a port, forks one server per     *)
(* processor onto it, and joins them in order.  Nothing but SIGINT ends    *)
(* them, and it may come at any moment, to the process group (Ctrl+C) or   *)
(* to one process.                                                         *)
(*                                                                         *)
(* CPython: the C handler only sets a flag, and the interpreter raises     *)
(* KeyboardInterrupt between two bytecodes or when a wait is interrupted;  *)
(* a forked child clears the flags it has when its interpreter begins,     *)
(* those of a signal that it was sent since the fork included; at exit the *)
(* parent joins the children that Process.start has registered.            *)
(***************************************************************************)
EXTENDS Naturals

CONSTANTS
    N,         \* multiprocessing.cpu_count()
    MaxSigs    \* bound: SIGINTs sent

ASSUME NAssumption == N \in Nat \ {0}
ASSUME SigsAssumption == MaxSigs \in Nat

Workers == 1..N

VARIABLES
    parent,   \* where main() is
    i,        \* the worker it forks or joins
    flag,     \* the parent's SIGINT flag is set
    known,    \* workers registered as children of the parent
    worker,   \* where each worker is
    pending,  \* workers whose SIGINT flag is set
    sigs,     \* SIGINTs so far
    struck,   \* history: one of them went to the whole group
    deaf      \* history: workers that it met before their interpreter began

vars == <<parent, i, flag, known, worker, pending, sigs, struck, deaf>>

Init ==
    /\ parent = "loop" /\ i = 1 /\ flag = FALSE /\ known = {}
    /\ worker = [w \in Workers |-> "none"]
    /\ pending = {} /\ sigs = 0 /\ struck = FALSE /\ deaf = {}

Born == {w \in Workers : worker[w] = "born"}
Alive == {w \in Workers : worker[w] \in {"born", "boot", "serving"}}

-----------------------------------------------------------------------------
(* The parent. *)

Move(from, to) ==
    /\ parent = from /\ parent' = to
    /\ UNCHANGED <<worker, pending, sigs, struck, deaf>>

\* The interpreter goes on only when the flag is not set.
Goto(from, to) == ~ flag /\ Move(from, to) /\ UNCHANGED flag

\* worker.start(), up to the system call.
Start == Goto("loop", "fork") /\ i <= N /\ UNCHANGED <<i, known>>

\* os.fork(): nobody looks at the flag between the last bytecode and the child.
Fork ==
    /\ parent = "fork" /\ parent' = "forked"
    /\ worker' = [worker EXCEPT ![i] = "born"]
    /\ UNCHANGED <<i, flag, known, pending, sigs, struck, deaf>>

\* No process to be had: OSError out of main().
ForkFails == Move("fork", "close") /\ UNCHANGED <<i, flag, known>>

Register ==
    /\ Goto("forked", "loop")
    /\ known' = known \cup {i} /\ i' = i + 1

AllForked == Goto("loop", "join") /\ i > N /\ i' = 1 /\ UNCHANGED known

\* worker.join()
Join ==
    /\ parent = "join" /\ worker[i] = "gone"
    /\ IF i < N THEN Goto("join", "join") /\ i' = i + 1
                ELSE Goto("join", "close") /\ UNCHANGED i
    /\ UNCHANGED known

\* finally: sock.close()
Close == Goto("close", "exit") /\ UNCHANGED <<i, known>>

\* The exit function of multiprocessing joins whatever is registered.
Exit ==
    /\ Goto("exit", "gone") /\ known \cap Alive = {}
    /\ UNCHANGED <<i, known>>

\* Mutant: KeyboardInterrupt is caught around worker.start().
InterruptCaught ==
    /\ flag /\ flag' = FALSE
    /\ \/ \E from \in {"loop", "forked"} : Move(from, "loop") /\ i' = i + 1
       \/ Move("join", "close") /\ UNCHANGED i
       \/ Move("close", "exit") /\ UNCHANGED i
       \/ Move("exit", "gone") /\ UNCHANGED i
    /\ UNCHANGED known

\* KeyboardInterrupt: out of main(), out of the clean-up, out of the last join.
Interrupt ==
    /\ flag /\ flag' = FALSE
    /\ \/ \E from \in {"loop", "forked", "join"} : Move(from, "close")
       \/ Move("close", "exit")
       \/ Move("exit", "gone")
    /\ UNCHANGED <<i, known>>

-----------------------------------------------------------------------------
(* A worker: the rest of os.fork(), then serve(). *)

Step(w, from, to) ==
    /\ worker[w] = from /\ worker' = [worker EXCEPT ![w] = to]
    /\ UNCHANGED <<parent, i, flag, known, sigs, struck, deaf>>

\* The child is scheduled, and clears its flags.
Begins(w) == Step(w, "born", "boot") /\ pending' = pending \ {w}

\* add_insecure_port, start, and into the try.
Serve(w) == Step(w, "boot", "serving") /\ UNCHANGED pending

\* The port cannot be bound, or whatever else goes wrong before the try.
BootFails(w) == Step(w, "boot", "gone") /\ pending' = pending \ {w}

\* A traceback before the try.
InterruptBoot(w) == w \in pending /\ Step(w, "boot", "gone") /\ pending' = pending \ {w}

\* Mutant: the try stands inside the while.
InterruptSleep(w) == w \in pending /\ Step(w, "serving", "serving") /\ pending' = pending \ {w}

\* except KeyboardInterrupt: server.stop(None), which cancels the calls.
InterruptServe(w) == w \in pending /\ Step(w, "serving", "gone") /\ pending' = pending \ {w}

-----------------------------------------------------------------------------
(* SIGINT. *)

Signal ==
    /\ sigs < MaxSigs /\ sigs' = sigs + 1
    /\ UNCHANGED <<parent, i, known, worker>>

CtrlC ==
    /\ Signal /\ parent # "gone"
    /\ flag' = TRUE /\ pending' = pending \cup Alive
    /\ struck' = TRUE /\ deaf' = deaf \cup Born

KillParent == Signal /\ parent # "gone" /\ flag' = TRUE /\ UNCHANGED <<pending, struck, deaf>>

KillWorker(w) ==
    /\ Signal /\ w \in Alive
    /\ pending' = pending \cup {w} /\ UNCHANGED <<flag, struck, deaf>>

-----------------------------------------------------------------------------
Parent == \/ Start \/ Fork \/ ForkFails \/ Register \/ AllForked
          \/ Join \/ Close \/ Exit \/ Interrupt

Worker(w) == Begins(w) \/ Serve(w) \/ BootFails(w) \/ InterruptBoot(w) \/ InterruptServe(w)

Next == Parent \/ CtrlC \/ KillParent \/ \E w \in Workers : Worker(w) \/ KillWorker(w)

\* The processes are scheduled; nobody need send a signal.
ParentFair == WF_vars(Parent)
WorkerFair(w) == WF_vars(Worker(w))

Spec == Init /\ [][Next]_vars /\ ParentFair /\ \A w \in Workers : WorkerFair(w)

-----------------------------------------------------------------------------
(* Properties. *)

\* The type invariant; what has been forked is a prefix of the workers.
TypeOK ==
    /\ parent \in {"loop", "fork", "forked", "join", "close", "exit", "gone"}
    /\ i \in 1..(N + 1)
    /\ flag \in BOOLEAN /\ struck \in BOOLEAN
    /\ known \subseteq Workers /\ deaf \subseteq Workers
    /\ worker \in [Workers -> {"none", "born", "boot", "serving", "gone"}]
    /\ pending \subseteq Alive
    /\ sigs \in Nat
    /\ parent \in {"loop", "fork", "forked"} =>
         \A w \in Workers : worker[w] = "none" <=> w > i \/ (w = i /\ parent # "forked")
    /\ parent \in {"fork", "forked", "join"} => i \in Workers
    /\ parent = "join" => \A w \in Workers : worker[w] # "none"

\* Workers that no SIGINT is on its way to.
Missed == Alive \ pending

\* A Ctrl+C misses no worker but those it meets before their interpreter has
\* begun, which clear it away, and at most one more: the worker that is forked
\* after the parent's flag was set and before the interpreter looks at it.
\* These go on serving, whatever becomes of the parent.
MissesAtMostOne == struck => \A v, w \in Missed \ deaf : v = w

\* The parent knows all workers that run but at most one, the one whose start
\* was interrupted after the fork: only that one can outlive a parent whose exit
\* is not itself interrupted.
UnknownAtMostOne == \A v, w \in Alive \ known : v = w

\* Without a signal the pool leaves nobody behind, also when a fork fails after
\* others have succeeded.
QuietEnd == parent = "gone" /\ sigs = 0 => Alive = {}

\* Ctrl+C on a pool that has started, down to the last worker's interpreter,
\* ends all of it.
CtrlCEnds ==
    (parent = "join" /\ flag /\ Missed = {} /\ Born = {}) ~> (parent = "gone" /\ Alive = {})
=============================================================================
