------------------------------ MODULE PyPool_proofs ------------------------------
(***************************************************************************)
(* Proofs about PyPool for any number of workers and signals.              *)
(*                                                                         *)
(* A Ctrl+C sets the flags of all workers there are, and the parent's,     *)
(* which keeps the parent from starting another fork; only the fork it is  *)
(* in goes through.  The interrupt leaves the loop for good.  A worker     *)
(* that loses its flag by beginning was new-born at the Ctrl+C.            *)
(***************************************************************************)
EXTENDS PyPool, TLAPS

\* Who may have been missed by a Ctrl+C, by the place of the parent.
Lost == Missed \ deaf

MissedInv ==
    /\ struck /\ parent \in {"loop", "fork", "forked"} => flag
    /\ struck /\ parent \in {"loop", "fork"} => Lost = {} /\ Born \subseteq deaf
    /\ struck /\ parent = "forked" => Lost \subseteq {i} /\ Born \subseteq deaf \cup {i}
    /\ struck => \A v, w \in Lost \cup (Born \ deaf) : v = w

\* Which running workers the parent does not know, by the place of the parent.
KnownInv ==
    /\ parent \in {"loop", "fork", "join"} => Alive \subseteq known
    /\ parent = "forked" => Alive \ known \subseteq {i}
    /\ \A v, w \in Alive \ known : v = w

\* Without a signal there is no interrupt.
QuietInv ==
    sigs = 0 => /\ ~ flag
                /\ parent # "forked" => Alive \subseteq known
                /\ parent = "gone" => Alive = {}

IInv == TypeOK /\ MissedInv /\ KnownInv /\ QuietInv

-----------------------------------------------------------------------------
\* Nobody runs at first.
LEMMA InitHolds == Init => IInv
  <1> SUFFICES ASSUME Init
               PROVE  IInv
    OBVIOUS
  <1>1. Alive = {} /\ Lost = {} /\ Born = {}
    BY DEF Init, Alive, Missed, Lost, Born
  <1>2. TypeOK
    <2>1. \A w \in Workers : w > 1 \/ w = 1
      BY NAssumption DEF Workers
    <2>2. 1 \in 1..(N + 1)
      BY NAssumption
    <2>3. /\ i = 1 /\ parent = "loop" /\ worker \in [Workers -> {"none", "born", "boot", "serving", "gone"}]
          /\ \A w \in Workers : worker[w] = "none"
      BY DEF Init
    <2>4. flag \in BOOLEAN /\ struck \in BOOLEAN /\ known \subseteq Workers /\ pending \subseteq Alive /\ sigs \in Nat
          /\ deaf \subseteq Workers
      BY DEF Init
    <2> QED
      BY <2>1, <2>2, <2>3, <2>4 DEF TypeOK
  <1>3. MissedInv /\ KnownInv /\ QuietInv
    BY <1>1 DEF Init, MissedInv, KnownInv, QuietInv
  <1> QED
    BY <1>2, <1>3 DEF IInv

\* Every step of the parent but the fork leaves the workers and their flags alone.
LEMMA ParentStep ==
  ASSUME IInv, Parent, ~ Fork
  PROVE  IInv'
  <1>1. UNCHANGED <<worker, pending, sigs, struck, deaf>>
    BY DEF Parent, Start, ForkFails, Register, AllForked, Join, Close, Exit, Interrupt, Goto, Move
  <1>2. Alive' = Alive /\ Lost' = Lost /\ Born' = Born
    BY <1>1 DEF Alive, Missed, Lost, Born
  <1>3. N \in Nat /\ i \in 1..(N + 1) /\ known \subseteq Workers
    BY NAssumption DEF IInv, TypeOK
  <1>a. CASE Start
    <2>1. TypeOK'
      BY <1>1, <1>2, <1>3, <1>a DEF Start, Goto, Move, IInv, TypeOK, Workers
    <2> QED
      BY <1>1, <1>2, <1>a, <2>1 DEF Start, Goto, Move, IInv, MissedInv, KnownInv, QuietInv
  <1>b. CASE ForkFails
    <2>1. TypeOK'
      BY <1>1, <1>2, <1>3, <1>b DEF ForkFails, Move, IInv, TypeOK
    <2> QED
      BY <1>1, <1>2, <1>b, <2>1 DEF ForkFails, Move, IInv, MissedInv, KnownInv, QuietInv
  <1>c. CASE Register
    <2>0. i \in Workers
      BY <1>c DEF Register, Goto, Move, IInv, TypeOK
    <2>1. i' \in 1..(N + 1) /\ known' \subseteq Workers
      BY <1>3, <1>c, <2>0 DEF Register, Workers
    <2>2. \A w \in Workers : worker[w] = "none" <=> w > i + 1 \/ w = i + 1
      BY <1>3, <1>c DEF Register, Goto, Move, IInv, TypeOK, Workers
    <2>3. TypeOK'
      BY <1>1, <1>2, <1>c, <2>1, <2>2 DEF Register, Goto, Move, IInv, TypeOK
    <2>4. ~ struck /\ Alive \subseteq known'
      BY <1>c DEF Register, Goto, Move, IInv, MissedInv, KnownInv
    <2> QED
      BY <1>1, <1>2, <1>c, <2>3, <2>4 DEF Register, Goto, Move, IInv, MissedInv, KnownInv, QuietInv
  <1>d. CASE AllForked
    <2>1. i' \in 1..(N + 1) /\ i' \in Workers /\ \A w \in Workers : worker[w] # "none"
      BY <1>3, <1>d, NAssumption DEF AllForked, Goto, Move, IInv, TypeOK, Workers
    <2>2. TypeOK'
      BY <1>1, <1>2, <1>d, <2>1 DEF AllForked, Goto, Move, IInv, TypeOK
    <2> QED
      BY <1>1, <1>2, <1>d, <2>2 DEF AllForked, Goto, Move, IInv, MissedInv, KnownInv, QuietInv
  <1>e. CASE Join
    <2>1. /\ parent = "join" /\ parent' \in {"join", "close"} /\ UNCHANGED <<flag, known>>
          /\ parent' = "join" => i < N /\ i' = i + 1
          /\ (i' = i + 1 /\ i < N) \/ i' = i
      BY <1>e DEF Join, Goto, Move
    <2>2. i' \in 1..(N + 1) /\ (parent' = "join" => i' \in Workers)
      BY <1>3, <2>1 DEF Workers
    <2>3. TypeOK'
      BY <1>1, <1>2, <2>1, <2>2 DEF IInv, TypeOK
    <2> QED
      BY <1>1, <1>2, <2>1, <2>3 DEF IInv, MissedInv, KnownInv, QuietInv
  <1>f. CASE Close
    <2>1. TypeOK'
      BY <1>1, <1>2, <1>3, <1>f DEF Close, Goto, Move, IInv, TypeOK
    <2> QED
      BY <1>1, <1>2, <1>f, <2>1 DEF Close, Goto, Move, IInv, MissedInv, KnownInv, QuietInv
  <1>g. CASE Exit
    <2>1. TypeOK'
      BY <1>1, <1>2, <1>3, <1>g DEF Exit, Goto, Move, IInv, TypeOK
    <2>2. sigs = 0 => Alive = {}
      BY <1>g DEF Exit, Goto, Move, IInv, QuietInv
    <2> QED
      BY <1>1, <1>2, <1>g, <2>1, <2>2 DEF Exit, Goto, Move, IInv, MissedInv, KnownInv, QuietInv
  <1>h. CASE Interrupt
    <2>1. /\ parent' \in {"close", "exit", "gone"} /\ flag /\ flag' = FALSE
          /\ UNCHANGED <<i, known>>
      BY <1>h DEF Interrupt, Move
    <2>2. TypeOK'
      BY <1>1, <1>2, <2>1 DEF IInv, TypeOK
    <2> QED
      BY <1>1, <1>2, <2>1, <2>2 DEF IInv, MissedInv, KnownInv, QuietInv
  <1> QED
    BY <1>a, <1>b, <1>c, <1>d, <1>e, <1>f, <1>g, <1>h DEF Parent

\* The forked worker is the only new one, and nobody has sent it a signal.
LEMMA ForkStep ==
  ASSUME IInv, Fork
  PROVE  IInv'
  <1>1. /\ parent = "fork" /\ parent' = "forked" /\ worker' = [worker EXCEPT ![i] = "born"]
        /\ UNCHANGED <<i, flag, known, pending, sigs, struck, deaf>>
    BY DEF Fork
  <1>2. N \in Nat /\ i \in 1..(N + 1)
    BY NAssumption DEF IInv, TypeOK
  <1>3. Alive' \subseteq Alive \cup {i} /\ Alive \subseteq Alive'
    BY <1>1 DEF Alive, IInv, TypeOK
  <1>4. Lost' \subseteq Lost \cup {i} /\ Born' \subseteq Born \cup {i}
    <2>1. Born' \subseteq Born \cup {i}
      BY <1>1 DEF Born, IInv, TypeOK
    <2> QED
      BY <1>1, <1>3, <2>1 DEF Missed, Lost
  <1>5. TypeOK'
    <2>1. worker' \in [Workers -> {"none", "born", "boot", "serving", "gone"}]
      BY <1>1 DEF IInv, TypeOK
    <2>2. \A w \in Workers : worker'[w] = "none" <=> w > i
      BY <1>1, <1>2 DEF IInv, TypeOK, Workers
    <2>3. \A w \in Workers : w > i \/ (w = i /\ "forked" # "forked") <=> w > i
      OBVIOUS
    <2> QED
      BY <1>1, <1>3, <2>1, <2>2 DEF IInv, TypeOK
  <1>6. MissedInv'
    BY <1>1, <1>4 DEF IInv, MissedInv
  <1>7. KnownInv' /\ QuietInv'
    BY <1>1, <1>3 DEF IInv, KnownInv, QuietInv
  <1> QED
    BY <1>5, <1>6, <1>7 DEF IInv

\* A worker only goes on or ends.  It loses its flag when it ends, and when it
\* begins.
LEMMA WorkerStep ==
  ASSUME IInv, NEW w \in Workers, Worker(w)
  PROVE  IInv'
  <1>1. /\ UNCHANGED <<parent, i, flag, known, sigs, struck, deaf>>
        /\ \E to \in {"boot", "serving", "gone"} : worker' = [worker EXCEPT ![w] = to]
        /\ worker[w] \in {"born", "boot", "serving"}
        /\ \/ pending' = pending /\ worker'[w] = "serving"
           \/ pending' = pending \ {w} /\ worker'[w] = "gone"
           \/ pending' = pending \ {w} /\ worker'[w] = "boot" /\ worker[w] = "born"
    BY DEF Worker, Begins, Serve, BootFails, InterruptBoot, InterruptServe, Step, IInv, TypeOK
  <1>2. Alive' \subseteq Alive /\ Alive \ {w} \subseteq Alive' /\ (worker'[w] # "gone" => Alive' = Alive)
    BY <1>1 DEF Alive, IInv, TypeOK
  <1>3. /\ worker'[w] = "gone" => w \notin Alive'
        /\ Born' \subseteq Born \ {w}
    BY <1>1 DEF Alive, Born, IInv, TypeOK
  <1>4. Lost' \subseteq Lost \cup (Born \ deaf)
    <2>1. CASE worker[w] = "born"
      <3>1. w \in Born
        BY <2>1 DEF Born
      <3> QED
        BY <1>1, <1>2, <3>1 DEF Missed, Lost
    <2>2. CASE worker[w] # "born"
      BY <1>1, <1>2, <1>3, <2>2 DEF Missed, Lost
    <2> QED
      BY <2>1, <2>2
  <1>5. TypeOK'
    <2>1. worker' \in [Workers -> {"none", "born", "boot", "serving", "gone"}]
      BY <1>1 DEF IInv, TypeOK
    <2>2. pending' \subseteq Alive'
      BY <1>1, <1>2 DEF IInv, TypeOK
    <2>3. \A v \in Workers : worker'[v] = "none" <=> worker[v] = "none"
      BY <1>1 DEF IInv, TypeOK
    <2> QED
      BY <1>1, <2>1, <2>2, <2>3 DEF IInv, TypeOK
  <1>6. MissedInv'
    BY <1>1, <1>3, <1>4 DEF IInv, MissedInv
  <1>7. KnownInv' /\ QuietInv'
    BY <1>1, <1>2 DEF IInv, KnownInv, QuietInv
  <1> QED
    BY <1>5, <1>6, <1>7 DEF IInv

\* A signal only sets flags; one to the group sets all of them.
LEMMA SignalStep ==
  ASSUME IInv, CtrlC \/ KillParent \/ \E w \in Workers : KillWorker(w)
  PROVE  IInv'
  <1>1. UNCHANGED <<parent, i, known, worker>> /\ sigs' = sigs + 1
    BY DEF CtrlC, KillParent, KillWorker, Signal
  <1>2. Alive' = Alive /\ Born' = Born /\ Born \subseteq Alive /\ Alive \subseteq Workers
    BY <1>1 DEF Alive, Born
  <1>3. /\ flag' \in BOOLEAN /\ (flag => flag') /\ struck' \in BOOLEAN
        /\ pending \subseteq pending' /\ pending' \subseteq Alive
        /\ deaf \subseteq deaf' /\ deaf' \subseteq Workers
    BY <1>2 DEF CtrlC, KillParent, KillWorker, Signal, IInv, TypeOK
  <1>4. struck' = struck \/ (flag' = TRUE /\ Alive \subseteq pending' /\ Born \subseteq deaf')
    BY DEF CtrlC, KillParent, KillWorker
  <1>5. Lost' \subseteq Lost /\ (Alive \subseteq pending' => Lost' = {})
    BY <1>2, <1>3 DEF Missed, Lost
  <1>6. sigs' \in Nat /\ sigs' # 0
    BY <1>1 DEF IInv, TypeOK
  <1>7. TypeOK'
    BY <1>1, <1>2, <1>3, <1>6 DEF IInv, TypeOK
  <1>8. MissedInv'
    BY <1>1, <1>2, <1>3, <1>4, <1>5 DEF IInv, MissedInv
  <1>9. KnownInv' /\ QuietInv'
    BY <1>1, <1>2, <1>6 DEF IInv, KnownInv, QuietInv
  <1> QED
    BY <1>7, <1>8, <1>9 DEF IInv

-----------------------------------------------------------------------------
\* Everything the other theorems rest on.
THEOREM IInvHolds == Spec => []IInv
  <1>1. IInv /\ [Next]_vars => IInv'
    <2> SUFFICES ASSUME IInv, [Next]_vars
                 PROVE  IInv'
      OBVIOUS
    <2>1. CASE UNCHANGED vars
      BY <2>1 DEF vars, IInv, TypeOK, MissedInv, KnownInv, QuietInv, Missed, Lost, Born, Alive
    <2>2. CASE Parent
      BY <2>2, ParentStep, ForkStep
    <2>3. CASE \E w \in Workers : Worker(w)
      BY <2>3, WorkerStep
    <2>4. CASE CtrlC \/ KillParent \/ \E w \in Workers : KillWorker(w)
      BY <2>4, SignalStep
    <2> QED
      BY <2>1, <2>2, <2>3, <2>4 DEF Next
  <1> QED
    BY InitHolds, <1>1, PTL DEF Spec

\* The type invariant of PyPool, with what has been forked at each place.
THEOREM TypeCorrect == Spec => []TypeOK
  BY IInvHolds, PTL DEF IInv

\* However many workers there are and whenever it comes, a Ctrl+C misses at
\* most one of those whose interpreter had begun.
THEOREM CtrlCMissesAtMostOne == Spec => []MissesAtMostOne
  <1>1. IInv => MissesAtMostOne
    BY DEF IInv, MissedInv, MissesAtMostOne, Lost
  <1> QED
    BY IInvHolds, <1>1, PTL

\* The exit of the parent joins every running worker but at most one.
THEOREM ExitKnowsTheRest == Spec => []UnknownAtMostOne
  <1>1. IInv => UnknownAtMostOne
    BY DEF IInv, KnownInv, UnknownAtMostOne
  <1> QED
    BY IInvHolds, <1>1, PTL

\* A pool that nobody signals leaves no worker behind.
THEOREM QuietEndIsClean == Spec => []QuietEnd
  <1>1. IInv => QuietEnd
    BY DEF IInv, QuietInv, QuietEnd
  <1> QED
    BY IInvHolds, <1>1, PTL

-----------------------------------------------------------------------------
\* Liveness.  The provers know nothing of ENABLED, so the theorems take as
\* hypothesis what TLC finds in every state of the run: a worker with a signal
\* on its way can step, and so can a parent that a signal wakes or that has
\* nobody left to join.
WorkerCanStep(w) == w \in pending => ENABLED <<Worker(w)>>_vars

ParentCanStep ==
    \/ parent = "join" /\ flag
    \/ parent = "close"
    \/ parent = "exit" /\ Alive = {}
    => ENABLED <<Parent>>_vars

PoolCanStep == ParentCanStep /\ \A w \in Workers : WorkerCanStep(w)

Forking == {"loop", "fork", "forked"}

\* Only its own steps, and the fork that makes it, move a worker, and no step
\* but the one that ends it takes a signal from it.
LEMMA WorkerLeftAlone ==
  ASSUME IInv, [Next]_vars, NEW w \in Workers
  PROVE  \/ Worker(w)
         \/ worker'[w] = worker[w] /\ (w \in pending => w \in pending')
         \/ parent \in Forking /\ worker[w] = "none"
  <1>1. CASE Fork
    <2>1. worker' = [worker EXCEPT ![i] = "born"] /\ pending' = pending
      BY <1>1 DEF Fork
    <2>2. w = i => worker[w] = "none"
      BY <1>1 DEF Fork, IInv, TypeOK
    <2> QED
      BY <1>1, <2>1, <2>2 DEF Fork, Forking, IInv, TypeOK
  <1>2. CASE Parent /\ ~ Fork
    BY <1>2 DEF Parent, Start, ForkFails, Register, AllForked, Join, Close, Exit, Interrupt, Goto, Move
  <1>3. CASE CtrlC \/ KillParent \/ \E v \in Workers : KillWorker(v)
    BY <1>3 DEF CtrlC, KillParent, KillWorker, Signal
  <1>4. ASSUME NEW v \in Workers, v # w, Worker(v)
        PROVE  worker'[w] = worker[w] /\ (w \in pending => w \in pending')
    BY <1>4 DEF Worker, Begins, Serve, BootFails, InterruptBoot, InterruptServe, Step, IInv, TypeOK
  <1>5. CASE UNCHANGED vars
    BY <1>5 DEF vars
  <1> QED
    BY <1>1, <1>2, <1>3, <1>4, <1>5 DEF Next

\* What a worker's step does.
LEMMA WorkerGoesOn ==
  ASSUME IInv, NEW w \in Workers, Worker(w)
  PROVE  /\ worker[w] \in {"born", "boot", "serving"} /\ worker'[w] \in {"boot", "serving", "gone"}
         /\ worker'[w] = "boot" => worker[w] = "born"
         /\ worker'[w] = "serving" => worker[w] = "boot" /\ pending' = pending
  BY DEF Worker, Begins, Serve, BootFails, InterruptBoot, InterruptServe, Step, IInv, TypeOK

\* Nobody is forked once the loop is left: the pool only shrinks.
THEOREM PoolOnlyShrinks ==
    Spec => [][parent \notin Forking => parent' \notin Forking /\ Alive' \subseteq Alive]_vars
  <1>1. IInv /\ [Next]_vars => (parent \notin Forking => parent' \notin Forking)
    BY DEF Next, vars, Forking, Parent, Start, Fork, ForkFails, Register, AllForked, Join, Close,
           Exit, Interrupt, Goto, Move, CtrlC, KillParent, KillWorker, Signal, Worker, Begins, Serve,
           BootFails, InterruptBoot, InterruptServe, Step
  <1>2. IInv /\ [Next]_vars => (parent \notin Forking => Alive' \subseteq Alive)
    BY WorkerLeftAlone, WorkerGoesOn DEF Alive
  <1> QED
    BY <1>1, <1>2, IInvHolds, PTL DEF Spec

\* Every worker that a SIGINT reaches once its interpreter has begun ends, in
\* its boot or in its sleep, whatever the others do.
SignalledEnds(w) == (w \in pending \ Born) ~> worker[w] = "gone"

THEOREM SignalledWorkersEnd ==
    ASSUME NEW w \in Workers
    PROVE  Spec /\ []PoolCanStep => SignalledEnds(w)
  <1> DEFINE In(p) == w \in pending /\ worker[w] = p
             Gone  == worker[w] = "gone"
  <1>1. IInv /\ w \in pending \ Born => In("boot") \/ In("serving")
    BY DEF IInv, TypeOK, Alive, Born
  <1>2. IInv /\ In("boot") /\ [Next]_vars => In("boot")' \/ In("serving")' \/ Gone'
    BY WorkerLeftAlone, WorkerGoesOn
  <1>3. IInv /\ In("boot") /\ <<Worker(w)>>_vars => In("serving")' \/ Gone'
    BY WorkerGoesOn
  <1>4. IInv /\ In("serving") /\ [Next]_vars => In("serving")' \/ Gone'
    BY WorkerLeftAlone, WorkerGoesOn
  <1>5. IInv /\ In("serving") /\ <<Worker(w)>>_vars => Gone'
    BY WorkerGoesOn
  <1>6. PoolCanStep /\ (In("boot") \/ In("serving")) => ENABLED <<Worker(w)>>_vars
    BY DEF PoolCanStep, WorkerCanStep
  <1>7. Spec => WorkerFair(w)
    BY DEF Spec
  <1> HIDE DEF In, Gone
  <1>8. Spec /\ []PoolCanStep => ((w \in pending \ Born) ~> Gone)
    BY <1>1, <1>2, <1>3, <1>4, <1>5, <1>6, <1>7, IInvHolds, PTL DEF Spec, WorkerFair
  <1> QED
    BY <1>8 DEF Gone, SignalledEnds

\* A worker that has ended stays so.
LEMMA GoneStays == IInv /\ [Next]_vars => \A w \in Workers : worker[w] = "gone" => worker'[w] = "gone"
  BY WorkerLeftAlone, WorkerGoesOn

\* Where the parent goes once a signal has taken it from its join.
LEMMA ParentGoesOn ==
  ASSUME IInv, [Next]_vars
  PROVE  /\ parent = "join" /\ flag => (parent = "join" /\ flag)' \/ parent' = "close"
         /\ parent = "close" => parent' \in {"close", "exit"}
         /\ parent = "exit" => parent' \in {"exit", "gone"}
         /\ parent = "gone" => parent' = "gone"
         /\ Parent => /\ parent = "join" /\ flag => parent' = "close"
                      /\ parent = "close" => parent' = "exit"
                      /\ parent = "exit" => parent' = "gone"
  BY DEF Next, vars, Parent, Start, Fork, ForkFails, Register, AllForked, Join, Close,
         Exit, Interrupt, Goto, Move, CtrlC, KillParent, KillWorker, Signal, Worker, Begins, Serve,
         BootFails, InterruptBoot, InterruptServe, Step, IInv, TypeOK

\* A Ctrl+C that reaches every worker of a pool that has started.
Hit == parent = "join" /\ flag /\ Missed = {} /\ Born = {}

LEMMA ParentEnds == Spec /\ []PoolCanStep /\ <>[](Alive = {}) => (Hit ~> parent = "gone" /\ Alive = {})
  <1> DEFINE Woken == parent = "join" /\ flag
             Empty == Alive = {}
  <1>1. Hit => Woken
    BY DEF Hit
  <1>2. IInv /\ [Next]_vars => /\ Woken => Woken' \/ (parent = "close")'
                               /\ parent = "close" => (parent = "close")' \/ (parent = "exit")'
                               /\ parent = "exit" => (parent = "exit")' \/ (parent = "gone")'
                               /\ parent = "gone" => (parent = "gone")'
    BY ParentGoesOn
  <1>3. IInv /\ [Next]_vars /\ <<Parent>>_vars =>
          /\ Woken => (parent = "close")'
          /\ parent = "close" => (parent = "exit")'
          /\ parent = "exit" => (parent = "gone")'
    BY ParentGoesOn
  <1>4. PoolCanStep /\ (Woken \/ parent = "close" \/ (parent = "exit" /\ Empty)) =>
          ENABLED <<Parent>>_vars
    BY DEF PoolCanStep, ParentCanStep
  <1>5. ~ (Woken /\ parent = "close") /\ ~ (parent = "close" /\ parent = "exit")
        /\ ~ (parent = "exit" /\ parent = "gone") /\ ~ (Woken /\ parent = "exit")
    OBVIOUS
  <1> HIDE DEF Woken
  <1> QED
    BY <1>1, <1>2, <1>3, <1>4, <1>5, IInvHolds, PTL DEF Spec, ParentFair

\* CtrlCEnds for every number of workers and signals: there is no set of workers
\* at which a pool that Ctrl+C has hit comes to rest but the empty one, and then
\* the parent ends too; PoolOnlyShrinks has it come to rest.
THEOREM CtrlCLeavesNobody ==
    ASSUME NEW S
    PROVE  Spec /\ []PoolCanStep /\ <>[](Alive = S) => CtrlCEnds
  <1>1. CASE S = {}
    <2>1. Alive = S <=> Alive = {}
      BY <1>1
    <2>2. parent = "join" /\ flag /\ Missed = {} /\ Born = {} => Hit
      BY DEF Hit
    <2> QED
      BY <2>1, <2>2, ParentEnds, PTL DEF CtrlCEnds
  <1>2. CASE S # {}
    <2>1. PICK w \in S : TRUE
      BY <1>2
    <2> DEFINE Rests == Alive = S
               Gone  == worker[w] = "gone"
    <2>2. CASE w \in Workers
      <3>1. IInv /\ Hit => w \in pending \ Born \/ Gone
        BY <2>2 DEF IInv, TypeOK, Hit, Missed, Alive, Born
      <3>2. IInv /\ Gone /\ [Next]_vars => Gone'
        BY <2>2, GoneStays
      <3>3. Gone => ~ Rests
        BY <2>1 DEF Alive
      <3>4. Spec /\ []PoolCanStep => ((w \in pending \ Born) ~> Gone)
        BY <2>2, SignalledWorkersEnd DEF SignalledEnds
      <3>5. parent = "join" /\ flag /\ Missed = {} /\ Born = {} => Hit
        BY DEF Hit
      <3> HIDE DEF Rests, Gone
      <3>6. Spec /\ []PoolCanStep /\ <>[]Rests => CtrlCEnds
        BY <3>1, <3>2, <3>3, <3>4, <3>5, IInvHolds, PTL DEF Spec, CtrlCEnds
      <3> QED
        BY <3>6 DEF Rests
    <2>3. CASE w \notin Workers
      <3>1. ~ Rests
        BY <2>1, <2>3 DEF Alive
      <3> QED
        BY <3>1, PTL
    <2> QED
      BY <2>2, <2>3
  <1> QED
    BY <1>1, <1>2
=============================================================================
