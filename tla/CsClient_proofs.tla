---------------------------- MODULE CsClient_proofs ----------------------------
(* What CsDemo.CsClient promises for every number of pictures, every length   *)
(* of the answers and every number of restarts.                               *)
EXTENDS CsClient, TLAPS

Save_ == [run : 1..MaxRuns, kind : Kinds, picture : Pictures]

(* What a process has written is remembered in its flags, and a drawing is    *)
(* only asked for while its flag is down.                                     *)
Remembered ==
    /\ pc # "off" => runs > 0
    /\ \A i \in DOMAIN saves :
         /\ saves[i].run <= runs
         /\ pc # "off" /\ saves[i].run = runs => once[saves[i].kind]
    /\ pc \in Kinds /\ call # "none" => ~once[pc]

(* The calls sent since the stop began are behind the loop in this round.     *)
InFlight == IF call = "none" THEN 0 ELSE 1

Late ==
    /\ pc # "off" /\ host # "stopping" => late = 0
    /\ pc = "delay1" => late = 0
    /\ pc = "greet" => late <= InFlight
    /\ pc = "book" => late <= 1 + InFlight
    /\ pc = "skia" => late <= 2 + InFlight
    /\ pc = "sharp" => late <= 3 + InFlight
    /\ late <= 4

IInv == TypeOK /\ Remembered /\ SavedOncePerRun /\ ShutChannelIsQuiet

AllInv == IInv /\ Late

(* The initial states satisfy the inductive invariant. *)
LEMMA InitIInv == Init => IInv
  <1> SUFFICES ASSUME Init PROVE IInv
    OBVIOUS
  <1>1. saves = <<>> /\ saves \in Seq(Save_)
    BY DEF Init
  <1>2. files \in [Kinds -> Seq(Pictures)]
    <2>1. <<>> \in Seq(Pictures)
      OBVIOUS
    <2> QED
      BY <2>1 DEF Init
  <1>3. runs \in 0..MaxRuns
    BY RunsAssumption DEF Init
  <1>t. refused \in BOOLEAN
    BY DEF Init
  <1>4. TypeOK
    <2>1. /\ pc = "off" /\ call = "none"
          /\ once = [k \in Kinds |-> FALSE]
          /\ host = "stopped" /\ channel = "open"
          /\ server \in {"up", "down"} /\ late = 0
      BY DEF Init
    <2> QED
      BY <1>1, <1>2, <1>3, <1>t, <2>1 DEF TypeOK, Save_, MostLate
  <1>5. DOMAIN saves = {}
    BY <1>1
  <1> QED
    BY <1>4, <1>5 DEF Init, IInv, Remembered, SavedOncePerRun, ShutChannelIsQuiet

(* A file that is written over stays a sequence of pictures' blocks. *)
LEMMA OverwriteType ==
    ASSUME NEW file \in Seq(Pictures), NEW p \in Pictures, NEW n \in Nat
    PROVE  Overwrite(file, p, n) \in Seq(Pictures)
  <1> DEFINE m == IF n > Len(file) THEN n ELSE Len(file)
             new == [b \in 1..m |-> IF b <= n THEN p ELSE file[b]]
  <1>1. m \in Nat
    OBVIOUS
  <1>2. \A b \in 1..m : (IF b <= n THEN p ELSE file[b]) \in Pictures
    OBVIOUS
  <1>3. new \in [1..m -> Pictures]
    BY <1>2
  <1>4. new \in Seq(Pictures)
    BY <1>1, <1>3
  <1> QED
    BY <1>4 DEF Overwrite

-----------------------------------------------------------------------------
(* Steps that write nothing: the flags and the history are left alone, and a  *)
(* call in flight stays the call it was or is over.                           *)
Quiet ==
    /\ UNCHANGED <<once, runs, saves>>
    /\ pc' # "off" => pc # "off"
    /\ pc' \in Kinds /\ call' # "none" => (pc = pc' /\ call # "none") \/ ~once[pc']

LEMMA QuietStep ==
    ASSUME IInv, Quiet
    PROVE  Remembered' /\ SavedOncePerRun'
  BY DEF IInv, Quiet, Remembered, SavedOncePerRun

(* A step of the loop from one place to another. *)
LEMMA GotoStep ==
    ASSUME IInv, NEW from, NEW to \in Calling \cup {"loop", "delay1", "delay10", "closing"},
           from \notin {"off", "ended"}, Goto(from, to),
           to \in Kinds => call = "none", to \notin Calling => call = "none"
    PROVE  IInv'
  <1>1. TypeOK'
    BY DEF IInv, TypeOK, Goto, process
  <1>2. Quiet
    BY DEF Goto, process, Quiet
  <1>3. ShutChannelIsQuiet'
    BY DEF IInv, ShutChannelIsQuiet, Goto, process
  <1> QED
    BY <1>1, <1>2, <1>3, QuietStep DEF IInv

(* Every step of the loop but the two that draw keeps the invariant. *)
LEMMA LoopSteps ==
    ASSUME IInv,
           LoopTest \/ Delay1 \/ Delay10 \/ SkipDrawn
    PROVE  IInv'
  <1>0. call # "none" => pc \in Calling
    BY DEF IInv, TypeOK
  <1>1. ASSUME LoopTest PROVE IInv'
    <2>1. Goto("loop", "delay1") \/ Goto("loop", "closing")
      BY <1>1 DEF LoopTest
    <2>2. pc = "loop"
      BY <2>1 DEF Goto
    <2> QED
      BY <1>0, <2>1, <2>2, GotoStep DEF Calling
  <1>2. ASSUME Delay1 PROVE IInv'
    BY <1>2, GotoStep DEF Delay1, Calling, Kinds
  <1>3. ASSUME Delay10 PROVE IInv'
    <2>1. pc = "delay10" /\ Goto("delay10", "loop")
      BY <1>3 DEF Delay10, Goto
    <2> QED
      BY <1>0, <2>1, GotoStep DEF Calling, Kinds
  <1>4. ASSUME SkipDrawn PROVE IInv'
    <2>1. \/ once["skia"] /\ pc = "skia" /\ Goto("skia", "sharp")
          \/ once["sharp"] /\ pc = "sharp" /\ Goto("sharp", "delay10")
      BY <1>4 DEF SkipDrawn, Goto
    <2>2. call = "none"
      BY <2>1 DEF IInv, Remembered, Kinds, TypeOK
    <2> QED
      BY <2>1, <2>2, GotoStep DEF Calling, Kinds
  <1> QED
    BY <1>1, <1>2, <1>3, <1>4

(* The steps of a call that write nothing keep the invariant. *)
LEMMA CallSteps ==
    ASSUME IInv,
           \/ CloseChannel \/ Send \/ Unreachable \/ GreeterReply \/ BookReply
           \/ DrawingThrows \/ Accept
    PROVE  IInv'
  <1>1. TypeOK'
    BY DEF IInv, TypeOK, CloseChannel, Send, Unreachable, GreeterReply, BookReply,
           DrawingThrows, Accept, process, Calling, Kinds, MostLate
  <1>2. Quiet
    <2>1. CASE CloseChannel \/ Unreachable \/ GreeterReply \/ BookReply \/ DrawingThrows
      BY <2>1 DEF CloseChannel, Unreachable, GreeterReply, BookReply, DrawingThrows, process, Quiet, Kinds,
                   IInv, TypeOK, Calling
    <2>2. CASE Send
      BY <2>2 DEF Send, process, Quiet
    <2>3. CASE Accept
      BY <2>3 DEF Accept, process, Quiet
    <2> QED
      BY <2>1, <2>2, <2>3
  <1>3. ShutChannelIsQuiet'
    BY DEF IInv, TypeOK, ShutChannelIsQuiet, CloseChannel, Send, Unreachable, GreeterReply,
           BookReply, DrawingThrows, Accept, process, Calling, Kinds
  <1> QED
    BY <1>1, <1>2, <1>3, QuietStep DEF IInv

(* The steps of the server and of the host keep the invariant. *)
LEMMA OtherSteps ==
    ASSUME IInv,
           \/ Kill \/ CtrlC \/ FaultStops \/ Exit \/ ExitTimeout
           \/ ServerStart \/ ServerStop \/ ServerDrained \/ ServerKill
    PROVE  IInv'
  <1>1. TypeOK'
    BY DEF IInv, TypeOK, Kill, CtrlC, FaultStops, Exit, ExitTimeout, Gone, ServerStart,
           ServerStop, ServerDrained, ServerKill, process
  <1>2. Quiet
    BY DEF Kill, CtrlC, FaultStops, Exit, ExitTimeout, Gone, ServerStart,
           ServerStop, ServerDrained, ServerKill, process, Quiet, Kinds, IInv, TypeOK, Calling
  <1>3. ShutChannelIsQuiet'
    <2>0. ShutChannelIsQuiet
      BY DEF IInv
    <2>1. CASE Kill \/ Exit \/ ExitTimeout
      BY <2>1 DEF Kill, Exit, ExitTimeout, Gone, ShutChannelIsQuiet
    <2>2. CASE CtrlC \/ FaultStops \/ ServerStart \/ ServerStop \/ ServerDrained
      BY <2>0, <2>2 DEF CtrlC, FaultStops, ServerStart, ServerStop, ServerDrained, process,
                        ShutChannelIsQuiet
    <2>3. CASE ServerKill
      BY <2>0, <2>3 DEF ServerKill, process, ShutChannelIsQuiet, IInv, TypeOK, Calling, Kinds
    <2> QED
      BY <2>1, <2>2, <2>3
  <1> QED
    BY <1>1, <1>2, <1>3, QuietStep DEF IInv

(* A new process has written nothing yet. *)
LEMMA StartStep ==
    ASSUME IInv, Start
    PROVE  IInv'
  <1>0. runs \in Nat /\ runs' = runs + 1 /\ UNCHANGED saves
    BY RunsAssumption DEF IInv, TypeOK, Start
  <1>1. TypeOK'
    <2>1. runs' \in 0..MaxRuns
      BY <1>0, RunsAssumption DEF IInv, TypeOK, Start
    <2>2. refused' \in BOOLEAN
      BY DEF Start
    <2>3. /\ pc' = "loop" /\ call' = "none"
          /\ once' = [k \in Kinds |-> FALSE]
          /\ host' = "running" /\ channel' = "open" /\ late' = 0
          /\ UNCHANGED <<server, files, saves>>
      BY DEF Start
    <2> QED
      BY <2>1, <2>2, <2>3 DEF IInv, TypeOK, Calling, Kinds, MostLate
  <1>2. Remembered'
    <2>1. ASSUME NEW i \in DOMAIN saves
          PROVE  saves[i].run \in Nat /\ saves[i].run <= runs
      <3>1. saves[i] \in Save_
        <4>1. saves \in Seq(Save_)
          BY DEF IInv, TypeOK, Save_
        <4> QED
          BY <4>1
      <3> QED
        BY <3>1, RunsAssumption DEF IInv, Remembered, Save_
    <2>2. \A i \in DOMAIN saves : saves[i].run <= runs' /\ saves[i].run # runs'
      BY <1>0, <2>1
    <2> QED
      BY <1>0, <2>2 DEF Remembered, Start, Kinds
  <1>3. SavedOncePerRun' /\ ShutChannelIsQuiet'
    BY DEF IInv, Start, SavedOncePerRun, ShutChannelIsQuiet
  <1> QED
    BY <1>1, <1>2, <1>3 DEF IInv

(* A drawing whose answer is saved: it is the first of its kind in this run. *)
LEMMA SaveStep ==
    ASSUME IInv, NEW kind \in Kinds, NEW next \in {"sharp", "delay10"}, next # kind,
           NEW p \in Pictures, Drawn(kind, next), Save(kind, p)
    PROVE  IInv'
  <1> DEFINE s == [run |-> runs, kind |-> kind, picture |-> p]
  <1>1. /\ pc = kind /\ call = "accepted" /\ ~once[kind]
        /\ once' = [once EXCEPT ![kind] = TRUE] /\ once \in [Kinds -> BOOLEAN]
    BY DEF Drawn, IInv, TypeOK, Remembered
  <1>2. runs \in 1..MaxRuns /\ runs \in Nat
    BY <1>1, RunsAssumption DEF IInv, TypeOK, Remembered, Kinds
  <1>3. saves \in Seq(Save_) /\ s \in Save_ /\ saves' = Append(saves, s)
    BY <1>2 DEF IInv, TypeOK, Save_, Save
  <1>4. /\ saves' \in Seq(Save_) /\ Len(saves) \in Nat
        /\ DOMAIN saves = 1..Len(saves) /\ DOMAIN saves' = 1..(Len(saves) + 1)
        /\ saves'[Len(saves) + 1] = s
        /\ \A i \in DOMAIN saves : saves'[i] = saves[i]
    BY <1>3
  <1>5. \A i \in DOMAIN saves : saves[i].run = runs => saves[i].kind # kind
    BY <1>1 DEF IInv, Remembered, Kinds
  <1>6. files' \in [Kinds -> Seq(Pictures)]
    <2>1. Blocks[kind][p] \in Nat /\ files[kind] \in Seq(Pictures)
      BY BlocksAssumption DEF IInv, TypeOK
    <2>2. Overwrite(files[kind], p, Blocks[kind][p]) \in Seq(Pictures)
      BY <2>1, OverwriteType
    <2> QED
      BY <2>2 DEF Save, IInv, TypeOK
  <1>7. TypeOK'
    BY <1>1, <1>4, <1>6 DEF IInv, TypeOK, Drawn, Save, Calling, Kinds, Save_
  <1>8. Remembered'
    <2>1. runs' = runs /\ pc' # "off" /\ call' = "none"
      BY DEF Drawn
    <2>2. ASSUME NEW i \in DOMAIN saves'
          PROVE  saves'[i].run <= runs /\ (saves'[i].run = runs => once'[saves'[i].kind])
      <3>1. CASE i = Len(saves) + 1
        BY <1>1, <1>2, <1>4, <3>1
      <3>2. CASE i \in DOMAIN saves
        <4>1. saves[i] \in Save_
          BY <1>3, <3>2
        <4>2. saves[i].kind \in Kinds
          BY <4>1 DEF Save_
        <4>3. saves[i].run <= runs /\ (saves[i].run = runs => once[saves[i].kind])
          BY <1>1, <3>2 DEF IInv, Remembered, Kinds
        <4> QED
          BY <1>1, <1>4, <3>2, <4>2, <4>3
      <3> QED
        BY <1>4, <3>1, <3>2
    <2> QED
      BY <1>2, <2>1, <2>2 DEF Remembered
  <1>9. SavedOncePerRun'
    <2> SUFFICES ASSUME NEW i \in DOMAIN saves', NEW j \in DOMAIN saves', i # j,
                        saves'[i].run = saves'[j].run, saves'[i].kind = saves'[j].kind
                 PROVE  FALSE
      BY DEF SavedOncePerRun
    <2>1. CASE i \in DOMAIN saves /\ j \in DOMAIN saves
      BY <1>4, <2>1 DEF IInv, SavedOncePerRun
    <2>2. CASE i = Len(saves) + 1
      <3>1. j \in DOMAIN saves
        BY <1>4, <2>2
      <3> QED
        BY <1>4, <1>5, <2>2, <3>1
    <2>3. CASE j = Len(saves) + 1
      <3>1. i \in DOMAIN saves
        BY <1>4, <2>3
      <3> QED
        BY <1>4, <1>5, <2>3, <3>1
    <2> QED
      BY <1>4, <2>1, <2>2, <2>3
  <1>10. ShutChannelIsQuiet'
    BY <1>1 DEF Drawn, IInv, ShutChannelIsQuiet, Kinds
  <1> QED
    BY <1>7, <1>8, <1>9, <1>10 DEF IInv

(* A drawing that ImageSharp could not do sets its flag and writes nothing. *)
LEMMA FailedDrawStep ==
    ASSUME IInv, Drawn("sharp", "delay10"), refused' = TRUE, UNCHANGED <<files, saves>>
    PROVE  IInv'
  <1>1. TypeOK' /\ ShutChannelIsQuiet'
    BY DEF IInv, TypeOK, Drawn, Calling, Kinds, ShutChannelIsQuiet
  <1>2. \A i \in DOMAIN saves : saves[i].kind \in Kinds
    <2>1. \A i \in DOMAIN saves : saves[i] \in Save_
      <3>1. saves \in Seq(Save_)
        BY DEF IInv, TypeOK, Save_
      <3> QED
        BY <3>1
    <2> QED
      BY <2>1 DEF Save_
  <1>3. Remembered' /\ SavedOncePerRun'
    BY <1>2 DEF IInv, TypeOK, Remembered, SavedOncePerRun, Drawn, Kinds
  <1> QED
    BY <1>1, <1>3 DEF IInv

(* The invariant is inductive. *)
LEMMA NextIInv == IInv /\ [Next]_vars => IInv'
  <1> SUFFICES ASSUME IInv, [Next]_vars PROVE IInv'
    OBVIOUS
  <1>1. ASSUME DoSkia PROVE IInv'
    BY <1>1, SaveStep DEF DoSkia, Kinds
  <1>2. ASSUME DoImageSharp PROVE IInv'
    BY <1>2, SaveStep, FailedDrawStep DEF DoImageSharp, Kinds
  <1>3. CASE UNCHANGED vars
    BY <1>3 DEF vars, IInv, TypeOK, Remembered, SavedOncePerRun, ShutChannelIsQuiet
  <1> QED
    BY <1>1, <1>2, <1>3, StartStep, LoopSteps, CallSteps, OtherSteps
       DEF Next, Execute, Replies, Host

-----------------------------------------------------------------------------
(* Every step keeps count of the late calls. *)
LEMMA LateStep == IInv /\ Late /\ [Next]_vars => Late'
  <1> SUFFICES ASSUME IInv, Late, [Next]_vars PROVE Late'
    OBVIOUS
  <1>0. late \in Nat /\ TypeOK
    BY DEF IInv, TypeOK, MostLate
  <1> USE <1>0 DEF Late, InFlight
  <1>1. CASE Start
    BY <1>1 DEF Start
  <1>2. CASE Kill \/ Exit \/ ExitTimeout
    BY <1>2 DEF Kill, Exit, ExitTimeout, Gone
  <1>3. CASE CtrlC \/ FaultStops
    BY <1>3 DEF CtrlC, FaultStops
  <1>4. CASE LoopTest \/ Delay1 \/ Delay10
    BY <1>4 DEF LoopTest, Delay1, Delay10, Goto, process, TypeOK, Calling, Kinds
  <1>5. CASE SkipDrawn
    <2>1. call = "none"
      BY <1>5 DEF SkipDrawn, Goto, IInv, Remembered, Kinds
    <2> QED
      BY <1>5, <2>1 DEF SkipDrawn, Goto, process
  <1>6. CASE CloseChannel
    BY <1>6 DEF CloseChannel
  <1>7. CASE Send
    BY <1>7 DEF Send, Calling, Kinds, MostLate
  <1>8. CASE Unreachable \/ GreeterReply \/ BookReply \/ DrawingThrows
    BY <1>8 DEF Unreachable, GreeterReply, BookReply, DrawingThrows, process, TypeOK, Calling, Kinds
  <1>9. CASE DoSkia \/ DoImageSharp
    <2>1. Drawn("skia", "sharp") \/ Drawn("sharp", "delay10")
      BY <1>9 DEF DoSkia, DoImageSharp
    <2> QED
      BY <2>1 DEF Drawn
  <1>10. CASE Accept \/ ServerStart \/ ServerStop \/ ServerDrained
    BY <1>10 DEF Accept, ServerStart, ServerStop, ServerDrained, process
  <1>11. CASE ServerKill
    BY <1>11 DEF ServerKill, process, TypeOK, Calling, Kinds
  <1>12. CASE UNCHANGED vars
    BY <1>12 DEF vars
  <1> QED
    BY <1>1, <1>2, <1>3, <1>4, <1>5, <1>6, <1>7, <1>8, <1>9, <1>10, <1>11, <1>12
       DEF Next, Execute, Replies, Host

(* The inductive invariant holds in every state of every behaviour. *)
THEOREM IInvHolds == Spec => []AllInv
  <1>1. Init => AllInv
    BY InitIInv DEF AllInv, Init, Late, InFlight
  <1>2. AllInv /\ [Next]_vars => AllInv'
    BY NextIInv, LateStep DEF AllInv
  <1> QED
    BY <1>1, <1>2, PTL DEF Spec

(* However long a round is under way when the host begins to stop, at most    *)
(* four calls are sent after that.                                            *)
THEOREM FewCallsAfterStop == Spec => []OneRoundMore
  <1>1. AllInv => OneRoundMore
    BY DEF AllInv, Late, OneRoundMore
  <1> QED
    BY <1>1, IInvHolds, PTL

(* The types hold. *)
THEOREM TypeCorrect == Spec => []TypeOK
  <1>1. AllInv => TypeOK
    BY DEF AllInv, IInv
  <1> QED
    BY <1>1, IInvHolds, PTL

(* However often the loop runs and the process is started anew, a process     *)
(* writes each result file at most once.                                      *)
THEOREM OncePerRun == Spec => []SavedOncePerRun
  <1>1. AllInv => SavedOncePerRun
    BY DEF AllInv, IInv
  <1> QED
    BY <1>1, IInvHolds, PTL

(* No call is sent on a channel that is shut. *)
THEOREM ChannelQuiet == Spec => []ShutChannelIsQuiet
  <1>1. AllInv => ShutChannelIsQuiet
    BY DEF AllInv, IInv
  <1> QED
    BY <1>1, IInvHolds, PTL

-----------------------------------------------------------------------------
(* What is left in a result file.                                             *)

(* The file of one kind is made of the blocks of the writes so far.           *)
Layered(k) ==
    /\ \A i \in DOMAIN saves :
         saves[i].kind = k => Len(files[k]) >= Blocks[k][saves[i].picture]
    /\ \A b \in DOMAIN files[k] :
         \E i \in DOMAIN saves :
           /\ Reaches(i, k, b) /\ saves[i].picture = files[k][b]
           /\ \A j \in DOMAIN saves : j > i => ~Reaches(j, k, b)

(* Writing n blocks changes these and no other, and shortens nothing.         *)
LEMMA OverwriteBlocks ==
    ASSUME NEW file \in Seq(Pictures), NEW p \in Pictures, NEW n \in Nat
    PROVE  LET new == Overwrite(file, p, n)
           IN  /\ Len(new) >= n /\ Len(new) >= Len(file) /\ Len(new) \in Nat
               /\ \A b \in DOMAIN new : /\ b \in Nat
                                        /\ b <= n => new[b] = p
                                        /\ b > n => b \in DOMAIN file /\ new[b] = file[b]
  <1> DEFINE m == IF n > Len(file) THEN n ELSE Len(file)
             new == [b \in 1..m |-> IF b <= n THEN p ELSE file[b]]
  <1>1. m \in Nat /\ m >= n /\ m >= Len(file) /\ Len(file) \in Nat /\ DOMAIN file = 1..Len(file)
    OBVIOUS
  <1>2. new \in Seq(Pictures)
    <2>1. \A b \in 1..m : (IF b <= n THEN p ELSE file[b]) \in Pictures
      BY <1>1
    <2>2. new \in [1..m -> Pictures]
      BY <2>1
    <2> QED
      BY <1>1, <2>2
  <1>3. DOMAIN new = 1..m
    OBVIOUS
  <1>4. \A b \in 1..m : /\ b \in Nat
                        /\ b <= n => new[b] = p
                        /\ b > n => b \in DOMAIN file /\ new[b] = file[b]
    BY <1>1
  <1>5. new = Overwrite(file, p, n)
    BY DEF Overwrite
  <1> HIDE DEF m, new
  <1>6. Len(new) = m
    BY <1>1, <1>2, <1>3
  <1> QED
    BY <1>1, <1>3, <1>4, <1>5, <1>6

(* A write adds a layer to its file and leaves the other alone.               *)
LEMMA SaveLayers ==
    ASSUME TypeOK, FileIsLayered, NEW kind \in Kinds, NEW p \in Pictures, Save(kind, p)
    PROVE  FileIsLayered'
  <1> DEFINE s == [run |-> runs, kind |-> kind, picture |-> p]
             n == Blocks[kind][p]
  <1>0. PICK newest : newest = Len(saves) + 1
    OBVIOUS
  <1>1. /\ saves \in Seq(Save_) /\ s.kind = kind /\ s.picture = p
        /\ saves' = Append(saves, s) /\ files \in [Kinds -> Seq(Pictures)]
    BY DEF TypeOK, Save, Save_
  <1>2. /\ Len(saves) \in Nat /\ DOMAIN saves = 1..Len(saves) /\ DOMAIN saves' = 1..newest
        /\ saves'[newest] = s /\ \A i \in DOMAIN saves : saves'[i] = saves[i]
    BY <1>0, <1>1
  <1>3. \A i \in DOMAIN saves : i < newest /\ saves[i].picture \in Pictures
    <2>1. \A i \in DOMAIN saves : saves[i] \in Save_
      BY <1>1
    <2> QED
      BY <1>0, <1>2, <2>1 DEF Save_
  <1>4. \A k \in Kinds, q \in Pictures : Blocks[k][q] \in Nat
    BY BlocksAssumption
  <1>5. SUFFICES ASSUME NEW k \in Kinds PROVE Layered(k)'
    BY DEF FileIsLayered, Layered
  <1>6. Layered(k) /\ \A b \in DOMAIN files[k] : b \in Nat
    BY <1>1 DEF FileIsLayered, Layered
  <1>7. \A i \in DOMAIN saves : \A b : Reaches(i, k, b)' <=> Reaches(i, k, b)
    BY <1>2 DEF Reaches
  <1>8. \A i \in DOMAIN saves' : i \in DOMAIN saves \/ i = newest
    BY <1>0, <1>2
  <1>9. CASE k # kind
    <2>1. files'[k] = files[k]
      BY <1>1, <1>9 DEF Save
    <2>2. \A b : ~ Reaches(newest, k, b)'
      BY <1>1, <1>2, <1>9 DEF Reaches
    <2>3. ASSUME NEW b \in DOMAIN files'[k]
          PROVE  \E i \in DOMAIN saves' :
                   /\ Reaches(i, k, b)' /\ saves'[i].picture = files'[k][b]
                   /\ \A j \in DOMAIN saves' : j > i => ~Reaches(j, k, b)'
      <3>1. PICK i \in DOMAIN saves :
              /\ Reaches(i, k, b) /\ saves[i].picture = files[k][b]
              /\ \A j \in DOMAIN saves : j > i => ~Reaches(j, k, b)
        BY <1>6, <2>1 DEF Layered
      <3>2. i \in DOMAIN saves'
        BY <1>0, <1>2
      <3> QED
        BY <1>2, <1>7, <1>8, <2>1, <2>2, <3>1, <3>2
    <2>4. \A i \in DOMAIN saves' :
            saves'[i].kind = k => Len(files'[k]) >= Blocks[k][saves'[i].picture]
      BY <1>2, <1>6, <1>8, <1>9, <2>1 DEF Layered
    <2> QED
      BY <2>3, <2>4 DEF Layered
  <1>10. CASE k = kind
    <2>1. files'[k] = Overwrite(files[k], p, n) /\ files[k] \in Seq(Pictures) /\ n \in Nat
      BY <1>1, <1>4, <1>10 DEF Save
    <2>2. /\ Len(files'[k]) >= n /\ Len(files'[k]) >= Len(files[k]) /\ Len(files'[k]) \in Nat
          /\ \A b \in DOMAIN files'[k] :
               /\ b \in Nat
               /\ b <= n => files'[k][b] = p
               /\ b > n => b \in DOMAIN files[k] /\ files'[k][b] = files[k][b]
      BY <2>1, OverwriteBlocks
    <2>3. \A b \in Nat : Reaches(newest, k, b)' <=> n >= b
      BY <1>1, <1>2, <1>4, <1>10 DEF Reaches
    <2>4. ASSUME NEW b \in DOMAIN files'[k]
          PROVE  \E i \in DOMAIN saves' :
                   /\ Reaches(i, k, b)' /\ saves'[i].picture = files'[k][b]
                   /\ \A j \in DOMAIN saves' : j > i => ~Reaches(j, k, b)'
      <3>1. CASE b <= n
        <4>1. /\ Reaches(newest, k, b)' /\ newest \in DOMAIN saves'
              /\ saves'[newest].picture = files'[k][b]
          BY <1>0, <1>1, <1>2, <2>1, <2>2, <2>3, <3>1
        <4>2. \A j \in DOMAIN saves' : ~ (j > newest)
          BY <1>0, <1>2
        <4> QED
          BY <4>1, <4>2
      <3>2. CASE b > n
        <4>1. b \in DOMAIN files[k] /\ files'[k][b] = files[k][b] /\ b \in Nat
          BY <2>2, <3>2
        <4>2. PICK i \in DOMAIN saves :
                /\ Reaches(i, k, b) /\ saves[i].picture = files[k][b]
                /\ \A j \in DOMAIN saves : j > i => ~Reaches(j, k, b)
          BY <1>6, <4>1 DEF Layered
        <4>3. i \in DOMAIN saves'
          BY <1>0, <1>2
        <4>4. ~ Reaches(newest, k, b)'
          BY <2>1, <2>3, <3>2, <4>1
        <4> QED
          BY <1>2, <1>7, <1>8, <4>1, <4>2, <4>3, <4>4
      <3> QED
        BY <2>1, <2>2, <3>1, <3>2
    <2>5. ASSUME NEW i \in DOMAIN saves', saves'[i].kind = k
          PROVE  Len(files'[k]) >= Blocks[k][saves'[i].picture]
      <3>1. CASE i = newest
        BY <1>1, <1>2, <1>10, <2>2, <3>1
      <3>2. CASE i \in DOMAIN saves
        <4>1. /\ Blocks[k][saves[i].picture] \in Nat /\ Len(files[k]) \in Nat
              /\ Len(files[k]) >= Blocks[k][saves[i].picture]
          BY <1>2, <1>3, <1>4, <1>6, <2>1, <2>5, <3>2 DEF Layered
        <4> QED
          BY <1>2, <2>2, <3>2, <4>1
      <3> QED
        BY <1>8, <3>1, <3>2
    <2> QED
      BY <2>4, <2>5 DEF Layered
  <1> QED
    BY <1>9, <1>10

(* Nothing but a write touches the files or the history of the writes.        *)
LEMMA LayersStep == TypeOK /\ FileIsLayered /\ [Next]_vars => FileIsLayered'
  <1> SUFFICES ASSUME TypeOK, FileIsLayered, [Next]_vars PROVE FileIsLayered'
    OBVIOUS
  <1>1. \/ UNCHANGED <<files, saves>>
        \/ \E kind \in Kinds, p \in Pictures : Save(kind, p)
    <2>1. CASE Start \/ Kill \/ CtrlC \/ Host
      BY <2>1 DEF Start, Kill, CtrlC, Host, FaultStops, Exit, ExitTimeout, Gone
    <2>2. CASE LoopTest \/ Delay1 \/ Delay10 \/ SkipDrawn \/ CloseChannel
      BY <2>2 DEF LoopTest, Delay1, Delay10, SkipDrawn, CloseChannel, Goto
    <2>3. CASE Send \/ Unreachable \/ GreeterReply \/ BookReply \/ DrawingThrows \/ Accept
      BY <2>3 DEF Send, Unreachable, GreeterReply, BookReply, DrawingThrows, Accept, process
    <2>4. CASE DoSkia \/ DoImageSharp
      BY <2>4 DEF DoSkia, DoImageSharp, Kinds
    <2>5. CASE ServerStart \/ ServerStop \/ ServerDrained \/ ServerKill
      BY <2>5 DEF ServerStart, ServerStop, ServerDrained, ServerKill
    <2>6. CASE UNCHANGED vars
      BY <2>6 DEF vars
    <2> QED
      BY <2>1, <2>2, <2>3, <2>4, <2>5, <2>6 DEF Next, Execute, Replies
  <1>2. CASE UNCHANGED <<files, saves>>
    BY <1>2 DEF FileIsLayered, Reaches
  <1> QED
    BY <1>1, <1>2, SaveLayers

(* Over all runs of the client a result file is the newest answer and, behind *)
(* it, what longer answers of earlier runs have left: FileMode.OpenOrCreate   *)
(* of ClientService.cs neither truncates nor loses a block of the newest one. *)
THEOREM LayersHold == Spec => []FileIsLayered
  <1>1. Init => FileIsLayered
    BY DEF Init, FileIsLayered
  <1>2. AllInv => TypeOK
    BY DEF AllInv, IInv
  <1> QED
    BY <1>1, <1>2, LayersStep, IInvHolds, PTL DEF Spec

-----------------------------------------------------------------------------
(* Liveness.  The provers know nothing of ENABLED, so the theorems take as    *)
(* hypothesis what TLC finds in every state of the run: ExecuteAsync can go   *)
(* on wherever it is, and the host can go on with a stop.                     *)
Looping == Calling \cup {"loop", "delay1", "delay10", "closing"}

ClientCanStep ==
    /\ pc \in Looping => ENABLED <<Execute>>_vars
    /\ \/ pc = "faulted" /\ host = "running"
       \/ pc \in {"ended", "faulted"} /\ host = "stopping"
       => ENABLED <<Host>>_vars

(* Where the process is and what its host and its flags are there.            *)
Placed ==
    /\ pc = "off" <=> host = "stopped"
    /\ pc \in {"closing", "ended"} => host = "stopping"
    /\ pc \in {"sharp", "delay10"} => once["skia"]
    /\ pc = "delay10" => once["sharp"]

LEMMA PlacedStep == TypeOK /\ Placed /\ [Next]_vars => Placed'
  <1> SUFFICES ASSUME TypeOK, Placed, [Next]_vars PROVE Placed'
    OBVIOUS
  <1> USE DEF Placed, Kinds, Calling
  <1>1. CASE Start
    BY <1>1 DEF Start
  <1>2. CASE Kill \/ CtrlC \/ Host
    BY <1>2 DEF Kill, CtrlC, Host, FaultStops, Exit, ExitTimeout, Gone
  <1>3. CASE LoopTest \/ Delay1 \/ Delay10 \/ SkipDrawn
    BY <1>3 DEF LoopTest, Delay1, Delay10, SkipDrawn, Goto, process
  <1>4. CASE CloseChannel \/ Send \/ Unreachable \/ GreeterReply \/ BookReply \/ DrawingThrows \/ Accept
    BY <1>4 DEF CloseChannel, Send, Unreachable, GreeterReply, BookReply, DrawingThrows, Accept,
                process, TypeOK
  <1>5. CASE DoSkia \/ DoImageSharp
    <2>1. Drawn("skia", "sharp") \/ Drawn("sharp", "delay10")
      BY <1>5 DEF DoSkia, DoImageSharp
    <2> QED
      BY <2>1 DEF Drawn, TypeOK
  <1>6. CASE ServerStart \/ ServerStop \/ ServerDrained \/ ServerKill
    BY <1>6 DEF ServerStart, ServerStop, ServerDrained, ServerKill, process, TypeOK
  <1>7. CASE UNCHANGED vars
    BY <1>7 DEF vars
  <1> QED
    BY <1>1, <1>2, <1>3, <1>4, <1>5, <1>6, <1>7 DEF Next, Execute, Replies

LEMMA PlacedHolds == Spec => [](TypeOK /\ Placed)
  <1>1. Init => Placed
    BY DEF Init, Placed, Calling, Kinds
  <1> QED
    BY <1>1, TypeCorrect, PlacedStep, PTL DEF Spec

(* A step that is not the loop's leaves the loop where it is, breaks the call *)
(* it waits for, or takes the process away.                                   *)
LEMMA LoopOnlyAdvances ==
    ASSUME TypeOK, [Next]_vars, pc \in Looping
    PROVE  \/ UNCHANGED <<pc, call>>
           \/ Execute
           \/ call = "accepted" /\ pc' = "faulted"
           \/ pc' = "off"
  BY DEF Next, vars, Start, Kill, CtrlC, Host, FaultStops, Exit, ExitTimeout, Gone,
         ServerStart, ServerStop, ServerDrained, ServerKill, process, TypeOK, Looping, Calling

(* What the loop does next, from each of its places.                          *)
Follows(p) == CASE p = "delay1" -> {"greet"}
                [] p = "greet" -> {"book"}
                [] p = "book" -> {"skia"}
                [] p = "skia" -> {"sharp"}
                [] p = "sharp" -> {"delay10"}
                [] p = "delay10" -> {"loop"}
                [] p = "loop" -> {"delay1", "closing"}
                [] p = "closing" -> {"ended"}

Out == pc \in {"faulted", "off"}

LEMMA ExecuteFollows ==
    ASSUME TypeOK, Execute, pc \in Looping
    PROVE  \/ /\ pc' \in Follows(pc)
              /\ pc = "delay1" => call' = "none"
              /\ pc = "greet" => call = "accepted"
           \/ pc' = "faulted" /\ call = "sent" /\ server # "up"
           \/ pc' = "faulted" /\ call = "accepted"
           \/ pc' = pc /\ pc \in Calling /\ call = "none" /\ call' = "sent"
           \/ pc' = pc /\ pc \in Calling /\ call = "sent" /\ call' = "accepted" /\ server = "up"
  <1> USE DEF Follows
  <1>1. CASE LoopTest \/ Delay1 \/ Delay10 \/ SkipDrawn \/ CloseChannel
    BY <1>1 DEF LoopTest, Delay1, Delay10, SkipDrawn, Goto, CloseChannel, TypeOK, Calling, Kinds
  <1>2. CASE Send \/ Unreachable \/ GreeterReply \/ BookReply \/ DrawingThrows \/ Accept
    BY <1>2 DEF Send, Unreachable, GreeterReply, BookReply, DrawingThrows, Accept, TypeOK
  <1>3. CASE DoSkia \/ DoImageSharp
    <2>1. Drawn("skia", "sharp") \/ Drawn("sharp", "delay10")
      BY <1>3 DEF DoSkia, DoImageSharp
    <2> QED
      BY <2>1 DEF Drawn
  <1> QED
    BY <1>1, <1>2, <1>3 DEF Execute, Replies

Leaves(p) == pc = p ~> pc \in Follows(p) \/ Out

(* ExecuteAsync does not stay where it is: the delays elapse, and a call is   *)
(* sent, accepted and answered, or fails.                                     *)
LEMMA LoopLeaves ==
    ASSUME NEW p \in Looping
    PROVE  Spec /\ []ClientCanStep => Leaves(p)
  <1> DEFINE In(c) == pc = p /\ call = c
             Left  == pc \in Follows(p) \/ Out
  <1>1. TypeOK /\ pc = p => In("none") \/ In("sent") \/ In("accepted")
    BY DEF TypeOK
  <1>2. TypeOK /\ In("accepted") /\ [Next]_vars => In("accepted")' \/ Left'
    BY LoopOnlyAdvances, ExecuteFollows DEF Out
  <1>3. TypeOK /\ In("accepted") /\ [Next]_vars /\ <<Execute>>_vars => Left'
    BY ExecuteFollows DEF Out
  <1>4. TypeOK /\ In("sent") /\ [Next]_vars => In("sent")' \/ In("accepted")' \/ Left'
    BY LoopOnlyAdvances, ExecuteFollows DEF Out
  <1>5. TypeOK /\ In("sent") /\ [Next]_vars /\ <<Execute>>_vars => In("accepted")' \/ Left'
    BY ExecuteFollows DEF Out
  <1>6. TypeOK /\ In("none") /\ [Next]_vars => In("none")' \/ In("sent")' \/ Left'
    BY LoopOnlyAdvances, ExecuteFollows DEF Out
  <1>7. TypeOK /\ In("none") /\ [Next]_vars /\ <<Execute>>_vars => In("sent")' \/ Left'
    BY ExecuteFollows DEF Out
  <1>8. ClientCanStep /\ pc = p => ENABLED <<Execute>>_vars
    BY DEF ClientCanStep
  <1>9. In("none") \/ In("sent") \/ In("accepted") => pc = p
    OBVIOUS
  <1> HIDE DEF In, Left
  <1>10. Spec /\ []ClientCanStep => (pc = p ~> Left)
    BY <1>1, <1>2, <1>3, <1>4, <1>5, <1>6, <1>7, <1>8, <1>9, TypeCorrect, PTL DEF Spec
  <1> QED
    BY <1>10 DEF Left, Leaves

(* Round by round: every place of the loop is left.                           *)
LEMMA EveryPlaceLeft ==
    Spec /\ []ClientCanStep => 
      /\ pc = "delay1"  ~> pc = "greet" \/ Out
      /\ pc = "greet"   ~> pc = "book" \/ Out
      /\ pc = "book"    ~> pc = "skia" \/ Out
      /\ pc = "skia"    ~> pc = "sharp" \/ Out
      /\ pc = "sharp"   ~> pc = "delay10" \/ Out
      /\ pc = "delay10" ~> pc = "loop" \/ Out
      /\ pc = "loop"    ~> pc = "delay1" \/ pc = "closing" \/ Out
      /\ pc = "closing" ~> pc = "ended" \/ Out
  <1> USE DEF Follows
  <1>1. /\ pc \in Follows("delay1") => pc = "greet"
        /\ pc \in Follows("greet") => pc = "book"
        /\ pc \in Follows("book") => pc = "skia"
        /\ pc \in Follows("skia") => pc = "sharp"
        /\ pc \in Follows("sharp") => pc = "delay10"
        /\ pc \in Follows("delay10") => pc = "loop"
        /\ pc \in Follows("loop") => pc = "delay1" \/ pc = "closing"
        /\ pc \in Follows("closing") => pc = "ended"
    OBVIOUS
  <1> DEFINE L == Spec /\ []ClientCanStep
  <1>2. L => /\ Leaves("delay1") /\ Leaves("greet") /\ Leaves("book") /\ Leaves("skia")
             /\ Leaves("sharp") /\ Leaves("delay10") /\ Leaves("loop") /\ Leaves("closing")
    BY LoopLeaves DEF Looping, Calling
  <1> QED
    BY <1>1, <1>2, PTL DEF Leaves
(* A stop that has begun goes on until the process is gone.                   *)
LEMMA StoppingStays == TypeOK /\ Placed /\ host = "stopping" /\ [Next]_vars =>
                         (host = "stopping")' \/ (host = "stopped")'
  BY DEF Next, vars, Start, Kill, CtrlC, Host, FaultStops, Exit, ExitTimeout, Gone, Execute,
         LoopTest, Delay1, Delay10, SkipDrawn, Goto, CloseChannel, Send, Unreachable, Replies,
         GreeterReply, BookReply, DoSkia, DoImageSharp, Drawn, DrawingThrows, Accept,
         ServerStart, ServerStop, ServerDrained, ServerKill, process, TypeOK, Placed

(* The last of a process: what has ended or failed stays so until the host    *)
(* has taken it away.                                                         *)
LEMMA OverStays ==
    ASSUME [Next]_vars, pc \in {"ended", "faulted"}, TypeOK
    PROVE  pc' = "off" \/ (pc' = pc /\ (host = "stopping" => host' = "stopping"))
  BY DEF Next, vars, Start, Kill, CtrlC, Host, FaultStops, Exit, ExitTimeout, Gone, Execute,
         LoopTest, Delay1, Delay10, SkipDrawn, Goto, CloseChannel, Send, Unreachable, Replies,
         GreeterReply, BookReply, DoSkia, DoImageSharp, Drawn, DrawingThrows, Accept,
         ServerStart, ServerStop, ServerDrained, ServerKill, process, TypeOK, Calling, Kinds

(* A process that is over is taken away by its host.                          *)
LEMMA OverEnds == Spec /\ []ClientCanStep => (pc \in {"ended", "faulted"} ~> pc = "off")
  <1> DEFINE Over     == pc \in {"ended", "faulted"}
             Failed   == pc = "faulted" /\ host = "running"
             Stopping == Over /\ host = "stopping"
  <1>1. TypeOK /\ Placed /\ Over => Failed \/ Stopping
    BY DEF TypeOK, Placed
  <1>2. TypeOK /\ Placed /\ Over /\ [Next]_vars => Over' \/ (pc = "off")'
    BY OverStays
  <1>3. TypeOK /\ Stopping /\ [Next]_vars => Stopping' \/ (pc = "off")'
    BY OverStays
  <1>4. Stopping /\ <<Host>>_vars => (pc = "off")'
    BY DEF Host, FaultStops, Exit, ExitTimeout, Gone
  <1>5. Failed /\ <<Host>>_vars => Stopping' \/ (pc = "off")'
    BY DEF Host, FaultStops, Exit, ExitTimeout, Gone
  <1>6. ClientCanStep /\ (Failed \/ Stopping) => ENABLED <<Host>>_vars
    BY DEF ClientCanStep
  <1> HIDE DEF Over, Failed, Stopping
  <1>7. Spec /\ []ClientCanStep => (Over ~> pc = "off")
    BY <1>1, <1>2, <1>3, <1>4, <1>5, <1>6, PlacedHolds, PTL DEF Spec
  <1> QED
    BY <1>7 DEF Over

(* A host that begins to stop is stopped in the end, in whatever call, delay  *)
(* or failure the stop finds the loop, for every picture and every number of  *)
(* starts.                                                                    *)
THEOREM StopCompletes == Spec /\ []ClientCanStep => StopEnds
  <1> DEFINE Over == pc \in {"ended", "faulted"}
  <1>1. TypeOK /\ Placed /\ host = "stopping" =>
          \/ pc = "delay1" \/ pc = "greet" \/ pc = "book" \/ pc = "skia" \/ pc = "sharp"
          \/ pc = "delay10" \/ pc = "loop" \/ pc = "closing" \/ Over
    BY DEF TypeOK, Placed, Calling
  <1>2. TypeOK /\ Placed => (pc = "off" => host = "stopped")
    BY DEF Placed
  <1>3. TypeOK /\ host = "stopping" /\ pc = "loop" /\ [Next]_vars => (pc = "loop" \/ pc = "closing" \/ Out)'
    <2> SUFFICES ASSUME TypeOK, host = "stopping", pc = "loop", [Next]_vars
                 PROVE  (pc = "loop" \/ pc = "closing" \/ Out)'
      OBVIOUS
    <2>1. CASE Execute
      BY <2>1 DEF Execute, LoopTest, Delay1, Delay10, SkipDrawn, Goto, CloseChannel, Send,
                  Unreachable, Replies, GreeterReply, BookReply, DoSkia, DoImageSharp, Drawn,
                  DrawingThrows, Accept, TypeOK, Calling
    <2>2. CASE ~ Execute
      BY <2>2, LoopOnlyAdvances DEF Looping, Out
    <2> QED
      BY <2>1, <2>2
  <1>4. (Out => pc = "off" \/ Over) /\ (pc = "ended" => Over)
    BY DEF Out
  <1>5. ~ (pc = "loop" /\ pc = "delay1")
    OBVIOUS
  <1> HIDE DEF Over
  <1>6. Spec /\ []ClientCanStep => (Over ~> pc = "off")
    BY OverEnds DEF Over
  <1> QED
    BY <1>1, <1>2, <1>3, <1>4, <1>5, <1>6, EveryPlaceLeft, StoppingStays, PlacedHolds, PTL
    DEF Spec, StopEnds

(* A flag is up only behind a file that this run has written, or behind the    *)
(* refusal of ImageSharp.                                                     *)
Kept(k) == Written(k) \/ (k = "sharp" /\ refused)

FlagsKept == pc # "off" => \A k \in Kinds : once[k] => Kept(k)

(* What this run has written stays written, and so does the new answer.       *)
LEMMA SaveWrites ==
    ASSUME TypeOK, NEW kind, NEW p, Save(kind, p), runs' = runs
    PROVE  /\ Written(kind)'
           /\ \A k \in Kinds : Kept(k) => Kept(k)'
  <1> DEFINE s == [run |-> runs, kind |-> kind, picture |-> p]
  <1>1. saves \in Seq(Save_) /\ saves' = Append(saves, s) /\ refused' = refused
    BY DEF TypeOK, Save, Save_
  <1>2. /\ DOMAIN saves \subseteq DOMAIN saves'
        /\ \A i \in DOMAIN saves : saves'[i] = saves[i]
        /\ Len(saves) + 1 \in DOMAIN saves' /\ saves'[Len(saves) + 1] = s
    BY <1>1
  <1> QED
    BY <1>1, <1>2 DEF Written, Kept

LEMMA FlagsStep == TypeOK /\ FlagsKept /\ [Next]_vars => FlagsKept'
  <1> SUFFICES ASSUME TypeOK, FlagsKept, [Next]_vars PROVE FlagsKept'
    OBVIOUS
  <1>1. CASE Start
    BY <1>1 DEF Start, FlagsKept
  <1>2. CASE Kill \/ Exit \/ ExitTimeout
    BY <1>2 DEF Kill, Exit, ExitTimeout, Gone, FlagsKept
  <1>3. ASSUME UNCHANGED <<once, runs, saves, refused>>, pc' # "off" => pc # "off"
        PROVE  FlagsKept'
    BY <1>3 DEF FlagsKept, Kept, Written
  <1>4. CASE CtrlC \/ FaultStops \/ LoopTest \/ Delay1 \/ Delay10 \/ SkipDrawn \/ CloseChannel
    BY <1>3, <1>4 DEF CtrlC, FaultStops, LoopTest, Delay1, Delay10, SkipDrawn, Goto,
                      CloseChannel, process
  <1>5. CASE Send \/ Unreachable \/ GreeterReply \/ BookReply \/ DrawingThrows \/ Accept
    BY <1>3, <1>5 DEF Send, Unreachable, GreeterReply, BookReply, DrawingThrows, Accept, process,
                      Calling, Kinds, TypeOK
  <1>6. CASE ServerStart \/ ServerStop \/ ServerDrained \/ ServerKill
    BY <1>3, <1>6 DEF ServerStart, ServerStop, ServerDrained, ServerKill, process, TypeOK, Calling
  <1>7. ASSUME NEW kind \in Kinds, NEW next, Drawn(kind, next), Kept(kind)',
               \A k \in Kinds : Kept(k) => Kept(k)'
        PROVE  FlagsKept'
    BY <1>7 DEF Drawn, FlagsKept, Kinds, TypeOK
  <1>8. CASE DoSkia
    <2>1. PICK p \in Pictures : Drawn("skia", "sharp") /\ Save("skia", p)
      BY <1>8 DEF DoSkia
    <2>2. Kept("skia")' /\ \A k \in Kinds : Kept(k) => Kept(k)'
      BY <2>1, SaveWrites DEF Drawn, Kept
    <2> QED
      BY <1>7, <2>1, <2>2 DEF Kinds
  <1>9. CASE DoImageSharp
    <2>1. Drawn("sharp", "delay10") /\ runs' = runs
      BY <1>9 DEF DoImageSharp, Drawn
    <2>2. CASE \E p \in Pictures : Save("sharp", p)
      <3>1. Kept("sharp")' /\ \A k \in Kinds : Kept(k) => Kept(k)'
        BY <2>1, <2>2, SaveWrites DEF Kept
      <3> QED
        BY <1>7, <2>1, <3>1 DEF Kinds
    <2>3. CASE refused' = TRUE /\ UNCHANGED <<files, saves>>
      <3>1. Kept("sharp")' /\ \A k \in Kinds : Kept(k) => Kept(k)'
        BY <2>1, <2>3 DEF Kept, Written
      <3> QED
        BY <1>7, <2>1, <3>1 DEF Kinds
    <2> QED
      BY <1>9, <2>2, <2>3 DEF DoImageSharp
  <1>10. CASE UNCHANGED vars
    BY <1>3, <1>10 DEF vars
  <1> QED
    BY <1>1, <1>2, <1>4, <1>5, <1>6, <1>8, <1>9, <1>10 DEF Next, Host, Execute, Replies

(* A process that nobody disturbs writes both result files: a round that      *)
(* begins on a running host leaves both written, but for a picture refused    *)
(* with Code -1, or a call failed, or the host was stopped.                   *)
THEOREM RoundDraws == Spec /\ []ClientCanStep => DrawsOrEnds
  <1> DEFINE Both == Written("skia") /\ (Written("sharp") \/ refused)
  <1>1. FlagsKept /\ Placed /\ pc = "delay10" => Both
    BY DEF Placed, FlagsKept, Kept, Kinds
  <1>2. TypeOK /\ Placed =>
          (pc = "closing" \/ pc = "off" => host # "running")
    BY DEF Placed
  <1>3. Out => pc = "off" \/ pc = "faulted"
    BY DEF Out
  <1>4. Init => FlagsKept
    BY DEF Init, FlagsKept
  <1> HIDE DEF Both
  <1>5. Spec /\ []ClientCanStep =>
          (pc = "loop" /\ host = "running" ~> \/ Both
                                             \/ host # "running" \/ pc = "faulted")
    BY <1>1, <1>2, <1>3, <1>4, EveryPlaceLeft, PlacedHolds, FlagsStep, PTL DEF Spec
  <1> QED
    BY <1>5, PTL DEF Both, DrawsOrEnds

ServerStaysAway == <>[](server # "up")
EndsAgain == []<>(pc = "off")

(* One failed call takes the process down: a process that faces a server that *)
(* stays away is gone in the end, in whatever place the loss finds it.        *)
THEOREM NoServerNoProcess == Spec /\ []ClientCanStep => (ServerStaysAway => EndsAgain)
  <1> DEFINE Over == pc \in {"ended", "faulted"}
             Greeting == pc = "greet" /\ call # "accepted"
  <1>1. TypeOK =>
          \/ pc = "delay1" \/ pc = "greet" \/ pc = "book" \/ pc = "skia" \/ pc = "sharp"
          \/ pc = "delay10" \/ pc = "loop" \/ pc = "closing" \/ Over \/ pc = "off"
    BY DEF TypeOK, Calling
  <1>2. TypeOK /\ server # "up" /\ Greeting /\ [Next]_vars => Greeting' \/ Out'
    BY LoopOnlyAdvances, ExecuteFollows DEF Out, Looping, Calling, Follows
  <1>3. TypeOK /\ server # "up" /\ pc = "delay1" /\ [Next]_vars =>
          (pc = "delay1")' \/ Greeting' \/ Out'
    BY LoopOnlyAdvances, ExecuteFollows DEF Out, Looping, Calling, Follows, TypeOK
  <1>4. (Out => pc = "off" \/ Over) /\ (pc = "ended" => Over) /\ (Greeting => pc = "greet")
    BY DEF Out
  <1>5. ~ (pc = "greet" /\ pc = "book") /\ ~ (pc = "delay1" /\ pc = "greet")
    OBVIOUS
  <1> HIDE DEF Over
  <1>6. Spec /\ []ClientCanStep => (Over ~> pc = "off")
    BY OverEnds DEF Over
  <1> QED
    BY <1>1, <1>2, <1>3, <1>4, <1>5, <1>6, EveryPlaceLeft, TypeCorrect, PTL
    DEF Spec, ServerStaysAway, EndsAgain

(* DeadServerEndsClient, for every number of starts, once nobody starts the   *)
(* program any more: the last process that faces a server that stays away     *)
(* ends, and no step but a start brings one back.                             *)
THEOREM LastRunEnds ==
    ASSUME NEW n
    PROVE  Spec /\ []ClientCanStep /\ <>[](runs = n) => DeadServerEndsClient
  <1>1. TypeOK /\ pc = "off" /\ runs = n /\ (runs = n)' /\ [Next]_vars => (pc = "off")'
    <2> SUFFICES ASSUME TypeOK, pc = "off", runs' = runs, [Next]_vars
                 PROVE  pc' = "off"
      OBVIOUS
    <2>1. ~ Start
      BY DEF Start, TypeOK
    <2>2. CASE Execute
      BY <2>2 DEF Execute, LoopTest, Delay1, Delay10, SkipDrawn, Goto, CloseChannel, Send,
                  Unreachable, Replies, GreeterReply, BookReply, DoSkia, DoImageSharp, Drawn,
                  DrawingThrows, Accept, TypeOK, Calling, Kinds
    <2> QED
      BY <2>1, <2>2 DEF Next, vars, Kill, CtrlC, Host, FaultStops, Exit, ExitTimeout, Gone,
                        ServerStart, ServerStop, ServerDrained, ServerKill, process, TypeOK, Calling
  <1> QED
    BY <1>1, NoServerNoProcess, TypeCorrect, PTL
    DEF Spec, ServerStaysAway, EndsAgain, DeadServerEndsClient
=============================================================================
