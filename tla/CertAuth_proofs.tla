--------------------------- MODULE CertAuth_proofs ---------------------------
(* What CertAuth promises for every number of requests under way. *)
EXTENDS CertAuth, TLAPS

(* A request past the handshake shows a trusted certificate, one that is     *)
(* authorized with a user has written the file, and an answer from an        *)
(* [Authorize] service goes to a user.                                       *)
WayOf(r) ==
    /\ at[r] \in {"validated", "writing"} => cert[r] \in Trusted /\ export[r] = "none"
    /\ export[r] # "none" => cert[r] \in Trusted
    /\ user[r] => export[r] = "written"
    /\ at[r] = "idle" => cert[r] = "none" /\ answer[r] = "none"
    /\ at[r] = "handler" /\ method[r] \in Authorized => user[r]
    /\ answer[r] = "ok" /\ method[r] \in Authorized => user[r]
    /\ answer[r] = "ok" => at[r] = "done"
    /\ answer[r] = "forbidden" => at[r] = "done" /\ method[r] \in Authorized

Way == \A r \in Requests : WayOf(r)

(* Whoever is or will be turned away with a trusted certificate, and not for  *)
(* a failure of its own, met another request at the file.                     *)
Opened(q) == at[q] = "writing" \/ export[q] \in {"written", "broken off"}

NotLetIn(r) ==
    /\ cert[r] \in Trusted /\ export[r] = "none"
    /\ answer[r] = "forbidden" \/ (at[r] = "authorize" /\ ~user[r])

Met == \A r \in Requests : NotLetIn(r) => enforced /\ \E q \in Requests \ {r} : Opened(q)

(* The file is made of n blocks of r's certificate, all of them if r was let  *)
(* in.                                                                        *)
FileOf(r) ==
    \E n \in 0..Size[cert[r]] :
      /\ file = [b \in 1..n |-> cert[r]]
      /\ export[r] = "written" => n = Size[cert[r]]

(* With enforced shares there is one writer, the one that opened the file     *)
(* last, and it starts on an empty file.                                      *)
OneWriter ==
    /\ opener # "none" => at[opener] \notin {"idle", "validated"}
    /\ enforced =>
         /\ \A r \in Writers : opener = r /\ file = <<>>
         /\ Writers = {} /\ opener # "none" => FileOf(opener)

IInv == TypeOK /\ Way /\ Met /\ OneWriter

(* The initial states satisfy the inductive invariant. *)
LEMMA InitIInv == Init => IInv
  <1> SUFFICES ASSUME Init PROVE IInv
    OBVIOUS
  <1>1. TypeOK
    <2>1. file \in Seq(Certs)
      BY DEF Init
    <2> QED
      BY <2>1 DEF Init, TypeOK
  <1>2. Way
    BY DEF Init, Way, WayOf
  <1>3. Met
    BY DEF Init, Met, NotLetIn, Trusted
  <1>4. OneWriter
    BY DEF Init, OneWriter, Writers
  <1> QED
    BY <1>1, <1>2, <1>3, <1>4 DEF IInv

(* Writing to an empty file leaves what was written. *)
LEMMA WriteFact ==
    ASSUME NEW c, NEW n \in Nat
    PROVE  Overwrite(<<>>, c, n) = [b \in 1..n |-> c]
  <1>1. (IF n > Len(<<>>) THEN n ELSE Len(<<>>)) = n
    OBVIOUS
  <1> QED
    BY <1>1 DEF Overwrite

(* What is written is a sequence of certificates. *)
LEMMA OverwriteType ==
    ASSUME NEW c \in Certs, NEW old \in Seq(Certs), NEW n \in Nat
    PROVE  Overwrite(old, c, n) \in Seq(Certs)
  <1> DEFINE m == IF n > Len(old) THEN n ELSE Len(old)
             new == [b \in 1..m |-> IF b <= n THEN c ELSE old[b]]
  <1>1. m \in Nat
    OBVIOUS
  <1>2. \A b \in 1..m : (IF b <= n THEN c ELSE old[b]) \in Certs
    BY <1>1
  <1>3. new \in [1..m -> Certs]
    BY <1>2
  <1>4. new \in Seq(Certs)
    BY <1>1, <1>3
  <1> QED
    BY <1>4 DEF Overwrite

(* What a request writes, and how much of it, when its export ends.           *)
LEMMA WritingFact ==
    ASSUME Way, NEW r \in Requests, at[r] = "writing"
    PROVE  /\ cert[r] \in Certs /\ cert[r] \in Trusted /\ Size[cert[r]] \in Nat
           /\ 0..Size[cert[r]] \subseteq Nat /\ Size[cert[r]] \in 0..Size[cert[r]]
  BY SizeAssumption DEF Way, WayOf, Trusted, Certs

(* A system does not change its mind about shares. *)
LEMMA SameSystem == [Next]_vars => enforced' = enforced
  BY DEF vars, Next, Serve, ConnectHttp, ConnectHttps, OpenFile, AuthenticationFailed,
         ExportFails, CertificateValidated, Authorize, Handle

(* Every step keeps the types. *)
LEMMA TypeStep == IInv /\ [Next]_vars => TypeOK'
  <1> SUFFICES ASSUME IInv, [Next]_vars PROVE TypeOK'
    OBVIOUS
  <1>0. TypeOK /\ Way
    BY DEF IInv
  <1>1. ASSUME NEW r \in Requests, ConnectHttp(r) \/ ConnectHttps(r)
        PROVE  TypeOK'
    BY <1>0, <1>1 DEF ConnectHttp, ConnectHttps, Goto, Done, Calls, history, TypeOK, Certs, Trusted
  <1>2. ASSUME NEW r \in Requests, OpenFile(r)
        PROVE  TypeOK'
    <2>1. file' \in Seq(Certs)
      BY <1>2 DEF OpenFile
    <2> QED
      BY <1>0, <1>2, <2>1 DEF OpenFile, Goto, TypeOK
  <1>3. ASSUME NEW r \in Requests, AuthenticationFailed(r)
        PROVE  TypeOK'
    BY <1>0, <1>3 DEF AuthenticationFailed, Goto, history, TypeOK
  <1>4. ASSUME NEW r \in Requests, ExportFails(r)
        PROVE  TypeOK'
    <2>1. file' \in Seq(Certs)
      <3>1. CASE UNCHANGED file
        BY <1>0, <3>1 DEF TypeOK
      <3>2. CASE at[r] = "writing"
        <4>1. PICK n \in 0..Size[cert[r]] : file' = Overwrite(file, cert[r], n)
          BY <1>4, <3>2 DEF ExportFails, Goto
        <4>2. cert[r] \in Certs /\ n \in Nat
          BY <1>0, <3>2, WritingFact
        <4> QED
          BY <1>0, <4>1, <4>2, OverwriteType DEF TypeOK
      <3> QED
        BY <1>4, <3>1, <3>2 DEF ExportFails, Goto
    <2> QED
      BY <1>0, <1>4, <2>1 DEF ExportFails, Goto, Exported, TypeOK
  <1>5. ASSUME NEW r \in Requests, CertificateValidated(r)
        PROVE  TypeOK'
    <2>1. file' \in Seq(Certs)
      BY <1>0, <1>5, WritingFact, OverwriteType DEF CertificateValidated, Goto, TypeOK
    <2> QED
      BY <1>0, <1>5, <2>1 DEF CertificateValidated, Goto, Exported, TypeOK
  <1>6. ASSUME NEW r \in Requests, Authorize(r) \/ Handle(r)
        PROVE  TypeOK'
    BY <1>0, <1>6 DEF Authorize, Handle, Goto, Done, history, TypeOK
  <1>7. CASE UNCHANGED vars
    BY <1>0, <1>7 DEF vars, history, TypeOK
  <1> QED
    BY <1>1, <1>2, <1>3, <1>4, <1>5, <1>6, <1>7 DEF Next, Serve

(* Every step keeps the account of each request's way. *)
LEMMA WayStep == IInv /\ [Next]_vars => Way'
  <1> SUFFICES ASSUME IInv, [Next]_vars, NEW q \in Requests PROVE WayOf(q)'
    BY DEF Way
  <1>0. TypeOK /\ WayOf(q)
    BY DEF IInv, Way
  <1>1. ASSUME UNCHANGED <<at[q], method[q], cert[q], user[q], answer[q], export[q]>>
        PROVE  WayOf(q)'
    BY <1>0, <1>1 DEF WayOf
  <1> USE <1>0 DEF TypeOK, WayOf, history
  <1>2. ASSUME NEW r \in Requests, r # q, ConnectHttp(r) \/ ConnectHttps(r) \/ Serve(r)
        PROVE  WayOf(q)'
    <2>1. UNCHANGED <<at[q], method[q], cert[q], answer[q]>>
      BY <1>2 DEF ConnectHttp, ConnectHttps, Serve, OpenFile, AuthenticationFailed, ExportFails,
                  CertificateValidated, Authorize, Handle, Goto, Done, Calls
    <2>2. UNCHANGED <<user[q], export[q]>>
      BY <1>2 DEF ConnectHttp, ConnectHttps, Serve, OpenFile, AuthenticationFailed, ExportFails,
                  CertificateValidated, Exported, Authorize, Handle
    <2> QED
      BY <1>1, <2>1, <2>2
  <1>3. CASE ConnectHttp(q)
    BY <1>3 DEF ConnectHttp, Goto, Trusted
  <1>4. CASE ConnectHttps(q)
    <2>1. /\ at[q] = "idle" /\ answer[q] = "none" /\ export[q] = "none" /\ ~user[q]
          /\ UNCHANGED <<user, export>>
      BY <1>4 DEF ConnectHttps, Goto, Trusted
    <2>2. CASE at'[q] = "validated" /\ cert'[q] \in Trusted /\ UNCHANGED answer
      BY <2>1, <2>2
    <2>3. CASE at'[q] = "done" /\ answer'[q] = "no connection" /\ UNCHANGED <<method, cert>>
      BY <2>1, <2>3
    <2> QED
      BY <1>4, <2>2, <2>3 DEF ConnectHttps, Goto, Done
  <1>5. CASE OpenFile(q) \/ AuthenticationFailed(q)
    BY <1>5 DEF OpenFile, AuthenticationFailed, Goto
  <1>6. CASE ExportFails(q)
    <2>1. /\ at[q] \in {"validated", "writing"} /\ at'[q] = "authorize"
          /\ export'[q] \in {"not opened", "broken off"}
          /\ UNCHANGED <<method, cert, user, answer>>
      BY <1>6 DEF ExportFails, Exported, Goto
    <2> QED
      BY <2>1
  <1>7. CASE CertificateValidated(q)
    <2>1. /\ at[q] = "writing" /\ at'[q] = "authorize" /\ export'[q] = "written"
          /\ UNCHANGED <<method, cert, answer>>
      BY <1>7 DEF CertificateValidated, Exported, Goto
    <2> QED
      BY <2>1
  <1>8. CASE Authorize(q)
    <2>1. CASE method[q] \in Authorized /\ at'[q] = "done" /\ answer'[q] = "forbidden"
      BY <1>8, <2>1 DEF Authorize, Goto
    <2>2. CASE /\ method[q] \in Authorized => user[q]
               /\ at'[q] = "handler" /\ UNCHANGED answer
      BY <1>8, <2>2 DEF Authorize, Goto
    <2> QED
      BY <1>8, <2>1, <2>2 DEF Authorize, Goto, Done
  <1>9. CASE Handle(q)
    <2>1. /\ at[q] = "handler" /\ at'[q] = "done" /\ answer'[q] = "ok"
          /\ UNCHANGED <<method, cert, user, export>>
      BY <1>9 DEF Handle, Goto, Done
    <2> QED
      BY <2>1
  <1>10. CASE UNCHANGED vars
    BY <1>1, <1>10 DEF vars
  <1> QED
    BY <1>2, <1>3, <1>4, <1>5, <1>6, <1>7, <1>8, <1>9, <1>10 DEF Next, Serve

(* Who has opened the file has opened it. *)
LEMMA OpenedStays ==
    ASSUME IInv, [Next]_vars, NEW q \in Requests, Opened(q)
    PROVE  Opened(q)'
  <1> USE DEF IInv, TypeOK, Way, WayOf, Opened, history
  <1>1. ASSUME NEW r \in Requests, ConnectHttp(r) \/ ConnectHttps(r)
        PROVE  Opened(q)'
    BY <1>1 DEF ConnectHttp, ConnectHttps, Goto
  <1>2. ASSUME NEW r \in Requests, Serve(r)
        PROVE  Opened(q)'
    BY <1>2 DEF Serve, OpenFile, AuthenticationFailed, ExportFails, CertificateValidated,
                Exported, Authorize, Handle, Goto
  <1>3. CASE UNCHANGED vars
    BY <1>3 DEF vars
  <1> QED
    BY <1>1, <1>2, <1>3 DEF Next

(* Only a collision newly turns away a caller whose export did not fail.      *)
LEMMA OnlyCollisions ==
    ASSUME IInv, [Next]_vars, NEW r \in Requests, ~ NotLetIn(r), NotLetIn(r)'
    PROVE  AuthenticationFailed(r)
  <1> USE DEF IInv, TypeOK, Way, WayOf, NotLetIn, history
  <1>1. ASSUME NEW s \in Requests, ConnectHttp(s) \/ ConnectHttps(s)
        PROVE  FALSE
    BY <1>1 DEF ConnectHttp, ConnectHttps, Goto, Done, Trusted
  <1>2. ASSUME NEW s \in Requests,
               OpenFile(s) \/ ExportFails(s) \/ CertificateValidated(s)
        PROVE  FALSE
    BY <1>2 DEF OpenFile, ExportFails, CertificateValidated, Exported, Goto
  <1>3. ASSUME NEW s \in Requests, Authorize(s) \/ Handle(s)
        PROVE  FALSE
    BY <1>3 DEF Authorize, Handle, Goto, Done
  <1>4. ASSUME NEW s \in Requests, AuthenticationFailed(s), s # r
        PROVE  FALSE
    BY <1>4 DEF AuthenticationFailed, Goto
  <1>5. CASE UNCHANGED vars
    BY <1>5 DEF vars
  <1> QED
    BY <1>1, <1>2, <1>3, <1>4, <1>5 DEF Next, Serve

(* Every step keeps a witness for whoever is turned away. *)
LEMMA MetStep == IInv /\ [Next]_vars => Met'
  <1> SUFFICES ASSUME IInv, [Next]_vars, NEW r \in Requests, NotLetIn(r)'
               PROVE  enforced /\ \E q \in Requests \ {r} : Opened(q)'
    BY SameSystem DEF Met
  <1>1. CASE NotLetIn(r)
    <2>1. enforced /\ \E q \in Requests \ {r} : Opened(q)
      BY <1>1 DEF IInv, Met
    <2> QED
      BY <2>1, OpenedStays
  <1>2. CASE ~ NotLetIn(r)
    <2>1. AuthenticationFailed(r)
      BY <1>2, OnlyCollisions
    <2>2. enforced /\ \E q \in Requests \ {r} : Opened(q)
      BY <2>1 DEF AuthenticationFailed, Writers, Goto, Opened
    <2> QED
      BY <2>2, OpenedStays
  <1> QED
    BY <1>1, <1>2

(* Every step keeps one writer and a file of one certificate. *)
LEMMA OneWriterStep == IInv /\ [Next]_vars => OneWriter'
  <1> SUFFICES ASSUME IInv, [Next]_vars
               PROVE  OneWriter'
    OBVIOUS
  <1>0. TypeOK /\ Way /\ OneWriter /\ enforced' = enforced
    BY SameSystem DEF IInv
  <1>1. ASSUME NEW r \in Requests, OpenFile(r)
        PROVE  OneWriter'
    <2>1. opener' = r /\ at'[r] = "writing" /\ file' = <<>>
      BY <1>0, <1>1 DEF OpenFile, Goto, TypeOK
    <2>2. enforced => Writers' = {r}
      BY <1>0, <1>1 DEF OpenFile, Goto, Writers, TypeOK
    <2> QED
      BY <1>0, <2>1, <2>2 DEF OneWriter
  <1>2. ASSUME NEW r \in Requests, NEW n \in 0..Size[cert[r]], at[r] = "writing",
               at' = [at EXCEPT ![r] = "authorize"],
               file' = Overwrite(file, cert[r], n), UNCHANGED <<cert, opener>>,
               export'[r] = "written" => n = Size[cert[r]]
        PROVE  OneWriter'
    <2>1. opener # "none" => at'[opener] \notin {"idle", "validated"}
      BY <1>0, <1>2 DEF TypeOK, OneWriter
    <2>2. ASSUME enforced
          PROVE  Writers' = {} /\ FileOf(opener)'
      <3>1. Writers = {r} /\ file = <<>> /\ opener = r
        BY <1>0, <1>2, <2>2 DEF Writers, OneWriter
      <3>2. Writers' = {}
        BY <1>0, <1>2, <3>1 DEF Writers, TypeOK
      <3>3. file' = [b \in 1..n |-> cert[r]]
        BY <1>0, <1>2, <3>1, WritingFact, WriteFact
      <3> QED
        BY <1>2, <3>1, <3>2, <3>3 DEF FileOf
    <2> QED
      BY <1>0, <1>2, <2>1, <2>2 DEF OneWriter
  <1>3. ASSUME NEW r \in Requests, CertificateValidated(r)
        PROVE  OneWriter'
    <2>1. at[r] = "writing"
      BY <1>3 DEF CertificateValidated, Goto
    <2>2. Size[cert[r]] \in 0..Size[cert[r]]
      BY <1>0, <2>1, WritingFact
    <2> QED
      BY <1>2, <1>3, <2>1, <2>2 DEF CertificateValidated, Goto
  <1>4. ASSUME Writers' = Writers, UNCHANGED <<file, opener>>,
               opener # "none" => /\ at'[opener] \notin {"idle", "validated"}
                                  /\ cert'[opener] = cert[opener]
                                  /\ Writers = {} => export'[opener] = export[opener]
        PROVE  OneWriter'
    BY <1>0, <1>4 DEF OneWriter, FileOf
  <1>5. ASSUME NEW r \in Requests, ExportFails(r)
        PROVE  OneWriter'
    <2>1. CASE at[r] = "writing"
      <3>1. export'[r] = "broken off"
        BY <1>0, <1>5, <2>1 DEF ExportFails, Goto, Exported, TypeOK
      <3> QED
        BY <1>2, <1>5, <2>1, <3>1 DEF ExportFails, Goto
    <2>2. CASE at[r] = "validated"
      <3>1. /\ at' = [at EXCEPT ![r] = "authorize"] /\ export' = [export EXCEPT ![r] = "not opened"]
            /\ UNCHANGED <<file, opener, cert>>
        BY <1>5, <2>2 DEF ExportFails, Goto, Exported
      <3>2. opener # "none" => opener # r
        BY <1>0, <2>2 DEF OneWriter, TypeOK
      <3>3. Writers' = Writers
        BY <1>0, <2>2, <3>1 DEF Writers, TypeOK
      <3> QED
        BY <1>0, <1>4, <3>1, <3>2, <3>3 DEF OneWriter, TypeOK
    <2> QED
      BY <1>5, <2>1, <2>2 DEF ExportFails, Goto
  <1>6. ASSUME NEW r \in Requests,
               \/ ConnectHttp(r) \/ ConnectHttps(r) \/ AuthenticationFailed(r)
               \/ Authorize(r) \/ Handle(r)
        PROVE  OneWriter'
    <2>1. Writers' = Writers /\ UNCHANGED <<file, opener, export>>
      BY <1>0, <1>6 DEF ConnectHttp, ConnectHttps, AuthenticationFailed, Authorize,
                        Handle, Goto, Writers, TypeOK, history
    <2>2. ASSUME opener # "none"
          PROVE  /\ at'[opener] \notin {"idle", "validated"}
                 /\ cert'[opener] = cert[opener]
      <3>1. opener \in Requests /\ at[opener] \notin {"idle", "validated"}
        BY <1>0, <2>2 DEF TypeOK, OneWriter
      <3> QED
        BY <1>0, <1>6, <3>1 DEF ConnectHttp, ConnectHttps, AuthenticationFailed, Authorize,
                                Handle, Goto, TypeOK
    <2> QED
      BY <1>4, <2>1, <2>2
  <1>7. CASE UNCHANGED vars
    BY <1>0, <1>7 DEF vars, history, OneWriter, Writers, FileOf
  <1> QED
    BY <1>1, <1>3, <1>5, <1>6, <1>7 DEF Next, Serve

-----------------------------------------------------------------------------
(* The inductive invariant holds in every state of every behaviour. *)
THEOREM IInvHolds == Spec => []IInv
  <1>1. IInv /\ [Next]_vars => IInv'
    BY TypeStep, WayStep, MetStep, OneWriterStep DEF IInv
  <1> QED
    BY InitIInv, <1>1, PTL DEF Spec

(* Only a caller with a trusted certificate is answered by CertsAuthService. *)
THEOREM AuthorizationHolds == Spec => []AuthorizedIsCertified
  <1>1. IInv => AuthorizedIsCertified
    BY DEF IInv, Way, WayOf, AuthorizedIsCertified
  <1> QED
    BY <1>1, IInvHolds, PTL

(* A certified caller is turned away for a failure of its own export, or, on  *)
(* a system that enforces shares, for a file that another had open.           *)
THEOREM CollisionHolds == Spec => []TurnedAwayAtFile
  <1>1. IInv => TurnedAwayAtFile
    BY DEF IInv, Met, NotLetIn, Opened, TurnedAwayAtFile
  <1> QED
    BY <1>1, IInvHolds, PTL

(* Where shares are enforced ccc.pfx is of one certificate, that of the last  *)
(* who opened it, and whole if that one was let in.                           *)
THEOREM FileHolds == Spec => []FileIsOneCert
  <1>1. IInv => FileIsOneCert
    BY DEF IInv, OneWriter, FileOf, FileIsOneCert
  <1> QED
    BY <1>1, IInvHolds, PTL

-----------------------------------------------------------------------------
(* Liveness.  The provers know nothing of ENABLED, so the theorem takes as   *)
(* hypothesis what TLC finds in every state of the run: a request that has a *)
(* connection and no answer yet can be served on, whoever holds the file.    *)
Pending == {"validated", "writing", "authorize", "handler"}

CanBeServed(r) == at[r] \in Pending => ENABLED <<Serve(r)>>_vars
AllCanBeServed == \A r \in Requests : CanBeServed(r)

(* What is done has its answer. *)
Told == \A r \in Requests : at[r] = "done" => answer[r] # "none"

LEMMA ToldStep == TypeOK /\ Told /\ [Next]_vars => Told'
  <1> SUFFICES ASSUME TypeOK, Told, [Next]_vars PROVE Told'
    OBVIOUS
  <1> USE DEF TypeOK, Told
  <1>1. ASSUME NEW r \in Requests, ConnectHttp(r) \/ ConnectHttps(r)
        PROVE  Told'
    BY <1>1 DEF ConnectHttp, ConnectHttps, Goto, Done
  <1>2. ASSUME NEW r \in Requests, Serve(r)
        PROVE  Told'
    BY <1>2 DEF Serve, OpenFile, AuthenticationFailed, ExportFails, CertificateValidated,
                Authorize, Handle, Goto, Done
  <1>3. CASE UNCHANGED vars
    BY <1>3 DEF vars
  <1> QED
    BY <1>1, <1>2, <1>3 DEF Next

LEMMA ToldHolds == Spec => [](TypeOK /\ Told)
  <1>1. Init => Told
    BY DEF Init, Told
  <1>2. IInv => TypeOK
    BY DEF IInv
  <1> QED
    BY <1>1, <1>2, IInvHolds, ToldStep, PTL DEF Spec

(* Where a request goes from each place, and that only Serve takes it there. *)
Onward(p) == CASE p = "validated" -> {"writing", "authorize"}
               [] p = "writing" -> {"authorize"}
               [] p = "authorize" -> {"handler", "done"}
               [] p = "handler" -> {"done"}

LEMMA ServeGoesOn ==
    ASSUME TypeOK, NEW r \in Requests, Serve(r)
    PROVE  at[r] \in Pending /\ at'[r] \in Onward(at[r])
  BY DEF Serve, OpenFile, AuthenticationFailed, ExportFails, CertificateValidated, Authorize,
         Handle, Goto,
         TypeOK, Pending, Onward

LEMMA OnlyServeGoesOn ==
    ASSUME TypeOK, NEW r \in Requests, [Next]_vars, at[r] \in Pending
    PROVE  at'[r] = at[r] \/ at'[r] \in Onward(at[r])
  <1>1. ASSUME NEW q \in Requests, ConnectHttp(q) \/ ConnectHttps(q)
        PROVE  at'[r] = at[r]
    BY <1>1 DEF ConnectHttp, ConnectHttps, Goto, TypeOK, Pending
  <1>2. ASSUME NEW q \in Requests, Serve(q), q # r
        PROVE  at'[r] = at[r]
    BY <1>2 DEF Serve, OpenFile, AuthenticationFailed, ExportFails, CertificateValidated,
                Authorize, Handle, Goto, TypeOK
  <1>3. CASE UNCHANGED vars
    BY <1>3 DEF vars
  <1> QED
    BY <1>1, <1>2, <1>3, ServeGoesOn DEF Next

(* The step of a request from one place to the next. *)
PassesOn(r, p) == at[r] = p ~> at[r] \in Onward(p)

LEMMA Passes ==
    ASSUME NEW r \in Requests, NEW p \in Pending
    PROVE  Spec /\ []AllCanBeServed => PassesOn(r, p)
  <1> DEFINE In   == at[r] = p
             Left == at[r] \in Onward(p)
  <1>1. TypeOK /\ In /\ [Next]_vars => In' \/ Left'
    BY OnlyServeGoesOn
  <1>2. TypeOK /\ In /\ <<Serve(r)>>_vars => Left'
    BY ServeGoesOn
  <1>3. AllCanBeServed /\ In => ENABLED <<Serve(r)>>_vars
    BY DEF AllCanBeServed, CanBeServed
  <1>4. Spec => Fair(r)
    BY DEF Spec
  <1> HIDE DEF In, Left
  <1>5. Spec /\ []AllCanBeServed => (In ~> Left)
    BY <1>1, <1>2, <1>3, <1>4, ToldHolds, PTL DEF Spec, Fair
  <1> QED
    BY <1>5 DEF In, Left, PassesOn

(* Every request that has a connection is answered, for any number of them   *)
(* side by side and with file shares enforced or not: the collision on       *)
(* ccc.pfx delays and blocks nobody.                                         *)
THEOREM AnswersArrive == Spec /\ []AllCanBeServed => EveryoneAnswered
  <1>1. ASSUME NEW r \in Requests
        PROVE  Spec /\ []AllCanBeServed => (at[r] # "idle" ~> answer[r] # "none")
    <2> DEFINE At(p) == at[r] = p
    <2>1. TypeOK /\ Told =>
            /\ at[r] # "idle" => \/ At("validated") \/ At("writing") \/ At("authorize")
                                 \/ At("handler") \/ At("done")
            /\ At("done") => answer[r] # "none"
      BY DEF TypeOK, Told
    <2>2. /\ at[r] \in Onward("validated") => At("writing") \/ At("authorize")
          /\ at[r] \in Onward("writing") => At("authorize")
          /\ at[r] \in Onward("authorize") => At("handler") \/ At("done")
          /\ at[r] \in Onward("handler") => At("done")
      BY DEF Onward
    <2>3. Spec /\ []AllCanBeServed => /\ PassesOn(r, "validated") /\ PassesOn(r, "writing")
                                      /\ PassesOn(r, "authorize") /\ PassesOn(r, "handler")
      BY Passes DEF Pending
    <2> QED
      BY <2>1, <2>2, <2>3, ToldHolds, PTL DEF PassesOn
  <1> QED
    BY <1>1 DEF EveryoneAnswered
=============================================================================
