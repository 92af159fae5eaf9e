------------------------------- MODULE CertAuth -------------------------------
(***************************************************************************)
(* AspCertsDemo: the way of a request through Kestrel, the certificate     *)
(* authentication with its two events, the authorization of the service,   *)
(* and the handler.                                                        *)
(*                                                                         *)
(* Every https request writes the caller's certificate to the one file     *)
(* ccc.pfx while it is authenticated, and requests are authenticated side  *)
(* by side.  File.WriteAllBytes opens the file with FileShare.Read: where  *)
(* shares are enforced (Windows) a second writer gets an IOException, else *)
(* both write.  The export can also fail by itself, before the file is     *)
(* open (rights, a reader from outside) or with part of it written (the    *)
(* disk is full).  The handler of ASP.NET Core passes an exception of the  *)
(* event to OnAuthenticationFailed, whatever it is.                        *)
(***************************************************************************)
EXTENDS Naturals, Sequences

CONSTANTS
    Requests,  \* the requests under way
    Size       \* [certificate -> blocks of its pfx]

\* client.pfx, signed by hand; one that MakeCert signed; one of another CA.
Certs == {"client", "made", "foreign"}
Trusted == {"client", "made"}

\* AspCertsMake is open to all, and so is Greeter, which goes the same way and
\* leaves nothing behind.  AspCertsAuth is [Authorize], its SayHello and its
\* SetAuth alike.
Methods == {"Make.MakeCert", "Auth"}
Authorized == {"Auth"}

ASSUME SizeAssumption == Size \in [Certs -> Nat \ {0}]

VARIABLES
    enforced, \* the system enforces FileShare: Windows
    at,       \* where each request is
    method,   \* what it calls, once it has a connection
    cert,     \* the client certificate of its connection, "none" over http
    user,     \* authentication succeeded: HttpContext.User is the certificate's
    answer,   \* what the caller got
    file,     \* ccc.pfx, as blocks
    issued,   \* MakeCert has answered a caller
    opener,   \* history: the request that opened the file last, or "none"
    export    \* history: how each request's export ended

history == <<opener, export>>
vars == <<enforced, at, method, cert, user, answer, file, issued, history>>

Init ==
    /\ enforced \in BOOLEAN
    /\ at = [r \in Requests |-> "idle"]
    /\ method = [r \in Requests |-> "none"]
    /\ cert = [r \in Requests |-> "none"]
    /\ user = [r \in Requests |-> FALSE]
    /\ answer = [r \in Requests |-> "none"]
    /\ file = <<>>
    /\ issued = FALSE
    /\ opener = "none"
    /\ export = [r \in Requests |-> "none"]

Goto(r, from, to) == at[r] = from /\ at' = [at EXCEPT ![r] = to]
Done(r, a) == answer' = [answer EXCEPT ![r] = a]
Calls(r) == \E m \in Methods : method' = [method EXCEPT ![r] = m]

-----------------------------------------------------------------------------
\* http, port 5060: no certificate, and no result of the authentication.
ConnectHttp(r) ==
    /\ Goto(r, "idle", "authorize") /\ Calls(r)
    /\ UNCHANGED <<enforced, cert, user, answer, file, issued, history>>

\* https, port 7087: RequireCertificate, and Kestrel validates its chain.
ConnectHttps(r) ==
    /\ \E c \in Certs \cup {"none"} :
         /\ c = "made" => issued
         /\ \/ /\ c \in Trusted
               /\ cert' = [cert EXCEPT ![r] = c]
               /\ Goto(r, "idle", "validated") /\ Calls(r)
               /\ UNCHANGED answer
            \/ /\ c \notin Trusted
               /\ Goto(r, "idle", "done") /\ Done(r, "no connection")
               /\ UNCHANGED <<method, cert>>
    /\ UNCHANGED <<enforced, user, file, issued, history>>

Writers == {r \in Requests : at[r] = "writing"}

\* Mutant: the file is opened without truncation.
OpenFileUntruncated(r) ==
    /\ Writers = {} \/ ~enforced
    /\ Goto(r, "validated", "writing")
    /\ opener' = r
    /\ UNCHANGED <<enforced, method, cert, user, answer, file, issued, export>>

\* OnCertificateValidated: WriteAllBytes creates or truncates the file.
OpenFile(r) ==
    /\ Writers = {} \/ ~enforced
    /\ Goto(r, "validated", "writing")
    /\ file' = <<>>
    /\ opener' = r
    /\ UNCHANGED <<enforced, method, cert, user, answer, issued, export>>

\* Mutant: the principal is set before the export.
AuthenticationFailedWithUser(r) ==
    /\ enforced /\ Writers # {}
    /\ Goto(r, "validated", "authorize")
    /\ user' = [user EXCEPT ![r] = TRUE]
    /\ UNCHANGED <<enforced, method, cert, answer, file, issued, history>>

\* The file is open elsewhere: OnAuthenticationFailed, context.Fail("aa").
AuthenticationFailed(r) ==
    /\ enforced /\ Writers # {}
    /\ Goto(r, "validated", "authorize")
    /\ UNCHANGED <<enforced, method, cert, user, answer, file, issued, history>>

\* The first n blocks of a pfx, over what the file holds.
Overwrite(old, c, n) ==
    [b \in 1..(IF n > Len(old) THEN n ELSE Len(old)) |-> IF b <= n THEN c ELSE old[b]]

Exported(r, how) == export' = [export EXCEPT ![r] = how]

\* The export fails by itself, before or after the file is open.
ExportFails(r) ==
    /\ \/ Goto(r, "validated", "authorize") /\ Exported(r, "not opened") /\ UNCHANGED file
       \/ /\ Goto(r, "writing", "authorize") /\ Exported(r, "broken off")
          /\ \E n \in 0..Size[cert[r]] : file' = Overwrite(file, cert[r], n)
    /\ UNCHANGED <<enforced, method, cert, user, answer, issued, opener>>

\* Mutant: the principal is never set.
CertificateValidatedNoUser(r) ==
    /\ Goto(r, "writing", "authorize")
    /\ file' = Overwrite(file, cert[r], Size[cert[r]])
    /\ UNCHANGED <<enforced, method, cert, user, answer, issued, history>>

\* The bytes are written, the file is closed, the principal is set.
CertificateValidated(r) ==
    /\ Goto(r, "writing", "authorize")
    /\ file' = Overwrite(file, cert[r], Size[cert[r]])
    /\ user' = [user EXCEPT ![r] = TRUE]
    /\ Exported(r, "written")
    /\ UNCHANGED <<enforced, method, cert, answer, issued, opener>>

\* Mutant: nobody answers a request that is not authenticated.
AuthorizeUsersOnly(r) ==
    /\ method[r] \in Authorized => user[r]
    /\ Goto(r, "authorize", "handler")
    /\ UNCHANGED <<enforced, method, cert, user, answer, file, issued, history>>

\* [Authorize] without a user: the certificate handler answers 403.
Authorize(r) ==
    /\ \/ /\ method[r] \in Authorized /\ ~user[r]
          /\ Goto(r, "authorize", "done")
          /\ Done(r, "forbidden")
       \/ /\ method[r] \in Authorized => user[r]
          /\ Goto(r, "authorize", "handler")
          /\ UNCHANGED answer
    /\ UNCHANGED <<enforced, method, cert, user, file, issued, history>>

\* SayHello and SetAuth answer; MakeCert signs a certificate for any caller.
Handle(r) ==
    /\ Goto(r, "handler", "done")
    /\ Done(r, "ok")
    /\ issued' = (issued \/ method[r] = "Make.MakeCert")
    /\ UNCHANGED <<enforced, method, cert, user, file, history>>

Serve(r) == \/ OpenFile(r) \/ AuthenticationFailed(r) \/ ExportFails(r)
            \/ CertificateValidated(r) \/ Authorize(r) \/ Handle(r)

Next == \E r \in Requests : ConnectHttp(r) \/ ConnectHttps(r) \/ Serve(r)

\* The thread pool serves every request it has taken.
Fair(r) == WF_vars(Serve(r))

Spec == Init /\ [][Next]_vars /\ \A r \in Requests : Fair(r)

-----------------------------------------------------------------------------
(* Properties. *)

\* The type invariant: the request's way and the contents of ccc.pfx.
TypeOK ==
    /\ enforced \in BOOLEAN
    /\ at \in [Requests -> {"idle", "validated", "writing", "authorize", "handler", "done"}]
    /\ method \in [Requests -> Methods \cup {"none"}]
    /\ cert \in [Requests -> Certs \cup {"none"}]
    /\ user \in [Requests -> BOOLEAN]
    /\ answer \in [Requests -> {"none", "ok", "forbidden", "no connection"}]
    /\ file \in Seq(Certs)
    /\ issued \in BOOLEAN
    /\ opener \in Requests \cup {"none"}
    /\ export \in [Requests -> {"none", "not opened", "broken off", "written"}]

\* CertsAuthService answers only callers whose connection showed a certificate
\* of the trusted root and whose own event ran to its end: neither http nor a
\* failed write of ccc.pfx gets past [Authorize].
AuthorizedIsCertified ==
    \A r \in Requests :
      answer[r] = "ok" /\ method[r] \in Authorized =>
        cert[r] \in Trusted /\ export[r] = "written"

\* A certified caller whose own export did not fail is turned away only where
\* shares are enforced, and for a file that another one had open: of the
\* requests that collide on ccc.pfx one is let in, if it can write.
TurnedAwayAtFile ==
    \A r \in Requests :
      answer[r] = "forbidden" /\ cert[r] \in Trusted /\ export[r] = "none" =>
        /\ enforced
        /\ \E q \in Requests \ {r} :
             at[q] = "writing" \/ export[q] \in {"written", "broken off"}

\* With enforced shares ccc.pfx is never a mixture: when nobody writes it, it
\* is of the one who opened it last, whole if that caller was let in, and cut
\* short only by a write that failed.
FileIsOneCert ==
    enforced /\ Writers = {} /\ opener # "none" =>
      \E n \in 0..Size[cert[opener]] :
        /\ file = [b \in 1..n |-> cert[opener]]
        /\ export[opener] = "written" => n = Size[cert[opener]]

\* Every request that has a connection is answered: the collision delays and
\* blocks nobody.
EveryoneAnswered == \A r \in Requests : at[r] # "idle" ~> answer[r] # "none"
=============================================================================
