---------------------------------- MODULE WebTab ----------------------------------
(***************************************************************************)
(* A tab of PageRouter whose pages make the calls of GrpcWeb: at a click   *)
(* on the page that is shown, or when their script runs.  A call outlives  *)
(* the page it was made from, but not the document.                        *)
(***************************************************************************)
EXTENDS GrpcWeb, PageRouter

tabVars == <<vars, front, callVars, routerVars>>

WebInit == Init /\ GrpcWebInit /\ RouterInit

Going == {"asked", "posted", "upstream", "served", "timer", "cut"}

\* Pages with a button that calls.
Clickable == {"IndexPage", "DemoPage", "Index", "GrpcPage", "ImprobableGrpcPage"}

\* Calls are numbered in the order in which they are made.
Ask(c, p) ==
    /\ place[c] = "idle" /\ \A d \in Calls : d < c => place[d] # "idle"
    /\ page' = [page EXCEPT ![c] = p]

Click ==
    /\ Shown \in Clickable
    /\ \E c \in Calls : Ask(c, Shown) /\ place' = [place EXCEPT ![c] = "asked"]
    /\ UNCHANGED <<vars, front, held, served, heard, routerVars>>

\* The calls of the document before are aborted and their callbacks never run;
\* what a server has received of them it keeps.
Reopened(c) == IF place[c] \in Going THEN "dropped" ELSE place[c]

OpenDocument ==
    /\ \E p \in Paths : Open(p)
    /\ place' = [c \in Calls |-> Reopened(c)] /\ UNCHANGED page
    /\ app \notin Scripts
    /\ UNCHANGED <<vars, front, held, served, heard>>

\* The script of the page makes its call, echo("aaaaa") and the like.
OpenScript ==
    /\ app \in Scripts /\ \E p \in Paths : Open(p)
    /\ \E c \in Calls :
         /\ Ask(c, app)
         /\ place' = [d \in Calls |-> IF d = c THEN "asked" ELSE Reopened(d)]
    /\ UNCHANGED <<vars, front, held, served, heard>>

Calling(c) == CallStep(c) /\ UNCHANGED <<vars, routerVars>>
Orphan(c) == OrphanRuns(c) /\ UNCHANGED <<vars, routerVars>>

\* Bound: a server is left alone while the tab shows a project that has no
\* page which calls it.
EnvoyDemo == app \in {"webpackgrpc", "vitetsgrpc"}
HasFront == EnvoyDemo \/ app = "v2demo"

WebNext ==
    \/ Click \/ OpenDocument \/ OpenScript
    \/ InDocument /\ UNCHANGED <<vars, front, callVars>>
    \/ \E c \in Calls : Calling(c) \/ Orphan(c)
    \/ HasFront /\ (FrontDies \/ FrontStarts) /\ UNCHANGED <<vars, routerVars>>
    \/ EnvoyDemo /\ MachineStep /\ UNCHANGED routerVars

\* A call that can go on does.  Neither the servers nor the proxy owe anybody
\* a restart.
CallFair(c) == WF_tabVars(Calling(c))
WebFairness == \A c \in Calls : CallFair(c)

WebSpec == WebInit /\ [][WebNext]_tabVars /\ WebFairness /\ RouterFairness

-----------------------------------------------------------------------------
(* Properties. *)

\* The type invariant.
WebTypeOK ==
    /\ front \in {"up", "down"}
    /\ page \in [Calls -> DOMAIN Page \cup {"none"}]
    /\ place \in [Calls -> Going \cup {"idle", "ok", "failed", "dropped"}]
    /\ held \subseteq Calls /\ served \in [Calls -> Nat]
    /\ heard \in [Calls -> {"no", "page", "framework", "window", "nobody"}]

\* An answer on a page is that of a handler that ran once for it, and no
\* handler runs twice for one click, with the proxy and the server dying and
\* coming back in the middle of calls.  An error says nothing of the handler,
\* which may run yet.
ServedOnce ==
    \A c \in Calls : /\ served[c] <= 1
                     /\ place[c] \in {"timer", "ok"} => served[c] = 1

\* What IndexPage.vue:3 says: a gRPC server cannot be called directly.  No
\* handler ever runs for a page that dials one, in either version.
DirectNeverServed ==
    \A c \in Calls : page[c] \in {"IndexPage", "GrpcPage"} => served[c] = 0

\* Nobody is left with a call that is neither answered nor failed, though no
\* page sets a deadline and the server may hang for good: the page, Vue or the
\* window is told, whichever pages the tab has gone on to.  Only vitetsgrpc
\* looks away.
EveryCallHeard ==
    \A c \in Calls :
      place[c] \in Going ~> \/ place[c] = "dropped"
                            \/ heard[c] \in {"page", "framework", "window"}
                            \/ page[c] = "vitetsgrpc" /\ heard[c] = "nobody"

\* What the readme and the pages say works does, from origin and preflight to
\* the framing of the answer: webpackgrpc by way of a proxy and a server that
\* run, and the ASP.NET page while its server runs, are answered.
WorkingPagesAnswered ==
    \A c \in Calls :
      (/\ [](front = "up" /\ (ByEnvoy(c) => Node({"up"})))
       /\ place[c] = "asked" /\ page[c] \in {"webpackgrpc", "DemoPage"})
      ~> (place[c] = "dropped" \/ (place[c] = "ok" /\ heard[c] = "page"))
-----------------------------------------------------------------------------
(* The promise to the pages. *)

State == [c \in Calls |-> IF place[c] \in Going THEN "going" ELSE place[c]]

Unary == INSTANCE UnaryCall WITH state <- State, handled <- served, told <- heard

\* Every page's call keeps the promise of UnaryCall, with proxy, server and
\* document ending in the middle of it: no handler runs twice for a click, not
\* even for a call that has failed and is handled later; an answer is one a
\* handler gave; whoever made the call is told once, when it ends, and a call
\* that ended or was dropped stays that way.
UnarySpec == Unary!Spec
=============================================================================
