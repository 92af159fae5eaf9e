------------------------------- MODULE PageRouter -------------------------------
(***************************************************************************)
(* One tab of a browser with one of the repository's web pages in it: the  *)
(* documents loaded into it one after the other, and in the two Vue        *)
(* projects the navigations of vue-router inside a document.               *)
(*                                                                         *)
(* A navigation is a number.  One that must first import its page lasts;   *)
(* the next one begins before it ends, overtakes it, and the two meet in   *)
(* v2demo's own Router.push, which has an opinion on how a push may fail.  *)
(***************************************************************************)
EXTENDS Naturals

CONSTANTS
    Paths,      \* what is typed or pushed
    MaxNavs,    \* bound: navigations in a document
    MaxResets,  \* bound: calls of Router.reset in a document
    MaxLoads    \* bound: documents loaded into the tab

ASSUME BoundsAssumption == MaxNavs \in Nat \ {0} /\ MaxResets \in Nat /\ MaxLoads \in Nat

-----------------------------------------------------------------------------
(* The routes, in the order in which a path is looked up in them.  A page  *)
(* found in the source tree gets the kebab case of its directory and name. *)

Route(paths, page, lazy) == [paths |-> paths, page |-> page, lazy |-> lazy]

\* The route written down comes first and keeps /index.html from the second.
\* The last row is no route: the view stays empty.
V2Routes ==
    << Route({"/", "/index.html"}, "IndexPage", TRUE),
       Route({"/index", "/index.html"}, "IndexPage", FALSE),
       Route({"/aspnet-demo", "/aspnet-demo.html"}, "DemoPage", FALSE),
       Route({"/employee-listing", "/employee-listing.html"}, "ListingPage", FALSE),
       Route(Paths, "blank", FALSE) >>

\* Vue-router 4 ranks the catch-all last, though it is pushed second.
V3Routes ==
    << Route({"/", "/index.html"}, "Index", TRUE),
       Route({"/grpc", "/grpc.html"}, "GrpcPage", TRUE),
       Route({"/improbable-grpc", "/improbable-grpc.html"}, "ImprobableGrpcPage", TRUE),
       Route(Paths, "NotFound", TRUE) >>

Routes == [v2demo |-> V2Routes, v3demo |-> V3Routes]
Routed == DOMAIN Routes

\* The first route with a path.
Matched ==
    [a \in Routed |->
       [p \in Paths |-> CHOOSE r \in DOMAIN Routes[a] :
                          /\ p \in Routes[a][r].paths
                          /\ \A q \in 1..(r - 1) : p \notin Routes[a][q].paths]]

\* Pages whose script is all there is.
Scripts == {"webpackgrpc", "vitetsgrpc", "grpcdemo"}

Navs == 1..MaxNavs

VARIABLES
    app,       \* whose page it is
    shared,    \* v2demo: the directory src/components is there
    loads,     \* documents loaded so far
    tab,       \* "closed", "open" or "broken": the script threw
    last,      \* the newest navigation, Router.history.pending
    target,    \* the path of each
    made,      \* the matcher each was matched by
    went,      \* how each went
    here,      \* the one that led to what is shown, 0 is START
    gen,       \* the matcher now, counted by Router.reset
    loaded,    \* lazy routes, with their matcher, whose page has been imported
    promise,   \* what each push has returned to its caller
    reported,  \* pushes whose failure the browser reported as unhandled
    task       \* awaitTask of v2demo

navVars == <<last, target, made, went, here, promise, reported>>
routerVars == <<app, shared, loads, tab, navVars, gen, loaded, task>>

RouteOf(p) == Matched[app][p]

PageOf(p) == Routes[app][RouteOf(p)].page

\* Mutant: the root is mounted only when the hooks of App.vue are over.
MountedAwaited == tab = "open" /\ task # "running"

\* The root is mounted in the same step in which main.js runs.
Mounted == tab = "open"

\* What the tab shows.
Shown == IF ~ Mounted THEN "none"
         ELSE IF app \in Scripts THEN app
         ELSE IF here = 0 THEN "none" ELSE PageOf(target[here])

RouterInit ==
    /\ app \in Routed \cup Scripts /\ shared \in BOOLEAN
    /\ app # "v2demo" => shared
    /\ loads = 0 /\ tab = "closed"
    /\ last = 0 /\ here = 0 /\ gen = 0 /\ loaded = {} /\ reported = {}
    /\ target = [n \in Navs |-> "none"] /\ made = [n \in Navs |-> 0]
    /\ went = [n \in Navs |-> "none"] /\ promise = [n \in Navs |-> "none"]
    /\ task = "none"

-----------------------------------------------------------------------------
(* Documents. *)

Lazy(p) == Routes[app][RouteOf(p)].lazy

\* loader.js registers what it finds in src/components and throws when that is
\* not there, as in this repository; only v2demo has it.
ComponentsFound == app = "v2demo" => shared

\* A document is loaded, the one before it is gone with all that was going on
\* in it.  main.js runs to its end in one step: the timer of awaitTask, the
\* global components, the first navigation and the mount; the hooks of App.vue go on later.
Open(p) ==
    /\ loads < MaxLoads /\ loads' = loads + 1
    /\ tab' = IF ComponentsFound THEN "open" ELSE "broken"
    /\ task' = IF app = "v2demo" THEN "running" ELSE "none"
    /\ LET starts == app \in Routed /\ tab' = "open"
           waits == starts /\ Lazy(p)
       IN  /\ last' = IF starts THEN 1 ELSE 0
           /\ here' = IF starts /\ ~ waits THEN 1 ELSE 0
           /\ target' = [n \in Navs |-> IF starts /\ n = 1 THEN p ELSE "none"]
           /\ went' = [n \in Navs |-> IF starts /\ n = 1 THEN (IF waits THEN "loading" ELSE "there")
                                      ELSE "none"]
    /\ made' = [n \in Navs |-> 0] /\ promise' = [n \in Navs |-> "none"]
    /\ gen' = 0 /\ loaded' = {} /\ reported' = {}
    /\ UNCHANGED <<app, shared>>

\* setTimeout of ten seconds; created and beforeMount go on.
TaskEnds == task = "running" /\ task' = "over"
            /\ UNCHANGED <<app, shared, loads, tab, navVars, gen, loaded>>

-----------------------------------------------------------------------------
(* Navigations of v2demo after the first.  None of the pages has a link:   *)
(* they come from the console and from code to be written on top.          *)

\* Router.push: super.push resolves or rejects, and whoever called gets a
\* promise that resolves; a rejection not for the route one is on already is
\* thrown into a second promise, which nobody holds.
Returned(was, ends) == IF was = "pending" /\ ends # "loading" THEN "resolved" ELSE was
Thrown(was, ends) == was = "pending" /\ ends \notin {"loading", "there", "duplicate"}

\* transitionTo.  A route equal to the one shown is a duplicate, but only of
\* the same matcher's; the pending navigation is overtaken even so.
Navigate(p, first) ==
    LET n == last + 1
        same == /\ here # 0 /\ target[here] = p
                /\ made[here] = gen \/ PageOf(p) = "blank"
        waits == Lazy(p) /\ <<gen, RouteOf(p)>> \notin loaded
        ends == IF same THEN "duplicate" ELSE IF waits THEN "loading" ELSE "there"
    IN  /\ app = "v2demo" /\ tab = "open" /\ n \in Navs /\ last' = n
        /\ target' = [target EXCEPT ![n] = p] /\ made' = [made EXCEPT ![n] = gen]
        /\ went' = [went EXCEPT ![n] = ends]
        /\ here' = IF ends = "there" THEN n ELSE here
        /\ promise' = [promise EXCEPT ![n] = Returned(first, ends)]
        /\ UNCHANGED <<app, shared, loads, tab, gen, loaded, reported, task>>

Push(p) == Navigate(p, "pending")

\* Back and forward, to a path the tab has been at.
Pop(p) == /\ \E n \in 1..last : n # here /\ target[n] = p /\ went[n] = "there"
          /\ Navigate(p, "none")

\* The import of a lazy page is there: it counts for the record of its own
\* matcher, and the tab goes there unless another navigation has begun.
LoadEnds(n) ==
    LET ends == IF n = last THEN "there" ELSE "overtaken"
    IN  /\ went[n] = "loading" /\ went' = [went EXCEPT ![n] = ends]
        /\ loaded' = loaded \cup {<<made[n], RouteOf(target[n])>>}
        /\ here' = IF ends = "there" THEN n ELSE here
        /\ promise' = [promise EXCEPT ![n] = Returned(@, ends)]
        /\ reported' = IF Thrown(promise[n], ends) THEN reported \cup {n} ELSE reported
        /\ UNCHANGED <<app, shared, loads, tab, last, target, made, gen, task>>

\* v3demo fetches its pages one by one, and two of them need a require that
\* vite does not give them.  v2demo's are in the bundle.
LoadFails(n) ==
    /\ app = "v3demo" /\ went[n] = "loading" /\ went' = [went EXCEPT ![n] = "failed"]
    /\ UNCHANGED <<app, shared, loads, tab, last, target, made, here, promise, reported,
                   gen, loaded, task>>

LoadOver(n) == LoadEnds(n) \/ LoadFails(n)

\* Mutant: the fresh router's history is taken over with its matcher.
ResetHistory ==
    /\ app = "v2demo" /\ tab = "open" /\ gen < MaxResets /\ gen' = gen + 1 /\ here' = 0
    /\ UNCHANGED <<app, shared, loads, tab, last, target, made, went, promise, reported,
                   loaded, task>>

\* Router.reset: a fresh matcher, with records that nothing is loaded for.
Reset ==
    /\ app = "v2demo" /\ tab = "open" /\ gen < MaxResets /\ gen' = gen + 1
    /\ UNCHANGED <<app, shared, loads, tab, navVars, loaded, task>>

-----------------------------------------------------------------------------
InDocument ==
    \/ TaskEnds \/ Reset
    \/ \E p \in Paths : Push(p) \/ Pop(p)
    \/ \E n \in Navs : LoadOver(n)

RouterNext == InDocument \/ \E p \in Paths : Open(p)

\* An import ends, this way or the other.  Nothing is asked of the timer.
LoadFair(n) == WF_routerVars(LoadOver(n))
RouterFairness == \A n \in Navs : LoadFair(n)

RouterSpec == RouterInit /\ [][RouterNext]_routerVars /\ RouterFairness

-----------------------------------------------------------------------------
(* Properties. *)

\* The type invariant.
RouterTypeOK ==
    /\ app \in Routed \cup Scripts /\ shared \in BOOLEAN
    /\ loads \in 0..MaxLoads /\ tab \in {"closed", "open", "broken"}
    /\ last \in 0..MaxNavs /\ here \in 0..last
    /\ target \in [Navs -> Paths \cup {"none"}] /\ made \in [Navs -> 0..MaxResets]
    /\ went \in [Navs -> {"none", "loading", "there", "duplicate", "overtaken", "failed"}]
    /\ promise \in [Navs -> {"none", "pending", "resolved"}]
    /\ reported \subseteq Navs /\ gen \in 0..MaxResets
    /\ task \in {"none", "running", "over"}

\* The newest navigation decides what is shown, however long the import of an
\* older one lasts, whatever Router.reset does to the routes meanwhile, and also
\* when it found the tab there already and was rejected for it.
LastNavigationWins ==
    last # 0 /\ went[last] \in {"there", "duplicate"} => here # 0 /\ target[here] = target[last]

Unfetched == \E n \in Navs : went[n] = "failed"

\* The hooks created and beforeMount of App.vue await a task of ten seconds and
\* nothing awaits them: a page is shown, or could not be fetched, also in a
\* browser whose timer never fires.
ShownAnyway ==
    (app \in Routed /\ tab = "open") ~> (Shown # "none" \/ Unfetched)

\* The comment on Router.push, router.js:21: it catches the exception that the
\* same route causes.  So whoever sees the promise resolve is there.
ResolvedIsThere ==
    \A n \in Navs : promise[n] = "resolved" => went[n] \in {"there", "duplicate"}
=============================================================================
