------------------------------ MODULE Lifecycle ------------------------------
(***************************************************************************)
(* The life of a server process: main.run (server/cmd/remotelauncher) with *)
(* its configuration (module Config), its two http.Servers - the API for   *)
(* the phone, and the admin page when web.enabled - and the service        *)
(* manager that runs it as packaging/remotelauncher.service says.          *)
(*                                                                         *)
(* main waits in a select for a listener's error or a signal, then shuts   *)
(* the servers down one after the other within one grace period.  Returning *)
(* from main ends every goroutine wherever it is.  The service manager is  *)
(* external: it restarts after a failure, not after a clean exit, and with *)
(* no KillMode in the unit it clears the unit's control group, in which    *)
(* the applications run that the server launched.                          *)
(***************************************************************************)
EXTENDS Config

CONSTANTS Apps,         \* applications that phones launch
          MaxBusy       \* bound: requests in progress on a server

ASSUME LifeAssumption == MaxBusy \in Nat \ {0}

VARIABLES
    unit,       \* the service manager's view
    main,       \* where main.run stands
    setup,      \* the surroundings of its start,
    cfg,        \* and the configuration made of them
    api, web,   \* the two http.Servers
    apiBusy, webBusy,       \* their requests in progress
    apiErr, webErr,         \* the channels serverErr and webErr
    signalled,  \* ctx is done
    grace,      \* shutdownCtx
    apps,       \* launched applications that run
    lastExit,   \* history: how the last process ended,
    apiCut      \* history: and how many API requests it left unanswered

servers == <<api, web, apiBusy, webBusy, apiErr, webErr>>
history == <<lastExit, apiCut>>
vars == <<unit, main, setup, cfg, servers, signalled, grace, apps, history>>

TypeOK ==
    /\ unit \in {"inactive", "active", "stopping", "restarting"}
    /\ main \in {"off", "serve", "drainApi", "drainWeb"}
    /\ setup \in Setups
    /\ cfg \in {Refused, Load(setup)}
    /\ api \in {"off", "starting", "listening", "closed"}
    /\ web \in {"off", "starting", "listening", "closed"}
    /\ apiBusy \in 0..MaxBusy /\ webBusy \in 0..MaxBusy
    /\ apiErr \in {"open", "err"} /\ webErr \in {"open", "err", "closed"}
    /\ signalled \in BOOLEAN
    /\ grace \in {"none", "running", "expired"}
    /\ apps \in SUBSET Apps
    /\ lastExit \in {"none", "clean", "failure", "killed"}
    /\ apiCut \in 0..MaxBusy

Init ==
    /\ unit = "inactive" /\ main = "off"
    /\ setup \in Setups /\ cfg = Refused
    /\ api = "off" /\ web = "off"
    /\ apiBusy = 0 /\ webBusy = 0
    /\ apiErr = "open" /\ webErr = "open"
    /\ signalled = FALSE /\ grace = "none"
    /\ apps = {}
    /\ lastExit = "none" /\ apiCut = 0

-----------------------------------------------------------------------------
(* Start and exit.                                                          *)

\* run up to its select.  Without the admin page webErr is closed at once.
Start ==
    /\ unit \in {"inactive", "restarting"}
    /\ unit' = "active"
    /\ main' = "serve"
    /\ setup' \in Setups
    /\ cfg' = Load(setup')
    /\ cfg' # Refused
    /\ api' = "starting"
    /\ web' = IF cfg'.web THEN "starting" ELSE "off"
    /\ apiErr' = "open"
    /\ webErr' = IF cfg'.web THEN "open" ELSE "closed"
    /\ signalled' = FALSE
    /\ grace' = "none"
    /\ UNCHANGED <<apiBusy, webBusy, apps, history>>

\* run returns before it serves: configuration, certificate, or a store file.
StartFails ==
    /\ unit \in {"inactive", "restarting"}
    /\ unit' = "restarting"
    /\ lastExit' = "failure" /\ apiCut' = 0
    /\ UNCHANGED <<main, setup, cfg, servers, signalled, grace, apps>>

\* main returns, or the process is killed.  Restart=on-failure.
Exit(how) ==
    /\ main' = "off"
    /\ unit' = IF how = "clean" \/ unit = "stopping"
               THEN "inactive" ELSE "restarting"
    /\ api' = "off" /\ web' = "off"
    /\ apiBusy' = 0 /\ webBusy' = 0
    /\ apps' = {}
    /\ lastExit' = how
    /\ apiCut' = apiBusy
    /\ UNCHANGED <<setup, cfg, apiErr, webErr, signalled, grace>>

Killed == main # "off" /\ Exit("killed")

-----------------------------------------------------------------------------
(* Signals: ctx is done at the first one, the others are swallowed.         *)

\* Ctrl-C, kill, or the end of the graphical session.
Signal ==
    /\ main # "off"
    /\ signalled' = TRUE
    /\ UNCHANGED <<unit, main, setup, cfg, servers, grace, apps, history>>

\* systemctl stop.
Stop ==
    /\ unit = "active"
    /\ unit' = "stopping"
    /\ signalled' = TRUE
    /\ UNCHANGED <<main, setup, cfg, servers, grace, apps, history>>

-----------------------------------------------------------------------------
(* The servers' goroutines.                                                 *)

ApiListens ==
    /\ api = "starting"
    /\ api' = "listening"
    /\ UNCHANGED <<unit, main, setup, cfg, web, apiBusy, webBusy, apiErr, webErr,
                   signalled, grace, apps, history>>

\* Mutant: the error is logged and not sent.
ApiFailsSilently ==
    /\ api \in {"starting", "listening"}
    /\ api' = "closed"
    /\ UNCHANGED <<unit, main, setup, cfg, web, apiBusy, webBusy, apiErr, webErr,
                   signalled, grace, apps, history>>

\* ListenAndServeTLS returns an error: a port in use, a broken listener.
ApiFails ==
    /\ api \in {"starting", "listening"}
    /\ api' = "closed"
    /\ apiErr' = "err"
    /\ UNCHANGED <<unit, main, setup, cfg, web, apiBusy, webBusy, webErr,
                   signalled, grace, apps, history>>

WebListens ==
    /\ web = "starting"
    /\ web' = "listening"
    /\ UNCHANGED <<unit, main, setup, cfg, api, apiBusy, webBusy, apiErr, webErr,
                   signalled, grace, apps, history>>

\* Mutant: the error is logged, the channel closed without it.
WebFailsWithoutError ==
    /\ web \in {"starting", "listening"}
    /\ web' = "closed"
    /\ webErr' = "closed"
    /\ UNCHANGED <<unit, main, setup, cfg, api, apiBusy, webBusy, apiErr,
                   signalled, grace, apps, history>>

WebFails ==
    /\ web \in {"starting", "listening"}
    /\ web' = "closed"
    /\ webErr' = "err"
    /\ UNCHANGED <<unit, main, setup, cfg, api, apiBusy, webBusy, apiErr,
                   signalled, grace, apps, history>>

ApiRequest ==
    /\ api = "listening"
    /\ apiBusy < MaxBusy
    /\ apiBusy' = apiBusy + 1
    /\ UNCHANGED <<unit, main, setup, cfg, api, web, webBusy, apiErr, webErr,
                   signalled, grace, apps, history>>

\* A request is answered; it may have launched an application.
ApiDone ==
    /\ apiBusy > 0
    /\ apiBusy' = apiBusy - 1
    /\ \/ UNCHANGED apps
       \/ \E a \in Apps : apps' = apps \cup {a}
    /\ UNCHANGED <<unit, main, setup, cfg, api, web, webBusy, apiErr, webErr,
                   signalled, grace, history>>

WebRequest ==
    /\ web = "listening"
    /\ webBusy < MaxBusy
    /\ webBusy' = webBusy + 1
    /\ UNCHANGED <<unit, main, setup, cfg, api, web, apiBusy, apiErr, webErr,
                   signalled, grace, apps, history>>

WebDone ==
    /\ webBusy > 0
    /\ webBusy' = webBusy - 1
    /\ UNCHANGED <<unit, main, setup, cfg, api, web, apiBusy, apiErr, webErr,
                   signalled, grace, apps, history>>

AppExits(a) ==
    /\ a \in apps
    /\ apps' = apps \ {a}
    /\ UNCHANGED <<unit, main, setup, cfg, servers, signalled, grace, history>>

-----------------------------------------------------------------------------
(* The select, and the two shutdowns.                                       *)

\* A listener's error ends the process without any Shutdown.
SelectError ==
    /\ main = "serve"
    /\ apiErr = "err" \/ webErr = "err"
    /\ Exit("failure")

\* srv.Shutdown closes the listener at once; one that has not opened it yet
\* never will.  A nil from the closed webErr leads here as a signal does.
BeginShutdown ==
    /\ main = "serve"
    /\ signalled \/ webErr = "closed"
    /\ main' = "drainApi"
    /\ grace' = "running"
    /\ api' = "closed"
    /\ UNCHANGED <<unit, setup, cfg, web, apiBusy, webBusy, apiErr, webErr,
                   signalled, apps, history>>

\* srv.Shutdown returns nil: no request is in progress.  Then webSrv's turn.
ApiDrained ==
    /\ main = "drainApi"
    /\ apiBusy = 0
    /\ IF cfg.web
       THEN /\ main' = "drainWeb"
            /\ web' = "closed"
            /\ UNCHANGED <<unit, setup, cfg, api, apiBusy, webBusy, apiErr, webErr,
                           signalled, grace, apps, history>>
       ELSE Exit("clean")

\* Mutant: Shutdown is given a context without deadline.
ApiWaitsForever ==
    /\ main = "drainApi"
    /\ FALSE
    /\ UNCHANGED vars

\* Mutant: the error is a warning, as it is for the admin page.
ApiTimeoutIgnored ==
    /\ main = "drainApi"
    /\ grace = "expired"
    /\ Exit("clean")

\* srv.Shutdown returns the context's error, and run returns it too: the
\* admin page is not shut down.
ApiTimeout ==
    /\ main = "drainApi"
    /\ grace = "expired"
    /\ Exit("failure")

\* webSrv.Shutdown returns; its error is only a warning.
WebDrained ==
    /\ main = "drainWeb"
    /\ webBusy = 0 \/ grace = "expired"
    /\ Exit("clean")

GraceExpires ==
    /\ grace = "running"
    /\ main # "off"
    /\ grace' = "expired"
    /\ UNCHANGED <<unit, main, setup, cfg, servers, signalled, apps, history>>

Main == SelectError \/ BeginShutdown \/ ApiDrained \/ ApiTimeout \/ WebDrained

Next ==
    \/ Start \/ StartFails \/ Killed \/ Signal \/ Stop
    \/ ApiListens \/ ApiFails \/ ApiRequest \/ ApiDone
    \/ WebListens \/ WebFails \/ WebRequest \/ WebDone
    \/ \E a \in Apps : AppExits(a)
    \/ Main \/ GraceExpires

\* The main goroutine runs when it can, and the grace period is finite.  No
\* request has to end and no listener has to open.
Fairness == WF_vars(Main) /\ WF_vars(GraceExpires)

Spec == Init /\ [][Next]_vars
FairSpec == Spec /\ Fairness

-----------------------------------------------------------------------------
(* Properties.                                                              *)

\* Whatever the layers say, what runs serves the unauthenticated admin page on
\* the loopback interface only, gives its requests some time, and its rate
\* limiter admits at least one attempt of an address and no fewer of all.
WhatRunsIsSound ==
    main # "off" =>
        /\ web # "off" => cfg.webAddr = "loopback"
        /\ cfg.timeout > 0
        /\ 0 < cfg.perIP /\ cfg.perIP <= cfg.global

\* What runs is configured by the layers of its start, in their order, and the
\* rules of Validate hold of what they come to together.
RunsAsConfigured == main # "off" => InOrder(cfg, setup) /\ WhatRunsIsSound

\* The server shuts down because it was told to, not of its own accord: a
\* dying listener is an error, and web.enabled is about the admin page only
\* ("local admin UI for filtering which apps the phone sees").
DrainsOnlyWhenTold == main \in {"drainApi", "drainWeb"} => signalled

\* So it is as long as the admin page is on.
PageOnDrainsOnlyWhenTold == main # "off" /\ cfg.web => DrainsOnlyWhenTold

\* An exit with status 0, after which nobody restarts the server, has left
\* no API request unanswered.
CleanExitCutsNothing == lastExit = "clean" => apiCut = 0

\* A signal ends the process, also when requests hang on both servers.
SignalEnds == signalled /\ main # "off" ~> main = "off"

\* The server does not stay half alive: when either listener is gone, the
\* process fails and is restarted, unless a signal came first.  (Without the
\* admin page it ends in any case, see DrainsOnlyWhenTold.)
DeadListenerRestarts ==
    main = "serve" /\ cfg.web /\ (api = "closed" \/ web = "closed") ~>
        unit = "restarting" \/ signalled

\* What the comment on package launcher says: applications are started
\* "detached from the server process so they survive server restarts".
AppsSurviveServer == [][main # "off" /\ main' = "off" => apps' = apps]_vars

=============================================================================
