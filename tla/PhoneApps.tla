----------------------------- MODULE PhoneApps -----------------------------
(***************************************************************************)
(* The list of applications: GET /api/apps and POST /api/apps/{id}/launch  *)
(* (server/internal/httpapi), the table of Catalog behind them, and the    *)
(* phone that shows the list and launches from it (AppsViewModel,          *)
(* AppsRepository, Navigation), with overlapping refreshes, time-outs, an  *)
(* operator who hides applications and edits shortcuts meanwhile, restarts *)
(* of the server and tokens that it has forgotten.                         *)
(*                                                                         *)
(* An application's id is <<prefix, id>>.  The order of the list and the   *)
(* Running flag (Tracker) are left out.                                    *)
(***************************************************************************)
EXTENDS Catalog, ExecLine, Icons

CONSTANTS
    ShortcutIds,            \* ids of shortcuts, without the prefix
    InPath,                 \* what an application's id has become when the
                            \* router finds it in the path of the phone's URL:
    Cut,                    \* there is no route that the path fits,
    Malformed,              \* the URL is refused,
                            \* or an id, the same or another
    ArgLists,               \* lists of arguments to be written as Exec lines
    IconRequests,           \* requests for an icon, with the files that there are
    Hideable,               \* bounds: applications that the operator hides,
    MaxRefreshes,           \* refreshes under way at once,
    MaxTokens,              \* tokens the phone gets,
    MaxEvents               \* changes by the operator and restarts

ASSUME ArgListsAssumption == ArgLists \subseteq Texts
ASSUME IconRequestsAssumption == \A r \in IconRequests : IsIconRequest(r)
ASSUME BoundsAssumption == MaxRefreshes \in Nat \ {0} /\ MaxTokens \in Nat \ {0}

VARIABLES
    hidden,                 \* the set of visibility.Store
    shortcuts,              \* the ids of shortcuts.Store
    valid, minted,          \* tokens the server accepts, and the last one made
    get,                    \* refreshes: coroutine and handler of each
    tap,                    \* the launch under way, likewise
    launchInFlight, ui, shown,  \* the view model; shown is the list of Loaded
    screen,                 \* "apps", "pairing" or "connect"
    held,                   \* the token the phone has stored
    suspect,                \* those shown that were removed since, all of them
                            \* after a restart
    events                  \* how many changes and restarts there were

phoneVars == <<launchInFlight, ui, shown, screen, held, suspect>>
adminVars == <<hidden, shortcuts, valid, minted, events>>
vars == <<catalogVars, adminVars, get, tap, phoneVars>>

NoToken == 0
Refreshes == 1..MaxRefreshes   \* the coroutine of a refresh takes the first free place
NetworkError == 0

-----------------------------------------------------------------------------
(* What the server knows.                                                   *)

IDPrefix == "custom:"
App(id) == <<"", id>>

\* Mutant: a shortcut goes by its own id.
PrefixedIDBare(id) == App(id)

PrefixedID(id) == <<IDPrefix, id>>

IsCustom(app) == app[1] = IDPrefix
Bare(app) == app[2]

AppIds == {App(i) : i \in Ids} \cup {<<IDPrefix, c>> : c \in ShortcutIds}

ASSUME HideableAssumption == Hideable \subseteq AppIds

\* The phone writes ids into the path as they are: "#" and "?" end it, and the
\* server decodes what follows "%".  Most ids arrive whole.
ASSUME InPathAssumption == DOMAIN InPath = AppIds /\ {Cut, Malformed} \cap AppIds = {}
Whole(app) == InPath[app] = app

Listed == {App(i) : i \in {i \in Ids : byID[i] # None}}
Known(sc) == Listed \cup {PrefixedID(c) : c \in sc}

\* Launch and LaunchCommand: the statuses they may end in.  Whether a terminal
\* is there, and whether the process starts, is up to the machine; the command
\* of a shortcut is never blank, its terminal may be an unknown one.
Launch(entry) ==
    LET split == SplitExec(entry.Exec)
    IN CASE entry.Exec = <<>> -> {400}
         [] ~split.ok -> {500}
         [] Expand(split.tokens, <<"a">>, <<"a">>) = <<>> -> {400}
         [] entry.Terminal = "true" -> {200, 400, 500}
         [] OTHER -> {200, 500}

LaunchCommand == {200, 400, 500}

-----------------------------------------------------------------------------
Idle == [pc |-> "idle", token |-> NoToken, code |-> 0, list |-> {}, todo |-> {},
         always |-> {}, known |-> {}, visible |-> {}, removed |-> {}]
NoTap == [pc |-> "idle", token |-> NoToken, code |-> 0, app |-> App(None),
          whole |-> FALSE, excused |-> FALSE]

Replied(code, list, removed) ==
    [Idle EXCEPT !.pc = "reply", !.code = code, !.list = list, !.removed = removed]

Sent(token) == [Idle EXCEPT !.pc = "sent", !.token = token]

\* The state; the list is part of Loaded.
Becoming(state, list, removed) ==
    ui' = state /\ shown' = list /\ suspect' = removed

\* A view model that has just been made, and its init's refresh.
NewModel(token) ==
    /\ get' = [r \in Refreshes |-> IF r = 1 THEN Sent(token) ELSE Idle]
    /\ tap' = NoTap /\ launchInFlight' = FALSE
    /\ Becoming("Loading", {}, {})
    /\ screen' = "apps" /\ held' = token

Init ==
    /\ CatalogInit
    /\ hidden \in SUBSET Hideable /\ shortcuts \in SUBSET ShortcutIds
    /\ valid = {1} /\ minted = 1
    /\ get = [r \in Refreshes |-> IF r = 1 THEN Sent(1) ELSE Idle]
    /\ tap = NoTap /\ launchInFlight = FALSE
    /\ ui = "Loading" /\ shown = {} /\ suspect = {}
    /\ screen = "apps" /\ held = 1
    /\ events = 0

-----------------------------------------------------------------------------
(* The handler of GET /api/apps.                                            *)

\* RequireToken, and c.List.
ListApps(s) ==
    /\ get[s].pc = "sent" /\ server = "up"
    /\ get' = [get EXCEPT ![s] =
                 IF @.token \in valid
                 THEN [@ EXCEPT !.pc = "merge", !.list = Listed,
                                !.known = Known(shortcuts), !.visible = AppIds \ hidden,
                                !.always = Known(shortcuts) \ hidden]
                 ELSE Replied(401, {}, {})]
    /\ UNCHANGED <<catalogVars, adminVars, tap, phoneVars>>

\* Mutant: shortcuts are merged after the filter.
MergeUnfiltered(s) ==
    /\ get[s].pc = "merge"
    /\ LET all == get[s].list \cup {PrefixedID(c) : c \in shortcuts} IN
       get' = [get EXCEPT ![s].pc = "filter", ![s].removed = {},
                          ![s].todo = get[s].list, ![s].list = all]
    /\ UNCHANGED <<catalogVars, adminVars, tap, phoneVars>>

\* provider.List.
Merge(s) ==
    /\ get[s].pc = "merge"
    /\ LET all == get[s].list \cup {PrefixedID(c) : c \in shortcuts} IN
       get' = [get EXCEPT ![s].pc = "filter", ![s].removed = {},
                          ![s].todo = all, ![s].list = all]
    /\ UNCHANGED <<catalogVars, adminVars, tap, phoneVars>>

\* IsHidden, asked for one application after the other, shortcuts last.
Filter(s, a) ==
    /\ get[s].pc = "filter" /\ a \in get[s].todo
    /\ IsCustom(a) => \A b \in get[s].todo : IsCustom(b)
    /\ get' = [get EXCEPT ![s].todo = @ \ {a},
                          ![s].list = IF a \in hidden THEN @ \ {a} ELSE @]
    /\ UNCHANGED <<catalogVars, adminVars, tap, phoneVars>>

Answer(s) ==
    /\ get[s].pc = "filter" /\ get[s].todo = {}
    /\ get' = [get EXCEPT ![s] = Replied(200, @.list, @.removed \cap @.list)]
    /\ UNCHANGED <<catalogVars, adminVars, tap, phoneVars>>

\* The handler of POST /api/apps/{id}/launch, behind RequireToken: how it may
\* answer.
Handled(app) ==
    IF IsCustom(app)
    THEN IF Bare(app) \in shortcuts THEN LaunchCommand ELSE {404}
    ELSE IF app \in Listed THEN Launch(byID[Bare(app)]) ELSE {404}

\* A request that has no route, or is refused as it is, never gets there.
Answers(app) ==
    IF app = Cut THEN {404}
    ELSE IF app = Malformed THEN {NetworkError, 400}
    ELSE IF tap.token \notin valid THEN {401}
    ELSE Handled(app)

LaunchApp ==
    /\ tap.pc = "sent" /\ server = "up"
    /\ \E code \in Answers(InPath[tap.app]) :
          tap' = [NoTap EXCEPT !.pc = "reply", !.code = code, !.whole = tap.whole,
                               !.excused = tap.excused]
    /\ UNCHANGED <<catalogVars, adminVars, get, phoneVars>>

-----------------------------------------------------------------------------
(* The operator and the machine.                                            *)

\* h and sc are the sets from now on; requests under way note what was there,
\* what was not hidden, and what has been both all the time.
Becomes(h, sc) ==
    LET gone == {PrefixedID(c) : c \in shortcuts \ sc}
    IN /\ hidden' = h /\ shortcuts' = sc
       /\ get' = [s \in Refreshes |->
                    IF get[s].pc \in {"merge", "filter"}
                    THEN [get[s] EXCEPT !.always = @ \cap (Known(sc) \ h),
                                        !.known = @ \cup Known(sc),
                                        !.visible = @ \cup (AppIds \ h),
                                        !.removed = @ \cup (gone \cap get[s].list)]
                    ELSE [get[s] EXCEPT !.removed = @ \cup (gone \cap get[s].list)]]
       /\ tap' = [tap EXCEPT !.excused = @ \/ tap.app \in gone]
       /\ suspect' = suspect \cup (gone \cap shown)
       /\ events' = events + 1

\* The admin page saves the set of hidden applications, or the shortcuts.
Operator ==
    /\ server = "up" /\ events < MaxEvents
    /\ \/ \E h \in SUBSET Hideable : h # hidden /\ Becomes(h, shortcuts)
       \/ \E sc \in SUBSET ShortcutIds : sc # shortcuts /\ Becomes(hidden, sc)
    /\ UNCHANGED <<catalogVars, valid, minted, launchInFlight, ui, shown, screen,
                   held>>

\* The server dies and starts again: requests without an answer fail.  It may
\* find its tokens gone, if the operator has removed an unreadable file.
Restart ==
    /\ server = "up" /\ events < MaxEvents
    /\ CatalogRestarts
    /\ valid' \in {valid, {}}
    /\ get' = [s \in Refreshes |->
                 CASE get[s].pc = "idle" -> Idle
                   [] get[s].pc = "reply" -> [get[s] EXCEPT !.removed = get[s].list]
                   [] OTHER -> Replied(NetworkError, {}, {})]
    /\ tap' = IF tap.pc = "sent" THEN [NoTap EXCEPT !.pc = "reply"] ELSE tap
    /\ suspect' = shown
    /\ events' = events + 1
    /\ UNCHANGED <<hidden, shortcuts, minted, launchInFlight, ui, shown, screen, held>>

Server ==
    /\ CatalogNext
    /\ UNCHANGED <<adminVars, get, tap, phoneVars>>

-----------------------------------------------------------------------------
(* The view model.                                                          *)

\* refresh: nothing keeps a second one from starting.  Without a token the
\* repository answers 401 by itself.
Refresh(s) ==
    /\ screen = "apps" /\ get[s].pc = "idle"
    /\ \A r \in Refreshes : get[r].pc = "idle" => s <= r
    /\ IF held = NoToken THEN Becoming("Unauthorized", {}, {}) /\ UNCHANGED get
       ELSE Becoming("Loading", {}, {}) /\ get' = [get EXCEPT ![s] = Sent(held)]
    /\ UNCHANGED <<catalogVars, adminVars, tap, launchInFlight, screen, held>>

\* Mutant: an empty answer is shown as an empty list.
ReceiveLoadedAlways(s) ==
    /\ get[s].pc = "reply"
    /\ CASE get[s].code = 200 -> Becoming("Loaded", get[s].list, get[s].removed)
         [] get[s].code = 401 -> Becoming("Unauthorized", {}, {})
         [] OTHER -> Becoming("Error", {}, {})
    /\ get' = [get EXCEPT ![s] = Idle]
    /\ UNCHANGED <<catalogVars, adminVars, tap, launchInFlight, screen, held>>

\* The answer of a refresh becomes the state, whatever the state is now.
Receive(s) ==
    /\ get[s].pc = "reply"
    /\ CASE get[s].code = 200 /\ get[s].list # {} ->
              Becoming("Loaded", get[s].list, get[s].removed)
         [] get[s].code = 200 /\ get[s].list = {} -> Becoming("Empty", {}, {})
         [] get[s].code = 401 -> Becoming("Unauthorized", {}, {})
         [] OTHER -> Becoming("Error", {}, {})
    /\ get' = [get EXCEPT ![s] = Idle]
    /\ UNCHANGED <<catalogVars, adminVars, tap, launchInFlight, screen, held>>

\* Ten seconds have passed, or there is no connection.
TimeOut(s) ==
    /\ get[s].pc # "idle"
    /\ Becoming("Error", {}, {}) /\ get' = [get EXCEPT ![s] = Idle]
    /\ UNCHANGED <<catalogVars, adminVars, tap, launchInFlight, screen, held>>

\* onTap.  A tap while a launch is under way is ignored.
OnTap(a) ==
    /\ screen = "apps" /\ ui = "Loaded" /\ a \in shown /\ ~launchInFlight
    /\ IF held = NoToken
       THEN Becoming("Unauthorized", {}, {}) /\ UNCHANGED <<tap, launchInFlight>>
       ELSE /\ launchInFlight' = TRUE /\ UNCHANGED <<ui, shown, suspect>>
            /\ tap' = [NoTap EXCEPT !.pc = "sent", !.token = held, !.app = a,
                                    !.whole = Whole(a), !.excused = a \in suspect]
    /\ UNCHANGED <<catalogVars, adminVars, get, screen, held>>

\* Mutant: the flag stays when the token was refused.
TapEndsUnlessRefused ==
    /\ tap.pc = "reply"
    /\ IF tap.code = 401 THEN Becoming("Unauthorized", {}, {})
       ELSE UNCHANGED <<ui, shown, suspect>>
    /\ tap' = NoTap /\ launchInFlight' = (tap.code = 401)
    /\ UNCHANGED <<catalogVars, adminVars, get, screen, held>>

TapAnswered ==
    /\ tap.pc = "reply"
    /\ IF tap.code = 401 THEN Becoming("Unauthorized", {}, {})
       ELSE UNCHANGED <<ui, shown, suspect>>
    /\ tap' = NoTap /\ launchInFlight' = FALSE
    /\ UNCHANGED <<catalogVars, adminVars, get, screen, held>>

TapTimesOut ==
    /\ tap.pc # "idle"
    /\ tap' = NoTap /\ launchInFlight' = FALSE
    /\ UNCHANGED <<catalogVars, adminVars, get, ui, shown, screen, held, suspect>>

-----------------------------------------------------------------------------
(* Navigation.  The screen of the applications stays on the back stack     *)
(* below those that are opened from it, with its view model: "connect" is  *)
(* not on the stack any more, so popUpTo finds nothing to pop.             *)

\* The screen sees Unauthorized: the token goes.
OnUnauthorized ==
    /\ screen = "apps" /\ ui = "Unauthorized"
    /\ held' = NoToken /\ screen' = "pairing"
    /\ UNCHANGED <<catalogVars, adminVars, get, tap, launchInFlight, ui, shown, suspect>>

\* The user leaves the server, and connects to it again.
OnDisconnect ==
    /\ screen = "apps"
    /\ held' = NoToken /\ screen' = "connect"
    /\ UNCHANGED <<catalogVars, adminVars, get, tap, launchInFlight, ui, shown, suspect>>

OnConnected ==
    /\ screen = "connect" /\ screen' = "pairing"
    /\ UNCHANGED <<catalogVars, adminVars, get, tap, launchInFlight, ui, shown, held,
                   suspect>>

Back ==
    /\ screen \in {"pairing", "connect"} /\ screen' = "apps"
    /\ UNCHANGED <<catalogVars, adminVars, get, tap, launchInFlight, ui, shown, held,
                   suspect>>

\* Mutant: the new screen shares the old one's view model.
PairKeepsModel ==
    /\ screen = "pairing" /\ server = "up" /\ minted < MaxTokens
    /\ minted' = minted + 1 /\ valid' = valid \cup {minted + 1}
    /\ held' = minted + 1 /\ screen' = "apps" /\ Becoming("Loading", {}, {})
    /\ UNCHANGED <<catalogVars, hidden, shortcuts, events, get, tap,
                   launchInFlight>>

\* A pairing succeeds (module Pairing): a new screen with a model of its own.
\* The old one, further down the stack, is not reached again before this one
\* is left, and is forgotten here.
Pair ==
    /\ screen = "pairing" /\ server = "up" /\ minted < MaxTokens
    /\ minted' = minted + 1 /\ valid' = valid \cup {minted + 1}
    /\ NewModel(minted + 1)
    /\ UNCHANGED <<catalogVars, hidden, shortcuts, events>>

-----------------------------------------------------------------------------
Handlers ==
    \/ \E s \in Refreshes : \/ ListApps(s) \/ Merge(s) \/ Answer(s)
                            \/ \E a \in AppIds : Filter(s, a)
    \/ LaunchApp

Phone ==
    \/ \E s \in Refreshes : Refresh(s) \/ Receive(s) \/ TimeOut(s)
    \/ \E a \in AppIds : OnTap(a)
    \/ TapAnswered \/ TapTimesOut
    \/ Pair \/ OnUnauthorized \/ OnDisconnect \/ OnConnected \/ Back

Next == Handlers \/ Operator \/ Restart \/ Server \/ Phone

Spec == Init /\ [][Next]_vars

-----------------------------------------------------------------------------
(* Properties.                                                              *)

TypeOK ==
    /\ CatalogTypeOK
    /\ hidden \subseteq AppIds /\ shortcuts \subseteq ShortcutIds
    /\ valid \subseteq 1..minted /\ minted \in 1..MaxTokens
    /\ held \in 0..minted /\ screen \in {"apps", "pairing", "connect"}
    /\ ui \in {"Loading", "Loaded", "Empty", "Error", "Unauthorized"}
    /\ shown \subseteq AppIds /\ suspect \subseteq shown
    /\ (ui = "Loaded") = (shown # {})
    /\ launchInFlight \in BOOLEAN /\ tap.pc \in {"idle", "sent", "reply"}
    /\ \A s \in Refreshes :
           /\ get[s].pc \in {"idle", "sent", "merge", "filter", "reply"}
           /\ get[s].todo \subseteq get[s].list /\ get[s].list \subseteq AppIds

\* One answer of GET /api/apps is made of reads of the catalog, the shortcuts
\* and each application's flag at different times.  Still every application in
\* it was there at some moment of the request, and was not hidden at some, and
\* every one that was both throughout is in it.  The two moments may differ: a
\* hidden shortcut that is deleted, and then unhidden, can come up once more.
AnswerWithinHistory ==
    \A s \in Refreshes : get[s].pc = "filter" /\ get[s].todo = {} =>
        /\ get[s].always \subseteq get[s].list
        /\ get[s].list \subseteq (get[s].known \cap get[s].visible)

\* An id from the list is one that the launch handler knows: if a URL carries
\* it whole, a tap is answered with 404 only if the shortcut was removed, or
\* the server restarted, since the list on the screen was composed.
ShownIsLaunchable ==
    tap.pc = "reply" /\ tap.code = 404 /\ tap.whole => tap.excused

\* The same of every id that is shown.  It does not hold of those with "#", "?"
\* or an escape in them, which the stores accept, and which the admin page
\* writes with encodeURIComponent.
EveryShownIsLaunchable == tap.pc = "reply" /\ tap.code = 404 => tap.excused

\* What is launched is what was tapped.  It need not be: an id with an escape
\* in it is decoded to that of another application.
TappedIsLaunched == tap.pc = "reply" /\ tap.code = 200 => tap.whole

\* The phone drops a token by itself only if the server does not accept that
\* token: a late refusal of an old one does not cost the new one.
TokenKept ==
    [][held # NoToken /\ held' = NoToken /\ screen' = "pairing"
         => held \notin valid]_vars

\* However refreshes and launches overlap, and whatever screens were visited
\* meanwhile, the spinner turns, and taps are ignored, only while a request is
\* under way; each of those ends within ten seconds.
WaitsForRequestsOnly ==
    /\ ui = "Loading" => \E s \in Refreshes : get[s].pc # "idle"
    /\ launchInFlight => tap.pc # "idle"

ExecLaw ==
    \A args \in ArgLists, name, icon \in {<<>>, <<"a">>} : RoundTrips(args, name, icon)

\* Every list of arguments can be written as an Exec line and is launched as
\* it was written (SplitExec and Expand, desktop/exec.go).
ExecRoundTrips == server = "up" => ExecLaw

IconLaw == \A r \in IconRequests : FindsTheBest(r.query, r.files, r.themes, r.theme)

\* The handler serves the file that Find's comment promises (icons/finder.go),
\* for the theme and its parents as their index.theme files declare them.
IconsAreFound == server = "up" => IconLaw

=============================================================================
