--------------------------- MODULE VisibilityStore ---------------------------
(***************************************************************************)
(* visibility.Store (server/internal/visibility/store.go), the handler of  *)
(* PUT /api/visibility (web/visibility.go) and the page that calls it      *)
(* (web/static/index.html).                                                *)
(*                                                                         *)
(* The store is a set of hidden applications in memory and a file.         *)
(* SetHidden replaces the whole set under the lock, unlocks, and writes    *)
(* the file; unlike auth.Store it reports a failing write to its caller.   *)
(* A tab of the admin page flips one flag on the screen at once, sends the *)
(* whole list it shows, and flips the flag back when the answer is an      *)
(* error.  It loads the list when it is opened and after each save of a    *)
(* shortcut.  Several tabs, and several requests and loads of one tab, may *)
(* be under way, and any other client of the API may save a list of its    *)
(* own.  An application is its id; the catalog is fixed.                   *)
(***************************************************************************)
EXTENDS Naturals

CONSTANTS Apps,     \* ids of applications and shortcuts
          Tabs,     \* open tabs of the admin page
          Puts,     \* slots for PUT requests under way
          Loads,    \* slots for calls of load() under way
          NoTab,    \* whose the requests are that no list on a page is behind
          Garbage   \* stands for bytes that are not a hidden list

ASSUME GarbageAssumption == Garbage \notin Apps
ASSUME NoTabAssumption == NoTab \notin Tabs

Torn == {Garbage}
Contents == (SUBSET Apps) \cup {Torn}

VARIABLES
    up,         \* the server runs
    hidden,     \* s.hidden
    file,       \* visibility.json
    put,        \* the requests under way
    load,       \* the loads under way
    page,       \* page[t]: the ids that are hidden in the list of tab t
    listed,     \* tab t has a list (this.apps is not empty)
    loading,    \* tab t shows a spinner in the place of its list
    alone,      \* history: the latest writer of the file has had no rival
    behind,     \* history: writes overlapped or failed, the file may lag
    astray      \* history: tab t has reason to differ from the server

vars == <<up, hidden, file, put, load, page, listed, loading, alone, behind,
          astray>>
store == <<up, hidden, file>>
screen == <<load, page, listed, loading>>
history == <<alone, behind, astray>>

\* A request travels to the server ("sent"), fills a temp file ("write"),
\* renames it ("rename"), and its answer travels back ("ok", "failed"), for
\* which the list does not matter any more.  tab and app are the tab and the
\* flag of it that an error will flip back; NoTab is for requests of other
\* clients, and for those whose tab has got another list since.
Phases == {"none", "sent", "write", "rename", "ok", "failed"}
Requests == [phase : Phases, tab : Tabs \cup {NoTab}, app : Apps \cup {NoTab},
             list : SUBSET Apps]
NoPut == [phase |-> "none"]

Free(p) == put[p].phase = "none"
Writing(p) == put[p].phase \in {"write", "rename"}

\* A request of a tab that still has the list that it was made from.
Of(p, t) == ~Free(p) /\ put[p].tab = t

\* A load waits for its answer ("asked"), of which the flags of todo are not
\* read yet; or gets none ("failed").  It is "old" when a save has changed
\* flags behind the part that is read.
Answers == [phase : {"asked", "failed"}, tab : Tabs, todo : SUBSET Apps,
            seen : SUBSET Apps, old : BOOLEAN]
NoLoad == [phase |-> "none"]

Asked(l) == load[l].phase = "asked"

TypeOK ==
    /\ up \in BOOLEAN
    /\ hidden \in SUBSET Apps
    /\ file \in Contents
    /\ put \in [Puts -> Requests \cup {NoPut}]
    /\ \A p \in Puts, t \in Tabs : Of(p, t) => put[p].app \in Apps
    /\ load \in [Loads -> Answers \cup {NoLoad}]
    /\ page \in [Tabs -> SUBSET Apps]
    /\ listed \in [Tabs -> BOOLEAN]
    /\ loading \in [Tabs -> BOOLEAN]
    /\ alone \in BOOLEAN
    /\ behind \in BOOLEAN
    /\ astray \in [Tabs -> BOOLEAN]

Init ==
    /\ up = FALSE
    /\ hidden = {}
    /\ file \in Contents
    /\ put = [p \in Puts |-> NoPut]
    /\ load = [l \in Loads |-> NoLoad]
    /\ page = [t \in Tabs |-> {}]
    /\ listed = [t \in Tabs |-> FALSE]
    /\ loading = [t \in Tabs |-> FALSE]
    /\ alone = TRUE
    /\ behind = FALSE
    /\ astray = [t \in Tabs |-> FALSE]

-----------------------------------------------------------------------------
(* The server's life.                                                       *)

Answered(p, phase) == [put[p] EXCEPT !.phase = phase, !.list = {}]

Lost(t) == [phase |-> "failed", tab |-> t, todo |-> {}, seen |-> {}, old |-> FALSE]

\* A list that the server has not finished composing.
Unserved(l) == Asked(l) /\ load[l].todo # {}

\* Mutant: a malformed file counts as an empty list.
LoadLenient ==
    /\ ~up
    /\ up' = TRUE
    /\ hidden' = IF file = Torn THEN {} ELSE file
    /\ alone' = TRUE
    /\ behind' = FALSE
    /\ UNCHANGED <<file, put, screen, astray>>

\* Load at startup: a missing or empty file is the empty set, a malformed
\* one makes the server refuse to start.
Load ==
    /\ ~up
    /\ file # Torn
    /\ up' = TRUE
    /\ hidden' = file
    /\ alone' = TRUE
    /\ behind' = FALSE
    /\ UNCHANGED <<file, put, screen, astray>>

\* The operator repairs the file that the server refuses.
Mend ==
    /\ ~up
    /\ file = Torn
    /\ file' = {}
    /\ UNCHANGED <<up, hidden, put, screen, history>>

\* The process dies.  The pages stay open; their requests fail.  A page can
\* be wrong afterwards if the file lagged behind memory or was being written:
\* the change may be on disk or not, and taken back on the screen or not.
Crash ==
    LET lost == behind \/ \E p \in Puts : Writing(p)
    IN  /\ up
        /\ up' = FALSE
        /\ hidden' = {}
        /\ put' = [p \in Puts |->
                     IF put[p].phase \in {"sent", "write", "rename"}
                     THEN Answered(p, "failed") ELSE put[p]]
        /\ load' = [l \in Loads |->
                      IF Unserved(l) THEN Lost(load[l].tab)
                      ELSE IF Asked(l)
                      THEN [load[l] EXCEPT !.old = load[l].old \/ lost]
                      ELSE load[l]]
        /\ astray' = [t \in Tabs |-> astray[t] \/ lost]
        /\ UNCHANGED <<file, page, listed, loading, alone, behind>>

-----------------------------------------------------------------------------
(* The page.                                                                *)

\* load(), when the page is opened and after each save of a shortcut: it
\* hides the list, and leaves it as it is until the answer is there.  Nothing
\* keeps a second one from starting before the first has ended.
Reload(t, l) ==
    /\ load[l] = NoLoad
    /\ load' = [load EXCEPT ![l] = [phase |-> "asked", tab |-> t, todo |-> Apps,
                                    seen |-> {}, old |-> FALSE]]
    /\ loading' = [loading EXCEPT ![t] = TRUE]
    /\ UNCHANGED <<store, put, page, listed, history>>

\* The handler of GET /api/apps asks IsHidden once for each application; the
\* lock is free in between.
ReadFlag(l, a) ==
    /\ up
    /\ Asked(l)
    /\ a \in load[l].todo
    /\ load' = [load EXCEPT ![l] =
                  [@ EXCEPT !.todo = load[l].todo \ {a},
                            !.seen = IF a \in hidden THEN load[l].seen \cup {a}
                                     ELSE load[l].seen]]
    /\ UNCHANGED <<store, put, page, listed, loading, history>>

\* Tab t gets another list, or none: what its older requests flip from now on
\* are objects that nobody shows.
Gets(t, list, some) ==
    /\ page' = [page EXCEPT ![t] = list]
    /\ listed' = [listed EXCEPT ![t] = some]
    /\ loading' = [loading EXCEPT ![t] = FALSE]
    /\ put' = [p \in Puts |->
                 IF Of(p, t) THEN [put[p] EXCEPT !.tab = NoTab, !.app = NoTab]
                 ELSE put[p]]

\* load(), when its answer is there: the list is shown, even if another load
\* was started later, or has been shown and toggled meanwhile.
Show(l) ==
    /\ Asked(l)
    /\ load[l].todo = {}
    /\ Gets(load[l].tab, load[l].seen, TRUE)
    /\ astray' = [astray EXCEPT ![load[l].tab] = load[l].old]
    /\ load' = [load EXCEPT ![l] = NoLoad]
    /\ UNCHANGED <<store, alone, behind>>

\* load() fails: the list becomes empty.
LoadFails(l) ==
    /\ load[l].phase = "failed" \/ (~up /\ Asked(l))
    /\ Gets(load[l].tab, {}, FALSE)
    /\ load' = [load EXCEPT ![l] = NoLoad]
    /\ UNCHANGED <<store, history>>

\* The tab is closed, or opened anew.
Close(t) ==
    /\ Gets(t, {}, FALSE)
    /\ load' = [l \in Loads |-> IF load[l] # NoLoad /\ load[l].tab = t THEN NoLoad
                                ELSE load[l]]
    /\ UNCHANGED <<store, history>>

Flip(t, a) == IF a \in page[t] THEN page[t] \ {a} ELSE page[t] \cup {a}

\* toggleVisibility, up to its await.  The order of this request and one
\* that has not been served, or whose failure is not yet known, is open.
Toggle(t, p, a) ==
    /\ listed[t] /\ ~loading[t]
    /\ Free(p)
    /\ page' = [page EXCEPT ![t] = Flip(t, a)]
    /\ put' = [put EXCEPT ![p] = [phase |-> "sent", tab |-> t, app |-> a,
                                  list |-> Flip(t, a)]]
    /\ astray' = [astray EXCEPT ![t] =
                    @ \/ \E q \in Puts : /\ Of(q, t)
                                         /\ put[q].phase \in {"sent", "failed"}]
    /\ UNCHANGED <<store, load, listed, loading, alone, behind>>

\* Any other client of the API, with any list.
Post(p, list) ==
    /\ Free(p)
    /\ put' = [put EXCEPT ![p] = [phase |-> "sent", tab |-> NoTab, app |-> NoTab,
                                  list |-> list]]
    /\ UNCHANGED <<store, screen, history>>

\* Mutant: an error is shown and the flag is left as it is.
AnswerKeepsFlag(p) ==
    /\ put[p].phase \in {"ok", "failed"}
    /\ put' = [put EXCEPT ![p] = NoPut]
    /\ UNCHANGED <<store, screen, history>>

\* toggleVisibility, after its await: an error flips the flag back.
Answer(p) ==
    /\ put[p].phase \in {"ok", "failed"}
    /\ put' = [put EXCEPT ![p] = NoPut]
    /\ page' = IF put[p].phase = "failed" /\ put[p].tab # NoTab
               THEN [page EXCEPT ![put[p].tab] = Flip(put[p].tab, put[p].app)]
               ELSE page
    /\ UNCHANGED <<store, load, listed, loading, history>>

-----------------------------------------------------------------------------
(* PUT /api/visibility.                                                     *)

Unreachable(p) ==
    /\ ~up
    /\ put[p].phase = "sent"
    /\ put' = [put EXCEPT ![p] = Answered(p, "failed")]
    /\ UNCHANGED <<store, screen, history>>

\* SetHidden, under s.mu: the set is replaced.  All other tabs have a list
\* that is out of date now, and so has its own if it was loaded since, and
\* each answer that is composed in part.
SetHidden(p) ==
    /\ up
    /\ put[p].phase = "sent"
    /\ hidden' = put[p].list
    /\ put' = [put EXCEPT ![p] = [@ EXCEPT !.phase = "write"]]
    /\ alone' = ~\E q \in Puts : Writing(q)
    /\ behind' = (behind \/ \E q \in Puts : Writing(q))
    /\ astray' = [t \in Tabs |-> astray[t] \/ ~Of(p, t)]
    /\ load' = [l \in Loads |->
                  IF Asked(l)
                  THEN [load[l] EXCEPT !.old = load[l].old \/ load[l].todo # Apps]
                  ELSE load[l]]
    /\ UNCHANGED <<up, file, page, listed, loading>>

\* Mutant: no temp file, the destination is truncated and filled.
FillInPlace(p) ==
    /\ put[p].phase = "write"
    /\ put' = [put EXCEPT ![p] = [@ EXCEPT !.phase = "rename"]]
    /\ file' = Torn
    /\ UNCHANGED <<up, hidden, screen, history>>

\* writeAtomic, without the lock, up to the close of the temp file.
Fill(p) ==
    /\ put[p].phase = "write"
    /\ put' = [put EXCEPT ![p] = [@ EXCEPT !.phase = "rename"]]
    /\ UNCHANGED <<store, screen, history>>

\* The rename, and the answer 200.  A write that had the file to itself
\* settles what an overlap before it left open.
Rename(p) ==
    /\ put[p].phase = "rename"
    /\ put' = [put EXCEPT ![p] = Answered(p, "ok")]
    /\ file' = put[p].list
    /\ behind' = (behind /\ ~alone)
    /\ UNCHANGED <<up, hidden, screen, alone, astray>>

\* Any step of writeAtomic fails: "persist_failed", 500.  Memory keeps the
\* new set and the page will take it back.
WriteFails(p) ==
    /\ Writing(p)
    /\ put' = [put EXCEPT ![p] = Answered(p, "failed")]
    /\ alone' = FALSE
    /\ behind' = TRUE
    /\ astray' = [t \in Tabs |-> astray[t] \/ Of(p, t)]
    /\ UNCHANGED <<store, screen>>

Page(t) ==
    \/ Close(t)
    \/ \E l \in Loads : Reload(t, l)
    \/ \E a \in Apps, p \in Puts : Toggle(t, p, a)

Loading(l) == Show(l) \/ LoadFails(l) \/ \E a \in Apps : ReadFlag(l, a)

Request(p) ==
    \/ \E list \in SUBSET Apps : Post(p, list)
    \/ SetHidden(p) \/ Fill(p) \/ Rename(p) \/ WriteFails(p)
    \/ Unreachable(p) \/ Answer(p)

Next ==
    \/ Load \/ Mend \/ Crash
    \/ \E t \in Tabs : Page(t)
    \/ \E l \in Loads : Loading(l)
    \/ \E p \in Puts : Request(p)

Spec == Init /\ [][Next]_vars

-----------------------------------------------------------------------------
(* Properties.                                                              *)

\* Once no write is under way, and the last one had the file to itself and
\* did not fail, visibility.json is what the server filters with.
MirroredWhenQuiet ==
    up /\ ~behind /\ (\A p \in Puts : ~Writing(p)) => file = hidden

\* A tab whose requests have all been answered has the flags that the server
\* filters the phone's list with, and still has after a crash and a restart,
\* unless another tab saved since the list was loaded, a save was applied
\* while the answer was composed or travelled, its own requests could
\* overtake each other, or a write failed.  The flag that is flipped before
\* the answer, its way back, loads that overlap, and the list that is read in
\* pieces all have to fit for that.
PageAgrees ==
    up => \A t \in Tabs :
        /\ listed[t]
        /\ ~astray[t]
        /\ \A p \in Puts : ~Of(p, t)
        => page[t] = hidden

\* What load() is called for after a save ("update the apps tab"): no list
\* that agrees with the server is replaced by one that does not.  Of two
\* loads that overlap, the one that was read earlier can be shown last.
LoadsOnlyUpdate ==
    [][\A t \in Tabs :
          /\ up /\ listed[t] /\ page[t] = hidden
          /\ listed'[t] /\ UNCHANGED hidden
          /\ \A p \in Puts : Free(p) /\ Free(p)'
          => page'[t] = hidden']_vars

\* What may still reach the file: the set, and the lists being written.
Pending == IF up THEN {hidden} \cup {put[p].list : p \in {q \in Puts : Writing(q)}}
           ELSE {}

Abstract == INSTANCE SnapshotFile
    WITH Values <- SUBSET Apps, Unreadable <- Torn,
         running <- up, live <- hidden, durable <- file, past <- Pending

\* Whatever overlaps, fails or dies, visibility.json only moves, whole, to a
\* set that the server held since it started (writeAtomic: "a crash mid-write
\* never leaves a truncated file"), and a start takes it as it stands.
FileIsASnapshot == Abstract!Spec

\* What the comment on visibilityPayload says of sending the full list
\* ("removes every 'what if an add and a remove race each other' corner
\* case"): the save of one flag leaves the others as they are, at least when
\* no other request is under way and no write has failed.  The list of a tab
\* that was loaded before another tab saved undoes what that one did.
SaveTouchesOneFlag ==
    [][\A p \in Puts :
          /\ put[p].phase = "sent" /\ put'[p].phase = "write" /\ put[p].tab # NoTab
          /\ ~behind
          /\ \A q \in Puts \ {p} : Free(q)
          => hidden' \ {put[p].app} = hidden \ {put[p].app}]_vars

=============================================================================
