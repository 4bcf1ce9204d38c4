---------------------------- MODULE ShortcutStore ----------------------------
(***************************************************************************)
(* shortcuts.Store (server/internal/shortcuts/store.go), the handlers of   *)
(* /api/shortcuts (web/shortcuts.go) and the page that calls them          *)
(* (web/static/index.html).                                                *)
(*                                                                         *)
(* The operator's own launch entries are a list in memory and a file.      *)
(* Replace validates a whole list, installs it under the lock, unlocks,    *)
(* and writes it sorted by id.  A tab adds to, or deletes from, the list   *)
(* that it last got, sends the result, shows what the server answers, and  *)
(* loads everything once more.  Nothing keeps it from doing the next thing *)
(* before the last one is answered.                                        *)
(*                                                                         *)
(* A shortcut is its id, and an id is a number, for the order of the file. *)
(* An edit that keeps the id sends the same list of ids.  In a request an  *)
(* entry also has a form: what trimming and validation make of its fields. *)
(***************************************************************************)
EXTENDS Naturals, Sequences, FiniteSets

CONSTANTS Ids,      \* ids of shortcuts
          Tabs,     \* open tabs of the admin page
          Calls,    \* slots for what pages and clients have under way
          Bodies,   \* what other clients send
          NoTab,    \* who those clients are
          Bad       \* file content that does not parse

ASSUME IdsAssumption == Ids \subseteq Nat \ {0} /\ IsFiniteSet(Ids)
\* "padded": spaces around the id.  "blank": a required field has nothing but
\* spaces; "empty": not even these.  "slashed": a slash in the id.
Forms == {"good", "padded", "blank", "empty", "slashed"}
Shortcuts == [id : Ids, form : Forms]

ASSUME BodiesAssumption == Bodies \subseteq Seq(Shortcuts)
ASSUME NamesAssumption == NoTab \notin Tabs /\ Bad \notin Seq(Ids)

Entries(list) == {list[i] : i \in DOMAIN list}
Distinct(list) == \A i, j \in DOMAIN list : list[i] = list[j] => i = j
Lists == {list \in UNION {[1..n -> Ids] : n \in 0..Cardinality(Ids)} :
            Distinct(list)}

\* What Replace keeps of an entry.
Trim(sc) == [sc EXCEPT !.form = CASE sc.form = "padded" -> "good"
                                  [] sc.form = "blank" -> "empty"
                                  [] OTHER -> sc.form]

\* validate: it tests for empty fields, and for a slash or a space in the id.
Valid(sc) == sc.form \in {"good", "blank"}

IdsOf(body) == [i \in DOMAIN body |-> body[i].id]
Plain(list) == [i \in DOMAIN list |-> [id |-> list[i], form |-> "good"]]
Trimmed(body) == [i \in DOMAIN body |-> Trim(body[i])]

\* The loop over a list, in Replace and in Load: each entry is valid and its
\* id is new.
Accepts(body) == /\ \A i \in DOMAIN body : Valid(body[i])
                 /\ Distinct(IdsOf(body))

VARIABLES
    up,         \* the server runs
    order,      \* s.order; s.items has the same ids
    file,       \* shortcuts.json
    call,       \* requests under way
    page,       \* page[t]: this.shortcuts
    alone,      \* history: the latest writer of the file has had no rival
    behind,     \* history: writes overlapped or failed, the file may lag
    astray      \* history: page[t] may not be what the server has

vars == <<up, order, file, call, page, alone, behind, astray>>
store == <<up, order, file>>
history == <<alone, behind, astray>>

\* A PUT travels to the server ("sent"), fills a temp file ("write"), renames
\* it ("rename"), reads the list for its answer ("list"), and the answer
\* travels back ("ok", "failed").  A load() asks ("asked") and is answered
\* ("got").  What a call carries is "old" when it was made from a page that
\* was not up to date, or when the server's list was replaced since.
Phases == {"sent", "write", "rename", "list", "ok", "failed", "asked", "got"}
Requests == [phase : Phases, tab : Tabs \cup {NoTab}, id : Ids \cup {0},
             body : Seq(Shortcuts), list : Lists, old : BOOLEAN]
NoCall == [phase |-> "none"]

Free(c) == call[c].phase = "none"
Writing(c) == call[c].phase \in {"write", "rename"}

TypeOK ==
    /\ up \in BOOLEAN
    /\ order \in Lists
    /\ file \in Lists \cup {Bad}
    /\ call \in [Calls -> Requests \cup {NoCall}]
    /\ \A c \in Calls : call[c].phase \in {"asked", "got"} => call[c].tab \in Tabs
    /\ page \in [Tabs -> Lists]
    /\ alone \in BOOLEAN
    /\ behind \in BOOLEAN
    /\ astray \in [Tabs -> BOOLEAN]

Init ==
    /\ up = FALSE
    /\ order = <<>>
    /\ file \in Lists \cup {Bad}
    /\ call = [c \in Calls |-> NoCall]
    /\ page = [t \in Tabs |-> <<>>]
    /\ alone = TRUE
    /\ behind = FALSE
    /\ astray = [t \in Tabs |-> TRUE]

Moves(c, phase) == call' = [call EXCEPT ![c] = [@ EXCEPT !.phase = phase]]

-----------------------------------------------------------------------------
(* The server's life.                                                       *)

\* Mutant: Load parses the file and does not install what it read.
LoadForgets ==
    /\ ~up
    /\ file # Bad
    /\ up' = TRUE
    /\ order' = <<>>
    /\ alone' = TRUE
    /\ behind' = FALSE
    /\ UNCHANGED <<file, call, page, astray>>

\* Load at startup.  A file that does not parse, or has an id twice, makes
\* the server refuse to start.
Load ==
    /\ ~up
    /\ file # Bad
    /\ up' = TRUE
    /\ order' = file
    /\ alone' = TRUE
    /\ behind' = FALSE
    /\ UNCHANGED <<file, call, page, astray>>

\* The operator repairs the file.
Mend ==
    /\ ~up
    /\ file = Bad
    /\ file' = <<>>
    /\ UNCHANGED <<up, order, call, page, history>>

\* The process dies, and with it the PUTs that it has not answered.  What it
\* last told a page may not be in the file.
Crash ==
    LET lost == behind \/ \E c \in Calls : Writing(c)
    IN  /\ up
        /\ up' = FALSE
        /\ order' = <<>>
        /\ call' = [c \in Calls |->
                      IF call[c].phase \in {"sent", "write", "rename", "list"}
                      THEN [call[c] EXCEPT !.phase = "failed"]
                      ELSE IF call[c].phase \in {"ok", "got"} /\ lost
                      THEN [call[c] EXCEPT !.old = TRUE]
                      ELSE call[c]]
        /\ astray' = [t \in Tabs |-> astray[t] \/ lost]
        /\ UNCHANGED <<file, page, alone, behind>>

-----------------------------------------------------------------------------
(* The page.                                                                *)

\* load(), when the page is opened.
Open(t, c) ==
    /\ Free(c)
    /\ call' = [call EXCEPT ![c] = [phase |-> "asked", tab |-> t, id |-> 0,
                                    body |-> <<>>, list |-> <<>>, old |-> FALSE]]
    /\ UNCHANGED <<store, page, history>>

\* GET /api/shortcuts reads the list under one lock.
Get(c) ==
    /\ up
    /\ call[c].phase = "asked"
    /\ call' = [call EXCEPT ![c] = [@ EXCEPT !.phase = "got", !.list = order,
                                             !.old = FALSE]]
    /\ UNCHANGED <<store, page, history>>

Shows(c) ==
    /\ page' = [page EXCEPT ![call[c].tab] = call[c].list]
    /\ astray' = [astray EXCEPT ![call[c].tab] = call[c].old]

ShowLoaded(c) ==
    /\ call[c].phase = "got"
    /\ Shows(c)
    /\ call' = [call EXCEPT ![c] = NoCall]
    /\ UNCHANGED <<store, alone, behind>>

\* load() fails: the list of the page becomes empty, and the page can still
\* add to it.
LoadFails(c) ==
    /\ ~up
    /\ call[c].phase = "asked"
    /\ page' = [page EXCEPT ![call[c].tab] = <<>>]
    /\ astray' = [astray EXCEPT ![call[c].tab] = TRUE]
    /\ call' = [call EXCEPT ![c] = NoCall]
    /\ UNCHANGED <<store, alone, behind>>

\* putShortcuts, up to its await.
Send(t, c, i, body) ==
    /\ Free(c)
    /\ call' = [call EXCEPT ![c] = [phase |-> "sent", tab |-> t, id |-> i,
                                    body |-> body, list |-> <<>>,
                                    old |-> astray[t]]]
    /\ UNCHANGED <<store, page, history>>

\* saveShortcut of a new entry: an id that the page shows is refused.  The
\* form trims its fields and does not save empty ones; a slash it lets pass.
Add(t, c, i) ==
    /\ i \notin Entries(page[t])
    /\ \E form \in {"good", "slashed"} :
          Send(t, c, i, Append(Plain(page[t]), [id |-> i, form |-> form]))

\* saveShortcut of an entry under edit: the same ids in the same order.
Edit(t, c, i) ==
    /\ i \in Entries(page[t])
    /\ Send(t, c, i, Plain(page[t]))

\* The ids of a list are different: the filter drops one entry.
Without(list, k) ==
    [j \in 1..(Len(list) - 1) |-> IF j < k THEN list[j] ELSE list[j + 1]]

Delete(t, c, i) ==
    \E k \in DOMAIN page[t] :
        /\ page[t][k] = i
        /\ Send(t, c, i, Plain(Without(page[t], k)))

\* Any other client of the API.
Post(c, body) ==
    /\ Free(c)
    /\ call' = [call EXCEPT ![c] = [phase |-> "sent", tab |-> NoTab, id |-> 0,
                                    body |-> body, list |-> <<>>, old |-> TRUE]]
    /\ UNCHANGED <<store, page, history>>

\* putShortcuts, after its await: the page shows the list of the answer and
\* calls load().
ShowAnswer(c) ==
    /\ call[c].phase = "ok"
    /\ call[c].tab # NoTab
    /\ Shows(c)
    /\ Moves(c, "asked")
    /\ UNCHANGED <<store, alone, behind>>

\* An error is shown and the page keeps its list; other clients just end.
EndCall(c) ==
    /\ \/ call[c].phase = "failed"
       \/ call[c].phase = "ok" /\ call[c].tab = NoTab
    /\ call' = [call EXCEPT ![c] = NoCall]
    /\ UNCHANGED <<store, page, history>>

-----------------------------------------------------------------------------
(* PUT /api/shortcuts.                                                      *)

Unreachable(c) ==
    /\ ~up
    /\ call[c].phase = "sent"
    /\ Moves(c, "failed")
    /\ UNCHANGED <<store, page, history>>

\* Replace finds an invalid entry, or an id twice, and returns before it
\* changes anything.
Reject(c) ==
    /\ up
    /\ call[c].phase = "sent"
    /\ ~Accepts(Trimmed(call[c].body))
    /\ Moves(c, "failed")
    /\ UNCHANGED <<store, page, history>>

\* Replace, under s.mu.  Everything that was made from an earlier list, or
\* that carries one to a page, is old from now on.
Install(c, body) ==
    /\ order' = IdsOf(body)
    /\ call' = [d \in Calls |->
                  IF d = c THEN [call[c] EXCEPT !.phase = "write", !.body = body]
                  ELSE IF Free(d) THEN NoCall
                  ELSE [call[d] EXCEPT !.old = TRUE]]
    /\ astray' = [t \in Tabs |-> TRUE]
    /\ alone' = ~\E d \in Calls : Writing(d)
    /\ behind' = (behind \/ \E d \in Calls : Writing(d))
    /\ UNCHANGED <<up, file, page>>

\* Mutant: the loop validates each entry as it came, and trims it afterwards.
ReplaceTrimsLast(c) ==
    /\ up
    /\ call[c].phase = "sent"
    /\ Accepts(call[c].body)
    /\ Install(c, Trimmed(call[c].body))

Replace(c) ==
    /\ up
    /\ call[c].phase = "sent"
    /\ Accepts(Trimmed(call[c].body))
    /\ Install(c, Trimmed(call[c].body))

\* writeAtomic, up to the close of the temp file.
Fill(c) ==
    /\ call[c].phase = "write"
    /\ Moves(c, "rename")
    /\ UNCHANGED <<store, page, history>>

\* sort.SliceStable by id.
Sorts(list, sorted) ==
    /\ Entries(sorted) = Entries(list)
    /\ \A i, j \in DOMAIN sorted : i < j => sorted[i] < sorted[j]

\* The rename: the file has the entries in the order of their ids.  What the
\* loop of Load would not accept is a file that it refuses.
Rename(c) ==
    /\ call[c].phase = "rename"
    /\ call' = [call EXCEPT ![c] = [@ EXCEPT !.phase = "list", !.body = <<>>]]
    /\ IF Accepts(call[c].body)
       THEN \E sorted \in Lists :
               Sorts(IdsOf(call[c].body), sorted) /\ file' = sorted
       ELSE file' = Bad
    /\ behind' = (behind /\ ~alone)
    /\ UNCHANGED <<up, order, page, alone, astray>>

\* Any step of writeAtomic fails: Replace returns the error, memory keeps the
\* new list.
WriteFails(c) ==
    /\ Writing(c)
    /\ Moves(c, "failed")
    /\ alone' = FALSE
    /\ behind' = TRUE
    /\ UNCHANGED <<store, page, astray>>

\* Mutant: the handler answers with the list as the file has it.
ListFromFile(c) ==
    /\ call[c].phase = "list"
    /\ file # Bad
    /\ call' = [call EXCEPT ![c] = [@ EXCEPT !.phase = "ok", !.list = file,
                                             !.old = FALSE]]
    /\ UNCHANGED <<store, page, history>>

\* The handler reads the list once more for its answer.
List(c) ==
    /\ call[c].phase = "list"
    /\ call' = [call EXCEPT ![c] = [@ EXCEPT !.phase = "ok", !.list = order,
                                             !.old = FALSE]]
    /\ UNCHANGED <<store, page, history>>

Page(t) == \E c \in Calls :
    \/ Open(t, c)
    \/ \E i \in Ids : Add(t, c, i) \/ Edit(t, c, i) \/ Delete(t, c, i)

Request(c) ==
    \/ Get(c) \/ ShowLoaded(c) \/ LoadFails(c)
    \/ Reject(c) \/ Replace(c) \/ Fill(c) \/ Rename(c) \/ WriteFails(c)
    \/ List(c) \/ ShowAnswer(c) \/ EndCall(c) \/ Unreachable(c)
    \/ \E body \in Bodies : Post(c, body)

Next ==
    \/ Load \/ Mend \/ Crash
    \/ \E t \in Tabs : Page(t)
    \/ \E c \in Calls : Request(c)

Spec == Init /\ [][Next]_vars

-----------------------------------------------------------------------------
(* Properties.                                                              *)

\* Once no write is under way, and the last one had the file to itself and
\* did not fail, shortcuts.json has the entries that memory has: in the same
\* order, or sorted by id.  So the order of the list changes at one restart at
\* most, and stays until the next save.
MirroredWhenQuiet ==
    up /\ ~behind /\ (\A c \in Calls : ~Writing(c)) =>
        \/ file = order
        \/ file # Bad /\ Sorts(order, file)

\* A page that is up to date changes one entry with a request, if that
\* reaches the server before anyone else's: what the operator does to one
\* shortcut does nothing to the others, also after errors, failed loads,
\* crashes and restarts, and although every request is a whole list.
SaveTouchesOneEntry ==
    [][\A c \in Calls :
          call[c].phase = "sent" /\ call'[c].phase = "write" /\ ~call[c].old =>
              Entries(order') \ {call[c].id} = Entries(order) \ {call[c].id}]_vars

\* What may still reach the file: the list, and the lists being written.
Pending == IF up THEN {Entries(order)} \cup
                {Entries(IdsOf(call[c].body)) : c \in {d \in Calls : Writing(d)}}
           ELSE {}

Torn == {0}

Abstract == INSTANCE SnapshotFile
    WITH Values <- SUBSET Ids, Unreadable <- Torn,
         running <- up, live <- Entries(order),
         durable <- IF file = Bad THEN Torn ELSE Entries(file), past <- Pending

\* Whatever clients send and however their saves overlap, shortcuts.json only
\* moves, whole, to entries that memory held in this life of the server: what
\* Replace accepts, trims and writes is always a file that Load accepts.
FileIsASnapshot == Abstract!Spec

\* What the comment on Replace says ("an error leaves the old state intact"):
\* after an error, a page that was up to date when it sent its list, and that
\* has nothing else under way, still shows the entries that the server has.
\* A list that cannot be written to the file is in memory all the same.
ErrorLeavesState ==
    \A c \in Calls :
        /\ up
        /\ call[c].phase = "failed" /\ ~call[c].old
        /\ \A d \in Calls \ {c} : Free(d)
        => Entries(page[call[c].tab]) = Entries(order)

\* What the comments on Replace and List say ("persists the new state", "a
\* sorted (insertion-order stable) snapshot"): what a restart will load is
\* the list in the order that it has in memory.  The file is sorted by id.
PersistsOrder ==
    up /\ ~behind /\ (\A c \in Calls : ~Writing(c)) => file = order

=============================================================================
