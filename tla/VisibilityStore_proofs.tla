----------------------- MODULE VisibilityStore_proofs -----------------------
(***************************************************************************)
(* Proofs about VisibilityStore, for any applications, tabs and requests.  *)
(***************************************************************************)
EXTENDS VisibilityStore, TLAPS

LEMMA TornIsNoSet == ASSUME NEW S \in SUBSET Apps PROVE S # Torn
BY GarbageAssumption DEF Torn

\* The phase of a record that is in a state of the model.
LEMMA Slots ==
    ASSUME TypeOK
    PROVE  /\ \A p \in Puts : ~Free(p) => put[p] \in Requests
           /\ \A p \in Puts : put[p].phase \in Phases
           /\ \A l \in Loads : load[l] # NoLoad => load[l] \in Answers
           /\ \A l \in Loads : Asked(l) => load[l] \in Answers
BY DEF TypeOK, Free, NoPut, Requests, Phases, NoLoad, Answers, Asked

\* A load that can go on belongs to a tab.
LEMMA OfTab ==
    ASSUME TypeOK, NEW l \in Loads, Show(l) \/ LoadFails(l) \/ Asked(l)
    PROVE  /\ load[l] \in Answers
           /\ load[l].tab \in Tabs /\ load[l].seen \in SUBSET Apps
           /\ load[l].old \in BOOLEAN
<1>1. load[l].phase # "none"
  BY DEF Show, LoadFails, Asked
<1>2. load[l] # NoLoad
  BY <1>1 DEF NoLoad
<1>3. load[l] \in Answers
  BY <1>2, Slots
<1> QED
  BY <1>3 DEF Answers

\* When a tab gets another list, the requests are what they were, but no longer
\* of that tab.
LEMMA GetsPuts ==
    ASSUME TypeOK, NEW t \in Tabs, NEW list, NEW some, Gets(t, list, some)
    PROVE  \A p \in Puts :
              /\ put'[p] \in Requests \cup {NoPut}
              /\ put'[p].phase = put[p].phase
              /\ ~Free(p) => put'[p].list = put[p].list
              /\ ~Of(p, t)'
              /\ \A u \in Tabs : u # t =>
                    /\ Of(p, u)' <=> Of(p, u)
                    /\ Of(p, u) => put'[p] = put[p]
<1> SUFFICES ASSUME NEW p \in Puts
             PROVE  /\ put'[p] \in Requests \cup {NoPut}
                    /\ put'[p].phase = put[p].phase
                    /\ ~Free(p) => put'[p].list = put[p].list
                    /\ ~Of(p, t)'
                    /\ \A u \in Tabs : u # t =>
                          /\ Of(p, u)' <=> Of(p, u)
                          /\ Of(p, u) => put'[p] = put[p]
  OBVIOUS
<1>1. CASE Of(p, t)
  <2>1. put[p] \in Requests
    BY <1>1, Slots DEF Of
  <2>2. put'[p] = [put[p] EXCEPT !.tab = NoTab, !.app = NoTab]
    BY <1>1 DEF Gets
  <2>3. /\ put'[p] \in Requests /\ put'[p].tab = NoTab
        /\ put'[p].phase = put[p].phase /\ put'[p].list = put[p].list
    BY <2>1, <2>2 DEF Requests
  <2> QED
    BY <1>1, <2>3, NoTabAssumption DEF Of
<1>2. CASE ~Of(p, t)
  <2>1. put'[p] = put[p]
    BY <1>2 DEF Gets
  <2> QED
    BY <1>2, <2>1 DEF Of, Free, TypeOK
<1> QED
  BY <1>1, <1>2

\* Types of store, requests, loads and screens.
THEOREM TypeCorrect == Spec => []TypeOK
<1>1. Init => TypeOK
  <2> SUFFICES ASSUME Init PROVE TypeOK
    OBVIOUS
  <2>1. \A p \in Puts : Free(p)
    BY DEF Init, Free, NoPut
  <2>2. put \in [Puts -> Requests \cup {NoPut}]
    BY DEF Init
  <2>3. load \in [Loads -> Answers \cup {NoLoad}]
    BY DEF Init
  <2>4. \A p \in Puts, t \in Tabs : Of(p, t) => put[p].app \in Apps
    BY <2>1 DEF Of
  <2> QED
    BY <2>2, <2>3, <2>4 DEF Init, TypeOK
<1>2. TypeOK /\ [Next]_vars => TypeOK'
  <2> SUFFICES ASSUME TypeOK, [Next]_vars PROVE TypeOK'
    OBVIOUS
  <2> USE Slots DEF store, screen, history
  <2>1. CASE Load \/ Mend
    BY <2>1 DEF Load, Mend, Contents, TypeOK, Of, Free
  <2>2. CASE Crash
    <3>1. \A p \in Puts : /\ put'[p] \in Requests \cup {NoPut}
                          /\ \A t \in Tabs : Of(p, t)' => put'[p].app \in Apps
      <4> SUFFICES ASSUME NEW p \in Puts
                   PROVE  /\ put'[p] \in Requests \cup {NoPut}
                          /\ \A t \in Tabs : Of(p, t)' => put'[p].app \in Apps
        OBVIOUS
      <4>1. CASE put[p].phase \in {"sent", "write", "rename"}
        <5>1. put[p] \in Requests /\ ~Free(p)
          BY <4>1 DEF Free
        <5>2. put'[p] = [put[p] EXCEPT !.phase = "failed", !.list = {}]
          BY <2>2, <4>1 DEF Crash, Answered
        <5> QED
          BY <5>1, <5>2 DEF Requests, Phases, Of, TypeOK
      <4>2. CASE ~(put[p].phase \in {"sent", "write", "rename"})
        <5>1. put'[p] = put[p]
          BY <2>2, <4>2 DEF Crash
        <5> QED
          BY <5>1 DEF TypeOK, Of, Free
      <4> QED
        BY <4>1, <4>2
    <3>2. \A l \in Loads : load'[l] \in Answers \cup {NoLoad}
      <4> SUFFICES ASSUME NEW l \in Loads PROVE load'[l] \in Answers \cup {NoLoad}
        OBVIOUS
      <4>1. CASE Unserved(l)
        BY <2>2, <4>1 DEF Crash, Unserved, Lost, Answers
      <4>2. CASE ~Unserved(l) /\ Asked(l)
        <5>1. load'[l] = [load[l] EXCEPT !.old = load[l].old \/ behind \/
                                                 \E p \in Puts : Writing(p)]
          BY <2>2, <4>2 DEF Crash
        <5> QED
          BY <4>2, <5>1 DEF Answers
      <4>3. CASE ~Unserved(l) /\ ~Asked(l)
        BY <2>2, <4>3 DEF Crash, TypeOK
      <4> QED
        BY <4>1, <4>2, <4>3
    <3>3. astray' \in [Tabs -> BOOLEAN]
      BY <2>2 DEF Crash, TypeOK
    <3>4. /\ put' \in [Puts -> Requests \cup {NoPut}]
          /\ load' \in [Loads -> Answers \cup {NoLoad}]
      BY <2>2, <3>1, <3>2 DEF Crash
    <3> QED
      BY <2>2, <3>1, <3>3, <3>4 DEF Crash, TypeOK
  <2>3. ASSUME NEW t \in Tabs, NEW list \in SUBSET Apps, NEW some \in BOOLEAN,
               Gets(t, list, some)
        PROVE  /\ put' \in [Puts -> Requests \cup {NoPut}]
               /\ \A p \in Puts, u \in Tabs : Of(p, u)' => put'[p].app \in Apps
               /\ page' \in [Tabs -> SUBSET Apps]
               /\ listed' \in [Tabs -> BOOLEAN]
               /\ loading' \in [Tabs -> BOOLEAN]
    <3>1. \A p \in Puts : /\ put'[p] \in Requests \cup {NoPut}
                          /\ ~Of(p, t)'
                          /\ \A u \in Tabs : u # t =>
                                /\ Of(p, u)' <=> Of(p, u)
                                /\ Of(p, u) => put'[p] = put[p]
      BY <2>3, GetsPuts
    <3>2. \A p \in Puts, u \in Tabs : Of(p, u)' => put'[p].app \in Apps
      BY <3>1 DEF TypeOK
    <3>3. put' \in [Puts -> Requests \cup {NoPut}]
      BY <2>3, <3>1 DEF Gets
    <3> QED
      BY <2>3, <3>2, <3>3 DEF Gets, TypeOK
  <2>4. ASSUME NEW t \in Tabs, Page(t) PROVE TypeOK'
    <3>1. CASE Close(t)
      <4>1. Gets(t, {}, FALSE)
        BY <3>1 DEF Close
      <4>2. load' \in [Loads -> Answers \cup {NoLoad}]
        BY <3>1 DEF Close, TypeOK
      <4>3. {} \in SUBSET Apps /\ FALSE \in BOOLEAN
        OBVIOUS
      <4>4. /\ put' \in [Puts -> Requests \cup {NoPut}]
            /\ \A p \in Puts, u \in Tabs : Of(p, u)' => put'[p].app \in Apps
            /\ page' \in [Tabs -> SUBSET Apps]
            /\ listed' \in [Tabs -> BOOLEAN]
            /\ loading' \in [Tabs -> BOOLEAN]
        BY <2>3, <4>1, <4>3
      <4>5. UNCHANGED <<up, hidden, file, alone, behind, astray>>
        BY <3>1 DEF Close
      <4> QED
        BY <4>2, <4>4, <4>5 DEF TypeOK
    <3>2. ASSUME NEW l \in Loads, Reload(t, l) PROVE TypeOK'
      <4>1. load' \in [Loads -> Answers \cup {NoLoad}]
        BY <3>2 DEF Reload, Answers, TypeOK
      <4> QED
        BY <3>2, <4>1 DEF Reload, TypeOK, Of, Free
    <3>3. ASSUME NEW a \in Apps, NEW p \in Puts, Toggle(t, p, a) PROVE TypeOK'
      <4>1. Flip(t, a) \in SUBSET Apps
        BY <3>3 DEF Flip, TypeOK
      <4>2. put'[p] \in Requests /\ put'[p].app \in Apps
        BY <3>3, <4>1 DEF Toggle, Requests, Phases, TypeOK
      <4>3. \A q \in Puts : q # p => put'[q] = put[q]
        BY <3>3 DEF Toggle, TypeOK
      <4>4. \A q \in Puts, u \in Tabs : Of(q, u)' => put'[q].app \in Apps
        BY <4>2, <4>3 DEF Of, Free, TypeOK
      <4>5. put' \in [Puts -> Requests \cup {NoPut}]
        BY <3>3, <4>2 DEF Toggle, TypeOK
      <4>6. astray' \in [Tabs -> BOOLEAN] /\ page' \in [Tabs -> SUBSET Apps]
        BY <3>3, <4>1 DEF Toggle, TypeOK
      <4> QED
        BY <3>3, <4>4, <4>5, <4>6 DEF Toggle, TypeOK
    <3> QED
      BY <2>4, <3>1, <3>2, <3>3 DEF Page
  <2>5. ASSUME NEW l \in Loads, Loading(l) PROVE TypeOK'
    <3>1. load[l] \in Answers
      BY <2>5, OfTab DEF Loading, ReadFlag
    <3>2. load[l].tab \in Tabs /\ load[l].seen \in SUBSET Apps /\ load[l].old \in BOOLEAN
      BY <2>5, OfTab DEF Loading, ReadFlag
    <3>3. CASE Show(l)
      <4>1. Gets(load[l].tab, load[l].seen, TRUE)
        BY <3>3 DEF Show
      <4>2. /\ put' \in [Puts -> Requests \cup {NoPut}]
            /\ \A p \in Puts, u \in Tabs : Of(p, u)' => put'[p].app \in Apps
            /\ page' \in [Tabs -> SUBSET Apps]
            /\ listed' \in [Tabs -> BOOLEAN]
            /\ loading' \in [Tabs -> BOOLEAN]
        BY <2>3, <3>2, <4>1
      <4>3. astray' \in [Tabs -> BOOLEAN] /\ load' \in [Loads -> Answers \cup {NoLoad}]
        BY <3>2, <3>3 DEF Show, TypeOK
      <4>4. UNCHANGED <<up, hidden, file, alone, behind>>
        BY <3>3 DEF Show
      <4> QED
        BY <4>2, <4>3, <4>4 DEF TypeOK
    <3>4. CASE LoadFails(l)
      <4>1. Gets(load[l].tab, {}, FALSE) /\ {} \in SUBSET Apps /\ FALSE \in BOOLEAN
        BY <3>4 DEF LoadFails
      <4>2. /\ put' \in [Puts -> Requests \cup {NoPut}]
            /\ \A p \in Puts, u \in Tabs : Of(p, u)' => put'[p].app \in Apps
            /\ page' \in [Tabs -> SUBSET Apps]
            /\ listed' \in [Tabs -> BOOLEAN]
            /\ loading' \in [Tabs -> BOOLEAN]
        BY <2>3, <3>2, <4>1
      <4>3. load' \in [Loads -> Answers \cup {NoLoad}]
        BY <3>4 DEF LoadFails, TypeOK
      <4>4. UNCHANGED <<up, hidden, file, alone, behind, astray>>
        BY <3>4 DEF LoadFails
      <4> QED
        BY <4>2, <4>3, <4>4 DEF TypeOK
    <3>5. ASSUME NEW a \in Apps, ReadFlag(l, a) PROVE TypeOK'
      <4>1. load'[l] \in Answers
        BY <3>1, <3>5 DEF ReadFlag, Answers, TypeOK
      <4>2. load' \in [Loads -> Answers \cup {NoLoad}]
        BY <3>5, <4>1 DEF ReadFlag, TypeOK
      <4> QED
        BY <3>5, <4>2 DEF ReadFlag, TypeOK, Of, Free
    <3> QED
      BY <2>5, <3>3, <3>4, <3>5 DEF Loading
  <2>6. ASSUME NEW p \in Puts, Request(p) PROVE TypeOK'
    <3>1. \A q \in Puts : q # p => put'[q] = put[q]
      BY <2>6 DEF Request, Post, SetHidden, Fill, Rename, WriteFails,
         Unreachable, Answer, TypeOK
    <3>2. put'[p] \in Requests \cup {NoPut} /\ \A t \in Tabs : Of(p, t)' => put'[p].app \in Apps
      <4>1. CASE Answer(p)
        BY <4>1 DEF Answer, NoPut, Of, Free, TypeOK
      <4>2. ASSUME NEW list \in SUBSET Apps, Post(p, list)
            PROVE  put'[p] \in Requests \cup {NoPut} /\ \A t \in Tabs : Of(p, t)' => put'[p].app \in Apps
        BY <4>2, NoTabAssumption DEF Post, Requests, Phases, Of, TypeOK
      <4>3. CASE SetHidden(p) \/ Fill(p)
        <5>1. put[p] \in Requests /\ ~Free(p)
          BY <4>3 DEF SetHidden, Fill, Free
        <5>2. \E ph \in {"write", "rename"} : put'[p] = [put[p] EXCEPT !.phase = ph]
          BY <4>3 DEF SetHidden, Fill, TypeOK
        <5> QED
          BY <5>1, <5>2 DEF Requests, Phases, Of, TypeOK
      <4>4. CASE Rename(p) \/ WriteFails(p) \/ Unreachable(p)
        <5>1. put[p] \in Requests /\ ~Free(p)
          BY <4>4 DEF Rename, WriteFails, Unreachable, Writing, Free
        <5>2. \E ph \in {"ok", "failed"} :
                put'[p] = [put[p] EXCEPT !.phase = ph, !.list = {}]
          BY <4>4 DEF Rename, WriteFails, Unreachable, TypeOK, Answered
        <5> QED
          BY <5>1, <5>2 DEF Requests, Phases, Of, TypeOK
      <4> QED
        BY <2>6, <4>1, <4>2, <4>3, <4>4 DEF Request
    <3>3. put' \in [Puts -> Requests \cup {NoPut}]
      <4>1. \E r : put' = [put EXCEPT ![p] = r]
        BY <2>6 DEF Request, Post, SetHidden, Fill, Rename, WriteFails,
           Unreachable, Answer
      <4> QED
        BY <3>2, <4>1 DEF TypeOK
    <3>4. \A q \in Puts, t \in Tabs : Of(q, t)' => put'[q].app \in Apps
      BY <3>1, <3>2 DEF Of, Free, TypeOK
    <3>5. page' \in [Tabs -> SUBSET Apps]
      <4>1. CASE Answer(p) /\ put[p].phase = "failed" /\ put[p].tab # NoTab
        <5>1. put[p] \in Requests /\ ~Free(p)
          BY <4>1 DEF Free
        <5>2. put[p].tab \in Tabs
          BY <4>1, <5>1 DEF Requests
        <5>3. put[p].app \in Apps
          BY <5>1, <5>2 DEF TypeOK, Of
        <5>4. Flip(put[p].tab, put[p].app) \in SUBSET Apps
          BY <5>2, <5>3 DEF Flip, TypeOK
        <5> QED
          BY <4>1, <5>4 DEF Answer, TypeOK
      <4>2. CASE page' = page
        BY <4>2 DEF TypeOK
      <4> QED
        BY <2>6, <4>1, <4>2 DEF Request, Post, SetHidden, Fill, Rename,
           WriteFails, Unreachable, Answer
    <3>6. load' \in [Loads -> Answers \cup {NoLoad}]
      <4>1. CASE SetHidden(p)
        <5>1. \A l \in Loads : load'[l] \in Answers \cup {NoLoad}
          BY <4>1 DEF SetHidden, TypeOK, Answers
        <5> QED
          BY <4>1, <5>1 DEF SetHidden
      <4>2. CASE load' = load
        BY <4>2 DEF TypeOK
      <4> QED
        BY <2>6, <4>1, <4>2 DEF Request, Post, Fill, Rename, WriteFails,
           Unreachable, Answer
    <3>7. /\ up' \in BOOLEAN /\ hidden' \in SUBSET Apps /\ file' \in Contents
          /\ alone' \in BOOLEAN /\ behind' \in BOOLEAN /\ astray' \in [Tabs -> BOOLEAN]
          /\ UNCHANGED <<listed, loading>>
      <4>1. ~Free(p) => put[p].list \in SUBSET Apps
        BY DEF Requests
      <4> QED
        BY <2>6, <4>1 DEF Request, Post, SetHidden, Fill, Rename, WriteFails,
           Unreachable, Answer, TypeOK, Contents, Free
    <3> QED
      BY <3>3, <3>4, <3>5, <3>6, <3>7 DEF TypeOK
  <2>7. CASE UNCHANGED vars
    BY <2>7 DEF vars, TypeOK, Of, Free
  <2> QED
    BY <2>1, <2>2, <2>4, <2>5, <2>6, <2>7 DEF Next
<1> QED
  BY <1>1, <1>2, PTL DEF Spec

-----------------------------------------------------------------------------
(* Writers.                                                                 *)

\* Nobody writes while the server is down.  A writer that has had no rival is
\* the only one, and writes what is in memory; only then may a write make up
\* for what an earlier overlap left open.
WritersInv ==
    /\ \A p \in Puts : Writing(p) => up
    /\ ~alone => behind
    /\ \A p, q \in Puts : alone /\ Writing(p) =>
          put[p].list = hidden /\ (Writing(q) => q = p)
    /\ MirroredWhenQuiet

\* The steps of pages and loads leave alone what the store and its writers
\* depend on.
LEMMA PageKeeps ==
    ASSUME TypeOK, (\E t \in Tabs : Page(t)) \/ (\E l \in Loads : Loading(l))
    PROVE  /\ UNCHANGED <<up, hidden, file, alone, behind>>
           /\ \A p \in Puts : /\ Writing(p)' <=> Writing(p)
                              /\ Writing(p) => put'[p].list = put[p].list
<1> USE Slots DEF store, screen, history
<1>1. UNCHANGED <<up, hidden, file, alone, behind>>
  BY DEF Page, Loading, Close, Reload, Show, LoadFails, ReadFlag, Toggle
<1>2. ASSUME NEW t \in Tabs, NEW list, NEW some, Gets(t, list, some)
      PROVE  \A p \in Puts : /\ Writing(p)' <=> Writing(p)
                             /\ Writing(p) => put'[p].list = put[p].list
  BY <1>2, GetsPuts DEF Writing, Free
<1>3. ASSUME NEW l \in Loads, Show(l) \/ LoadFails(l)
      PROVE  load[l].tab \in Tabs
  BY <1>3, OfTab
<1>4. ASSUME NEW t \in Tabs, NEW a \in Apps, NEW q \in Puts, Toggle(t, q, a)
      PROVE  \A p \in Puts : /\ Writing(p)' <=> Writing(p)
                             /\ Writing(p) => put'[p].list = put[p].list
  BY <1>4 DEF Toggle, Writing, Free, TypeOK
<1>5. CASE UNCHANGED put
  <2>1. \A p \in Puts : put'[p] = put[p]
    BY <1>5
  <2>2. \A p \in Puts : /\ Writing(p)' <=> Writing(p)
                        /\ Writing(p) => put'[p].list = put[p].list
    BY <2>1 DEF Writing
  <2> QED
    BY <1>1, <2>2
<1>6. \/ UNCHANGED put
      \/ \E t \in Tabs : \E list, some : Gets(t, list, some)
      \/ \E t \in Tabs, a \in Apps, q \in Puts : Toggle(t, q, a)
  BY <1>3 DEF Page, Loading, Close, Reload, Show, LoadFails, ReadFlag
<1> QED
  BY <1>1, <1>2, <1>4, <1>5, <1>6

LEMMA WritersStep ==
    ASSUME TypeOK, WritersInv, [Next]_vars
    PROVE  WritersInv'
<1> USE Slots DEF store, screen, history
<1>1. CASE Load \/ Crash \/ Mend
  <2>1. \A p \in Puts : ~Writing(p)'
    <3>1. CASE Load \/ Mend
      BY <3>1 DEF Load, Mend, Writing, WritersInv
    <3>2. CASE Crash
      BY <3>2 DEF Crash, Writing, TypeOK, Answered, Requests, Free
    <3> QED
      BY <1>1, <3>1, <3>2
  <2> QED
    BY <1>1, <2>1 DEF Load, Crash, Mend, WritersInv, MirroredWhenQuiet, Writing
<1>2. CASE (\E t \in Tabs : Page(t)) \/ (\E l \in Loads : Loading(l))
  <2>1. UNCHANGED <<up, hidden, file, alone, behind>>
        /\ \A p \in Puts : /\ Writing(p)' <=> Writing(p)
                           /\ Writing(p) => put'[p].list = put[p].list
    BY <1>2, PageKeeps
  <2> QED
    BY <2>1 DEF WritersInv, MirroredWhenQuiet
<1>3. ASSUME NEW p \in Puts, Request(p) PROVE WritersInv'
  <2>1. \A q \in Puts : q # p => put'[q] = put[q]
    BY <1>3 DEF Request, Post, SetHidden, Fill, Rename, WriteFails, Unreachable,
       Answer, TypeOK
  <2>2. CASE SetHidden(p)
    <3>1. Writing(p)' /\ put'[p].list = hidden' /\ ~Writing(p)
      BY <2>2 DEF SetHidden, Writing, TypeOK, Requests, Free
    <3> QED
      BY <2>1, <2>2, <3>1 DEF SetHidden, WritersInv, MirroredWhenQuiet, Writing
  <2>3. CASE Fill(p)
    <3>1. Writing(p) /\ Writing(p)' /\ put'[p].list = put[p].list
      BY <2>3 DEF Fill, Writing, TypeOK, Requests, Free
    <3> QED
      BY <2>1, <2>3, <3>1 DEF Fill, WritersInv, MirroredWhenQuiet, Writing
  <2>4. CASE Rename(p)
    <3>1. Writing(p) /\ ~Writing(p)' /\ file' = put[p].list
      BY <2>4 DEF Rename, Writing, TypeOK, Requests, Free, Answered
    <3> QED
      BY <2>1, <2>4, <3>1 DEF Rename, WritersInv, MirroredWhenQuiet, Writing
  <2>5. CASE WriteFails(p)
    <3>1. Writing(p) /\ ~Writing(p)'
      BY <2>5 DEF WriteFails, Writing, TypeOK, Requests, Free, Answered
    <3> QED
      BY <2>1, <2>5, <3>1 DEF WriteFails, WritersInv, MirroredWhenQuiet, Writing
  <2>6. CASE Unreachable(p) \/ Answer(p)
    <3>1. ~Writing(p) /\ ~Writing(p)'
      <4>1. CASE Unreachable(p)
        <5>1. put[p].phase = "sent" /\ put[p] \in Requests
          BY <4>1 DEF Unreachable, Free
        <5>2. put'[p] = [put[p] EXCEPT !.phase = "failed", !.list = {}]
          BY <4>1 DEF Unreachable, Answered, TypeOK
        <5> QED
          BY <5>1, <5>2 DEF Writing, Requests
      <4>2. CASE Answer(p)
        BY <4>2 DEF Answer, Writing, TypeOK, NoPut
      <4> QED
        BY <2>6, <4>1, <4>2
    <3> QED
      BY <2>1, <2>6, <3>1 DEF Unreachable, Answer, WritersInv,
         MirroredWhenQuiet, Writing
  <2>7. ASSUME NEW list \in SUBSET Apps, Post(p, list) PROVE WritersInv'
    <3>1. ~Writing(p) /\ ~Writing(p)'
      BY <2>7 DEF Post, Writing, TypeOK, Free
    <3> QED
      BY <2>1, <2>7, <3>1 DEF Post, WritersInv, MirroredWhenQuiet, Writing
  <2> QED
    BY <1>3, <2>2, <2>3, <2>4, <2>5, <2>6, <2>7 DEF Request
<1>4. CASE UNCHANGED vars
  BY <1>4 DEF vars, WritersInv, MirroredWhenQuiet, Writing
<1> QED
  BY <1>1, <1>2, <1>3, <1>4 DEF Next

LEMMA WritersInvariant == Spec => [](TypeOK /\ WritersInv)
<1>1. Init => WritersInv
  BY DEF Init, WritersInv, MirroredWhenQuiet, Writing, NoPut
<1> QED
  BY <1>1, WritersStep, TypeCorrect, PTL DEF Spec

\* File and memory agree when the last write ran alone and all are done.
THEOREM Mirrored == Spec => []MirroredWhenQuiet
BY WritersInvariant, PTL DEF WritersInv

-----------------------------------------------------------------------------
(* Pages.                                                                   *)

\* What the server filters with, or will when it runs again.
Truth == IF up THEN hidden ELSE file

Toggled(S, a) == IF a \in S THEN S \ {a} ELSE S \cup {a}

\* A flag that the page shows and the server has not taken over, or whose
\* way back is due.
Open(p, t) == Of(p, t) /\ put[p].phase \in {"sent", "failed"}

\* What tab t has in its list, up to one flag that is under way.
Right(t) ==
    listed[t] =>
         /\ \A p \in Puts : Open(p, t) =>
              /\ page[t] = Toggled(Truth, put[p].app)
              /\ put[p].phase = "sent" => put[p].list = page[t]
              /\ \A q \in Puts : Open(q, t) => q = p
         /\ (\A p \in Puts : ~Open(p, t)) => page[t] = Truth

\* What has been read for the answer of a load.
Reads(l) == Asked(l) => load[l].seen = Truth \ load[l].todo

PagesInv ==
    /\ up => file # Torn
    /\ \A p \in Puts, t \in Tabs : Of(p, t) => listed[t]
    \* While the file has been unreadable from the beginning, no load has got
    \* anything.
    /\ file = Torn =>
         /\ \A t \in Tabs : listed[t] => Apps = {}
         /\ \A l \in Loads : Asked(l) => load[l].todo = Apps /\ load[l].seen = {}
    /\ file # Torn =>
         /\ \A t \in Tabs : astray[t] \/ Right(t)
         /\ \A l \in Loads : Asked(l) => load[l].old \/ Reads(l)

LEMMA ToggledTwice ==
    ASSUME NEW S, NEW a PROVE Toggled(Toggled(S, a), a) = S
BY DEF Toggled

\* A step that leaves alone what tab t depends on.
LEMMA RightKept ==
    ASSUME NEW t \in Tabs, Right(t), Truth' = Truth,
           listed'[t] = listed[t], page'[t] = page[t],
           \A p \in Puts : /\ Open(p, t)' <=> Open(p, t)
                           /\ Open(p, t) => /\ put'[p].app = put[p].app
                                            /\ put'[p].list = put[p].list \/ put'[p].phase # "sent"
                                            /\ put'[p].phase = "sent"
                                                 => put[p].phase = "sent"
    PROVE  Right(t)'
BY DEF Right

\* A step that leaves alone what a load depends on.
LEMMA ReadsKept ==
    ASSUME NEW l \in Loads, Reads(l), Truth' = Truth, load'[l] = load[l]
    PROVE  Reads(l)'
BY DEF Reads, Asked

\* The steps of the process.
LEMMA RightProcess ==
    ASSUME TypeOK, WritersInv, PagesInv, file # Torn, Load \/ Mend \/ Crash
    PROVE  /\ \A t \in Tabs : astray'[t] \/ Right(t)'
           /\ \A l \in Loads : Asked(l)' => load'[l].old \/ Reads(l)'
<1> USE Slots DEF store, screen, history
<1>1. ~Mend
  BY DEF Mend
<1>2. CASE Load
  <2>1. Truth' = Truth /\ UNCHANGED <<load, listed, page, put, astray>>
    BY <1>2 DEF Load, Truth
  <2> QED
    BY <2>1 DEF PagesInv, Right, Reads, Open, Of, Free, Asked
<1>3. CASE Crash
  <2> DEFINE lost == behind \/ \E p \in Puts : Writing(p)
  <2>1. up /\ ~up' /\ file' = file /\ page' = page /\ listed' = listed
    BY <1>3 DEF Crash
  <2>2. ~lost => Truth' = Truth
    BY <2>1 DEF Truth, WritersInv, MirroredWhenQuiet
  <2>3. ASSUME NEW t \in Tabs, ~astray'[t] PROVE Right(t)'
    <3>1. ~astray[t] /\ ~lost
      BY <1>3, <2>3 DEF Crash
    <3>2. \A p \in Puts : ~Writing(p)
      BY <3>1
    <3>3. ASSUME NEW p \in Puts
          PROVE  /\ Open(p, t)' <=> Open(p, t)
                 /\ Open(p, t) => /\ put'[p].app = put[p].app
                                  /\ put'[p].phase # "sent"
      <4>1. CASE put[p].phase = "sent"
        <5>1. put[p] \in Requests /\ ~Free(p)
          BY <4>1 DEF Free
        <5>2. put'[p] = [put[p] EXCEPT !.phase = "failed", !.list = {}]
          BY <1>3, <4>1 DEF Crash, Answered
        <5> QED
          BY <4>1, <5>1, <5>2 DEF Requests, Open, Of, Free
      <4>2. CASE put[p].phase # "sent"
        <5>1. put'[p] = put[p]
          BY <1>3, <3>2, <4>2 DEF Crash, Writing
        <5> QED
          BY <4>2, <5>1 DEF Open, Of, Free
      <4> QED
        BY <4>1, <4>2
    <3>4. Right(t)
      BY <3>1 DEF PagesInv
    <3> QED
      BY <2>1, <2>2, <3>1, <3>3, <3>4, RightKept
  <2>4. ASSUME NEW l \in Loads, Asked(l)', ~load'[l].old PROVE Reads(l)'
    <3>1. ~Unserved(l) /\ Asked(l)
      BY <1>3, <2>4 DEF Crash, Asked, Lost
    <3>2. load'[l] = [load[l] EXCEPT !.old = load[l].old \/ lost]
      BY <1>3, <3>1 DEF Crash
    <3>3. /\ ~load[l].old /\ ~lost /\ load'[l].seen = load[l].seen
          /\ load'[l].todo = load[l].todo
      BY <2>4, <3>1, <3>2 DEF Answers
    <3> QED
      BY <2>2, <3>1, <3>3 DEF PagesInv, Reads
  <2> QED
    BY <2>3, <2>4
<1> QED
  BY <1>1, <1>2, <1>3

\* A tab gets a list that is true, or none.
LEMMA RightGets ==
    ASSUME TypeOK, PagesInv, NEW t \in Tabs, NEW list, NEW some,
           Gets(t, list, some), some => list = Truth \/ astray'[t],
           file # Torn, Truth' = Truth,
           \A u \in Tabs : u # t => astray'[u] = astray[u]
    PROVE  \A u \in Tabs : astray'[u] \/ Right(u)'
<1>1. /\ listed'[t] = some /\ page'[t] = list
      /\ \A u \in Tabs : u # t => listed'[u] = listed[u] /\ page'[u] = page[u]
  BY DEF Gets, TypeOK
<1>2. \A p \in Puts :
         /\ ~Of(p, t)'
         /\ put'[p].phase = put[p].phase
         /\ \A u \in Tabs : u # t =>
               /\ Of(p, u)' <=> Of(p, u)
               /\ Of(p, u) => put'[p] = put[p]
  BY GetsPuts
<1>3. astray'[t] \/ Right(t)'
  BY <1>1, <1>2 DEF Right, Open
<1>4. ASSUME NEW u \in Tabs, u # t, ~astray'[u] PROVE Right(u)'
  <2>1. Right(u)
    BY <1>4 DEF PagesInv
  <2>2. \A p \in Puts : /\ Open(p, u)' <=> Open(p, u)
                        /\ Open(p, u) => put'[p] = put[p]
    BY <1>2, <1>4 DEF Open
  <2> QED
    BY <1>1, <1>4, <2>1, <2>2, RightKept
<1> QED
  BY <1>3, <1>4

\* The steps of a tab and of its loads.
LEMMA RightPage ==
    ASSUME TypeOK, PagesInv, file # Torn,
           (\E t \in Tabs : Page(t)) \/ (\E l \in Loads : Loading(l))
    PROVE  /\ \A t \in Tabs : astray'[t] \/ Right(t)'
           /\ \A l \in Loads : Asked(l)' => load'[l].old \/ Reads(l)'
<1> USE Slots DEF store, screen, history
<1>1. /\ Truth' = Truth /\ Truth \in SUBSET Apps
      /\ UNCHANGED <<up, hidden, file>>
  BY PageKeeps DEF Truth, TypeOK, Contents
<1>2. ASSUME NEW l \in Loads, load'[l] = load[l]
      PROVE  Asked(l)' => load'[l].old \/ Reads(l)'
  BY <1>1, <1>2, ReadsKept DEF PagesInv, Asked
<1>3. ASSUME NEW t \in Tabs, Close(t)
      PROVE  /\ \A u \in Tabs : astray'[u] \/ Right(u)'
             /\ \A l \in Loads : Asked(l)' => load'[l].old \/ Reads(l)'
  <2>1. Gets(t, {}, FALSE) /\ astray' = astray
    BY <1>3 DEF Close
  <2>2. \A l \in Loads : load'[l] = load[l] \/ ~Asked(l)'
    BY <1>3 DEF Close, Asked, NoLoad
  <2> QED
    BY <1>1, <1>2, <2>1, <2>2, RightGets
<1>4. ASSUME NEW t \in Tabs, NEW m \in Loads, Reload(t, m)
      PROVE  /\ \A u \in Tabs : astray'[u] \/ Right(u)'
             /\ \A l \in Loads : Asked(l)' => load'[l].old \/ Reads(l)'
  <2>1. UNCHANGED <<listed, page, put, astray>>
    BY <1>4 DEF Reload
  <2>2. \A u \in Tabs : astray'[u] \/ Right(u)'
    BY <1>1, <2>1 DEF PagesInv, Right, Open, Of, Free
  <2>3. /\ load'[m].seen = {} /\ load'[m].todo = Apps
        /\ \A l \in Loads : l # m => load'[l] = load[l]
    BY <1>4 DEF Reload, TypeOK
  <2> QED
    BY <1>1, <1>2, <2>2, <2>3 DEF Reads
<1>6. ASSUME NEW m \in Loads, NEW a \in Apps, ReadFlag(m, a)
      PROVE  /\ \A u \in Tabs : astray'[u] \/ Right(u)'
             /\ \A l \in Loads : Asked(l)' => load'[l].old \/ Reads(l)'
  <2>1. UNCHANGED <<listed, page, put, astray>>
    BY <1>6 DEF ReadFlag
  <2>2. \A u \in Tabs : astray'[u] \/ Right(u)'
    BY <1>1, <2>1 DEF PagesInv, Right, Open, Of, Free
  <2>3. up /\ Asked(m) /\ a \in load[m].todo /\ load[m] \in Answers
    BY <1>6 DEF ReadFlag
  <2>4. /\ load'[m].todo = load[m].todo \ {a} /\ load'[m].old = load[m].old
        /\ load'[m].seen = IF a \in hidden THEN load[m].seen \cup {a} ELSE load[m].seen
        /\ \A l \in Loads : l # m => load'[l] = load[l]
    BY <1>6, <2>3 DEF ReadFlag, TypeOK, Answers
  <2>5. ~load[m].old => load[m].seen = hidden \ load[m].todo
    BY <2>3 DEF PagesInv, Reads, Truth
  <2>6. ~load[m].old => load'[m].seen = hidden \ load'[m].todo
    BY <2>3, <2>4, <2>5
  <2> QED
    BY <1>1, <1>2, <2>2, <2>3, <2>4, <2>6 DEF Reads, Truth
<1>7. ASSUME NEW m \in Loads, Show(m) \/ LoadFails(m)
      PROVE  /\ \A u \in Tabs : astray'[u] \/ Right(u)'
             /\ \A l \in Loads : Asked(l)' => load'[l].old \/ Reads(l)'
  <2> DEFINE t == load[m].tab
  <2>1. load[m] \in Answers /\ t \in Tabs
    BY <1>7, OfTab
  <2>2. \A l \in Loads : load'[l] = load[l] \/ ~Asked(l)'
    <3>1. load' = [load EXCEPT ![m] = NoLoad] /\ load \in [Loads -> Answers \cup {NoLoad}]
      BY <1>7 DEF Show, LoadFails, TypeOK
    <3> QED
      BY <3>1 DEF Asked, NoLoad
  <2>3. CASE Show(m)
    <3>1. /\ Gets(t, load[m].seen, TRUE) /\ astray'[t] = load[m].old
          /\ \A u \in Tabs : u # t => astray'[u] = astray[u]
          /\ Asked(m) /\ load[m].todo = {}
      BY <2>1, <2>3 DEF Show, TypeOK
    <3>2. load[m].old \/ load[m].seen = Truth
      BY <1>1, <3>1 DEF PagesInv, Reads
    <3>3. load[m].seen = Truth \/ astray'[t]
      BY <3>1, <3>2
    <3> HIDE DEF t
    <3> QED
      BY <1>1, <1>2, <2>1, <2>2, <3>1, <3>3, RightGets
  <2>4. CASE LoadFails(m)
    <3>1. Gets(t, {}, FALSE) /\ astray' = astray
      BY <2>4 DEF LoadFails
    <3> HIDE DEF t
    <3> QED
      BY <1>1, <1>2, <2>1, <2>2, <3>1, RightGets
  <2> QED
    BY <1>7, <2>3, <2>4
<1>8. ASSUME NEW t \in Tabs, NEW a \in Apps, NEW q \in Puts, Toggle(t, q, a)
      PROVE  /\ \A u \in Tabs : astray'[u] \/ Right(u)'
             /\ \A l \in Loads : Asked(l)' => load'[l].old \/ Reads(l)'
  <2>1. /\ listed[t] /\ listed' = listed /\ load' = load /\ Free(q)
        /\ page'[t] = Toggled(page[t], a)
        /\ put'[q] = [phase |-> "sent", tab |-> t, app |-> a, list |-> page'[t]]
        /\ \A p \in Puts : p # q => put'[p] = put[p]
        /\ \A u \in Tabs : u # t => page'[u] = page[u] /\ astray'[u] = astray[u]
    BY <1>8 DEF Toggle, Flip, Toggled, TypeOK
  <2>2. ASSUME NEW u \in Tabs, u # t, ~astray'[u] PROVE Right(u)'
    <3>1. Right(u)
      BY <2>1, <2>2 DEF PagesInv
    <3>2. \A p \in Puts : /\ Open(p, u)' <=> Open(p, u)
                          /\ Open(p, u) => put'[p] = put[p]
      BY <2>1, <2>2 DEF Open, Of, Free
    <3> QED
      BY <1>1, <2>1, <2>2, <3>1, <3>2, RightKept
  <2>3. ASSUME ~astray'[t] PROVE Right(t)'
    <3>1. ~astray[t] /\ \A p \in Puts : ~Open(p, t)
      BY <1>8, <2>3 DEF Toggle, TypeOK, Open
    <3>2. page[t] = Truth
      BY <2>1, <3>1 DEF PagesInv, Right
    <3>3. \A p \in Puts : Open(p, t)' <=> p = q
      BY <2>1, <3>1 DEF Open, Of, Free
    <3> QED
      BY <1>1, <2>1, <3>2, <3>3 DEF Right
  <2> QED
    BY <1>2, <2>1, <2>2, <2>3
<1> QED
  BY <1>3, <1>4, <1>6, <1>7, <1>8 DEF Page, Loading

\* The steps of a request, for a tab.
LEMMA RightRequest ==
    ASSUME TypeOK, WritersInv, PagesInv, NEW t \in Tabs, NEW p \in Puts,
           Request(p), file # Torn, ~astray'[t]
    PROVE  Right(t)'
<1> USE Slots DEF store, screen, history
<1>1. /\ ~astray[t] /\ Right(t) /\ listed' = listed
      /\ \A q \in Puts : q # p => put'[q] = put[q]
  <2>1. ~astray[t]
    BY DEF Request, Post, SetHidden, Fill, Rename, WriteFails, Unreachable,
       Answer, TypeOK
  <2>2. listed' = listed /\ \A q \in Puts : q # p => put'[q] = put[q]
    BY DEF Request, Post, SetHidden, Fill, Rename, WriteFails, Unreachable,
       Answer, TypeOK
  <2> QED
    BY <2>1, <2>2 DEF PagesInv
<1>2. \A q \in Puts : q # p => (Open(q, t)' <=> Open(q, t))
  BY <1>1 DEF Open, Of, Free
<1>3. CASE SetHidden(p)
  <2>1. Open(p, t) /\ ~Open(p, t)'
    BY <1>3 DEF SetHidden, Open, Of, Free, Requests, TypeOK
  <2>2. /\ put[p].phase = "sent" /\ up' /\ hidden' = put[p].list
        /\ page' = page
    BY <1>3 DEF SetHidden
  <2>3. listed[t]
    BY <2>1 DEF PagesInv, Open
  <2>4. page[t] = put[p].list /\ \A q \in Puts : Open(q, t) => q = p
    BY <1>1, <2>1, <2>2, <2>3 DEF Right
  <2>5. \A q \in Puts : ~Open(q, t)'
    BY <1>2, <2>1, <2>4
  <2> QED
    BY <1>1, <2>2, <2>3, <2>4, <2>5 DEF Right, Truth
<1>4. CASE Answer(p) /\ Open(p, t)
  <2>1. put[p].phase = "failed" /\ put[p].tab = t /\ t # NoTab
    BY <1>4, NoTabAssumption DEF Answer, Open, Of
  <2>2. listed[t]
    BY <1>4 DEF PagesInv, Open
  <2>3. page'[t] = Toggled(page[t], put[p].app)
    BY <1>4, <2>1 DEF Answer, Flip, Toggled, TypeOK
  <2>4. page[t] = Toggled(Truth, put[p].app) /\ \A q \in Puts : Open(q, t) => q = p
    BY <1>1, <1>4, <2>2 DEF Right
  <2>5. page'[t] = Truth
    BY <2>3, <2>4, ToggledTwice
  <2>6. Truth' = Truth /\ put'[p] = NoPut
    BY <1>4 DEF Answer, Truth, TypeOK
  <2>7. \A q \in Puts : ~Open(q, t)'
    BY <1>2, <2>4, <2>6 DEF Open, Of, Free, NoPut
  <2> QED
    BY <1>1, <2>2, <2>5, <2>6, <2>7 DEF Right
<1>5. CASE \/ Fill(p) \/ Rename(p) \/ WriteFails(p) \/ Unreachable(p)
           \/ (\E list \in SUBSET Apps : Post(p, list))
           \/ (Answer(p) /\ ~Open(p, t))
  <2>1. Truth' = Truth
    BY <1>5 DEF Fill, Rename, WriteFails, Unreachable, Answer, Post, Truth,
       WritersInv, Writing
  <2>2. page'[t] = page[t]
    <3>1. CASE Answer(p) /\ ~Open(p, t)
      BY <3>1 DEF Answer, Open, Of, Free, TypeOK
    <3> QED
      BY <1>5, <3>1 DEF Fill, Rename, WriteFails, Unreachable, Post
  <2>3. /\ Open(p, t)' <=> Open(p, t)
        /\ Open(p, t) => /\ put'[p].app = put[p].app
                         /\ put'[p].phase # "sent"
    <3>1. CASE Fill(p) \/ Rename(p)
      <4>1. put[p].phase \in {"write", "rename"} /\ put[p] \in Requests
        BY <3>1 DEF Fill, Rename, Free
      <4>2. put'[p].phase \in {"rename", "ok"}
        BY <3>1, <4>1 DEF Fill, Rename, Requests, TypeOK, Answered
      <4> QED
        BY <4>1, <4>2 DEF Open
    <3>2. CASE WriteFails(p)
      <4>1. ~Of(p, t) /\ put[p] \in Requests
        BY <3>2 DEF WriteFails, TypeOK, Writing, Free
      <4>2. put[p].phase # "none" /\ put'[p] = [put[p] EXCEPT !.phase = "failed", !.list = {}]
        BY <3>2 DEF WriteFails, Writing, TypeOK, Answered
      <4>3. ~Of(p, t)'
        BY <4>1, <4>2 DEF Of, Free, Requests
      <4> QED
        BY <4>1, <4>3 DEF Open
    <3>3. CASE Unreachable(p)
      <4>1. put[p].phase = "sent" /\ put[p] \in Requests
        BY <3>3 DEF Unreachable, Free
      <4>2. put'[p] = [put[p] EXCEPT !.phase = "failed", !.list = {}]
        BY <3>3 DEF Unreachable, TypeOK, Answered
      <4> QED
        BY <4>1, <4>2 DEF Open, Of, Free, Requests
    <3>4. CASE Answer(p) /\ ~Open(p, t)
      BY <3>4 DEF Answer, Open, Of, Free, TypeOK, NoPut
    <3>5. ASSUME NEW list \in SUBSET Apps, Post(p, list)
          PROVE  ~Open(p, t) /\ ~Open(p, t)'
      BY <3>5, NoTabAssumption DEF Post, Open, Of, Free, TypeOK
    <3> QED
      BY <1>5, <3>1, <3>2, <3>3, <3>4, <3>5
  <2> QED
    BY <1>1, <1>2, <2>1, <2>2, <2>3, RightKept
<1> QED
  BY <1>3, <1>4, <1>5 DEF Request

\* The steps of a request, for a load.
LEMMA ReadsRequest ==
    ASSUME TypeOK, WritersInv, PagesInv, NEW l \in Loads, NEW p \in Puts,
           Request(p), file # Torn, Asked(l)', ~load'[l].old
    PROVE  Reads(l)'
<1> USE Slots DEF store, screen, history
<1>1. CASE SetHidden(p)
  <2>1. Asked(l) /\ load[l] \in Answers
    BY <1>1 DEF SetHidden, Asked
  <2>2. load'[l] = [load[l] EXCEPT !.old = load[l].old \/ load[l].todo # Apps]
    BY <1>1, <2>1 DEF SetHidden
  <2>3. /\ ~load[l].old /\ load[l].todo = Apps /\ load'[l].todo = Apps
        /\ load'[l].seen = load[l].seen
    BY <2>1, <2>2 DEF Answers
  <2>4. load[l].seen = {}
    <3>1. Truth \in SUBSET Apps
      BY <1>1 DEF SetHidden, Truth, TypeOK
    <3> QED
      BY <2>1, <2>3, <3>1 DEF PagesInv, Reads
  <2>5. Truth' \in SUBSET Apps
    BY <1>1 DEF SetHidden, Truth, Requests, Free
  <2> QED
    BY <2>3, <2>4, <2>5 DEF Reads
<1>2. CASE ~SetHidden(p)
  <2>1. load' = load
    BY <1>2 DEF Request, Post, Fill, Rename, WriteFails, Unreachable, Answer
  <2>2. Truth' = Truth
    BY <1>2 DEF Request, Post, Fill, Rename, WriteFails, Unreachable, Answer,
       Truth, WritersInv, Writing
  <2> QED
    BY <2>1, <2>2, ReadsKept DEF PagesInv, Asked
<1> QED
  BY <1>1, <1>2

LEMMA PagesStep ==
    ASSUME TypeOK, WritersInv, PagesInv, Next
    PROVE  PagesInv'
<1> USE Slots DEF store, screen, history
<1> DEFINE Pages == (\E t \in Tabs : Page(t)) \/ (\E l \in Loads : Loading(l))
<1>1. up' => file' # Torn
  <2>1. CASE Load \/ Mend \/ Crash
    BY <2>1 DEF Load, Mend, Crash, PagesInv
  <2>2. CASE Pages
    BY <2>2, PageKeeps DEF PagesInv
  <2>3. ASSUME NEW p \in Puts, Request(p) PROVE up' => file' # Torn
    BY <2>3, TornIsNoSet DEF Request, Post, SetHidden, Fill, Rename, WriteFails,
       Unreachable, Answer, PagesInv, Requests, Free
  <2> QED
    BY <2>1, <2>2, <2>3 DEF Next
<1>2. ASSUME NEW p \in Puts, NEW t \in Tabs, Of(p, t)'
      PROVE  listed'[t]
  <2>1. CASE Load \/ Mend
    BY <1>2, <2>1 DEF Load, Mend, PagesInv, Of, Free
  <2>2. CASE Crash
    <3>1. Of(p, t)
      BY <1>2, <2>2 DEF Crash, Of, Free, TypeOK, Requests, Answered
    <3> QED
      BY <2>2, <3>1 DEF Crash, PagesInv
  <2>3. ASSUME NEW u \in Tabs, NEW list, NEW some, Gets(u, list, some)
        PROVE  listed'[t]
    <3>1. u # t /\ Of(p, t)
      BY <1>2, <2>3, GetsPuts
    <3>2. listed'[t] = listed[t]
      BY <2>3, <3>1 DEF Gets, TypeOK
    <3> QED
      BY <3>1, <3>2 DEF PagesInv
  <2>4. ASSUME NEW l \in Loads, Loading(l) PROVE listed'[t]
    <3>1. CASE Show(l) \/ LoadFails(l)
      <4>1. load[l].tab \in Tabs
        BY <3>1, OfTab
      <4> QED
        BY <2>3, <3>1, <4>1 DEF Show, LoadFails
    <3>2. ASSUME NEW a \in Apps, ReadFlag(l, a) PROVE listed'[t]
      BY <1>2, <3>2 DEF ReadFlag, Of, Free, PagesInv
    <3> QED
      BY <2>4, <3>1, <3>2 DEF Loading
  <2>5. ASSUME NEW u \in Tabs, Page(u) PROVE listed'[t]
    <3>1. CASE Close(u)
      BY <2>3, <3>1 DEF Close
    <3>2. ASSUME NEW l \in Loads, Reload(u, l) PROVE listed'[t]
      BY <1>2, <3>2 DEF Reload, Of, Free, PagesInv
    <3>3. ASSUME NEW a \in Apps, NEW q \in Puts, Toggle(u, q, a)
          PROVE  listed'[t]
      <4>1. CASE p = q
        <5>1. t = u
          BY <1>2, <3>3, <4>1 DEF Toggle, Of, TypeOK
        <5> QED
          BY <3>3, <5>1 DEF Toggle
      <4>2. CASE p # q
        <5>1. Of(p, t)
          BY <1>2, <3>3, <4>2 DEF Toggle, Of, Free, TypeOK
        <5> QED
          BY <3>3, <5>1 DEF Toggle, PagesInv
      <4> QED
        BY <4>1, <4>2
    <3> QED
      BY <2>5, <3>1, <3>2, <3>3 DEF Page
  <2>6. ASSUME NEW q \in Puts, Request(q) PROVE listed'[t]
    <3>1. Of(p, t)
      <4>1. CASE Answer(q)
        BY <1>2, <4>1 DEF Answer, Of, Free, TypeOK, NoPut
      <4>2. ASSUME NEW list \in SUBSET Apps, Post(q, list) PROVE Of(p, t)
        BY <1>2, <4>2, NoTabAssumption DEF Post, Of, Free, TypeOK
      <4>3. CASE \/ SetHidden(q) \/ Fill(q) \/ Rename(q) \/ WriteFails(q)
                 \/ Unreachable(q)
        <5>1. put[q] \in Requests /\ put[q].phase # "none"
          BY <4>3 DEF SetHidden, Fill, Rename, WriteFails, Unreachable,
             Writing, Free
        <5>2. put'[q].tab = put[q].tab
          <6>1. CASE SetHidden(q) \/ Fill(q)
            BY <5>1, <6>1 DEF SetHidden, Fill, TypeOK, Requests
          <6>2. CASE Rename(q) \/ WriteFails(q) \/ Unreachable(q)
            BY <5>1, <6>2 DEF Rename, WriteFails, Unreachable, Answered, TypeOK,
               Requests
          <6> QED
            BY <4>3, <6>1, <6>2
        <5>3. \A r \in Puts : r # q => put'[r] = put[r]
          BY <4>3 DEF SetHidden, Fill, Rename, WriteFails, Unreachable, TypeOK
        <5> QED
          BY <1>2, <5>1, <5>2, <5>3 DEF Of, Free
      <4> QED
        BY <2>6, <4>1, <4>2, <4>3 DEF Request
    <3>2. listed' = listed
      BY <2>6 DEF Request, Post, SetHidden, Fill, Rename, WriteFails,
         Unreachable, Answer
    <3> QED
      BY <3>1, <3>2 DEF PagesInv
  <2> QED
    BY <2>1, <2>2, <2>4, <2>5, <2>6 DEF Next
<1>3. ASSUME file' = Torn
      PROVE  /\ \A t \in Tabs : listed'[t] => Apps = {}
             /\ \A l \in Loads : Asked(l)' => load'[l].todo = Apps /\ load'[l].seen = {}
  <2>1. file = Torn
    <3>1. CASE Mend
      BY <3>1 DEF Mend
    <3>2. ASSUME NEW p \in Puts, Rename(p) PROVE FALSE
      BY <1>3, <3>2, TornIsNoSet DEF Rename, Requests, Free
    <3>3. CASE Pages
      BY <1>3, <3>3, PageKeeps
    <3> QED
      BY <1>3, <3>1, <3>2, <3>3 DEF Next, Load, Crash, Request, Post, SetHidden,
         Fill, WriteFails, Unreachable, Answer
  <2>2. /\ ~up
        /\ \A t \in Tabs : listed[t] => Apps = {}
        /\ \A l \in Loads : Asked(l) => load[l].todo = Apps /\ load[l].seen = {}
    BY <2>1 DEF PagesInv
  <2>3. CASE UNCHANGED <<listed, load>>
    BY <2>2, <2>3 DEF Asked
  <2>4. ASSUME NEW t \in Tabs, Close(t)
        PROVE  /\ \A u \in Tabs : listed'[u] => Apps = {}
               /\ \A l \in Loads : Asked(l)' => load'[l].todo = Apps /\ load'[l].seen = {}
    BY <2>2, <2>4 DEF Close, Gets, Asked, NoLoad, TypeOK
  <2>5. ASSUME NEW t \in Tabs, NEW m \in Loads, Reload(t, m)
        PROVE  /\ \A u \in Tabs : listed'[u] => Apps = {}
               /\ \A l \in Loads : Asked(l)' => load'[l].todo = Apps /\ load'[l].seen = {}
    BY <2>2, <2>5 DEF Reload, Asked, TypeOK
  <2>6. ASSUME NEW m \in Loads, Loading(m)
        PROVE  /\ \A u \in Tabs : listed'[u] => Apps = {}
               /\ \A l \in Loads : Asked(l)' => load'[l].todo = Apps /\ load'[l].seen = {}
    <3>1. CASE Show(m)
      <4>1. Apps = {}
        BY <2>2, <3>1 DEF Show
      <4>2. \A l \in Loads : Asked(l)' => Asked(l) /\ load'[l] = load[l]
        BY <3>1 DEF Show, Asked, NoLoad, TypeOK
      <4> QED
        BY <2>2, <4>1, <4>2
    <3>2. CASE LoadFails(m)
      <4>1. \A l \in Loads : Asked(l)' => Asked(l) /\ load'[l] = load[l]
        BY <3>2 DEF LoadFails, Asked, NoLoad, TypeOK
      <4>2. \A u \in Tabs : listed'[u] => listed[u]
        BY <3>2 DEF LoadFails, Gets, TypeOK
      <4> QED
        BY <2>2, <4>1, <4>2
    <3> QED
      BY <2>2, <2>6, <3>1, <3>2 DEF Loading, ReadFlag
  <2> QED
    BY <1>3, <2>2, <2>3, <2>4, <2>5, <2>6 DEF Next, Load, Mend, Crash, Page,
       Toggle, Request, Post, SetHidden, Fill, Rename, WriteFails, Unreachable,
       Answer
<1>4. ASSUME file' # Torn
      PROVE  /\ \A t \in Tabs : astray'[t] \/ Right(t)'
             /\ \A l \in Loads : Asked(l)' => load'[l].old \/ Reads(l)'
  <2>1. CASE file = Torn
    <3>1. Mend
      <4>1. ~up
        BY <2>1 DEF PagesInv
      <4>2. ~Pages
        BY <1>4, <2>1, PageKeeps
      <4> QED
        BY <1>4, <2>1, <4>1, <4>2 DEF Next, Load, Crash, Request, Post,
           SetHidden, Fill, Rename, WriteFails, Unreachable, Answer, WritersInv,
           Writing
    <3>2. Truth' = {} /\ UNCHANGED <<load, listed, page, put>>
      BY <2>1, <3>1 DEF Mend, Truth, PagesInv
    <3>3. ASSUME NEW t \in Tabs, listed'[t] PROVE Right(t)'
      <4>1. Apps = {}
        BY <2>1, <3>2, <3>3 DEF PagesInv
      <4>2. page'[t] = {}
        BY <3>2, <4>1 DEF TypeOK
      <4>3. \A p \in Puts : ~Open(p, t)'
        <5>1. \A p \in Puts : ~Of(p, t)
          BY <4>1 DEF TypeOK
        <5> QED
          BY <3>2, <5>1 DEF Open, Of, Free
      <4> QED
        BY <3>2, <4>2, <4>3 DEF Right
    <3>4. \A t \in Tabs : Right(t)'
      BY <3>3 DEF Right
    <3>5. \A l \in Loads : Asked(l)' => Reads(l)'
      BY <2>1, <3>2 DEF PagesInv, Reads, Asked
    <3> QED
      BY <3>4, <3>5
  <2>2. CASE file # Torn
    <3>1. CASE Load \/ Mend \/ Crash
      BY <2>2, <3>1, RightProcess
    <3>2. CASE Pages
      BY <2>2, <3>2, RightPage
    <3>3. ASSUME NEW p \in Puts, Request(p)
          PROVE  /\ \A t \in Tabs : astray'[t] \/ Right(t)'
                 /\ \A l \in Loads : Asked(l)' => load'[l].old \/ Reads(l)'
      BY <2>2, <3>3, RightRequest, ReadsRequest
    <3> QED
      BY <3>1, <3>2, <3>3 DEF Next
  <2> QED
    BY <2>1, <2>2
<1> QED
  BY <1>1, <1>2, <1>3, <1>4 DEF PagesInv, TypeOK

\* A tab has what the server filters with, for any number of tabs and of
\* requests and loads that overlap, fail or are cut off.
THEOREM Agrees == Spec => []PageAgrees
<1>1. Init => PagesInv
  BY DEF Init, PagesInv, Of, Free, NoPut, Right, Asked, NoLoad
<1>2. TypeOK /\ WritersInv /\ PagesInv /\ [Next]_vars => PagesInv'
  <2>1. ASSUME PagesInv, UNCHANGED vars PROVE PagesInv'
    BY <2>1 DEF vars, PagesInv, Of, Free, Asked, Reads, Right, Open, Truth
  <2> QED
    BY <2>1, PagesStep
<1>3. PagesInv => PageAgrees
  BY DEF PagesInv, PageAgrees, Right, Open, Truth
<1> QED
  BY <1>1, <1>2, <1>3, WritersInvariant, PTL DEF Spec

-----------------------------------------------------------------------------
(* Refinement.                                                              *)

\* VisibilityStore implements SnapshotFile: SetHidden changes memory, Rename
\* flushes a list that was being written, a crash is Stop; the pages and what
\* travels between them and the server stutter.
THEOREM Refinement == Spec => FileIsASnapshot
<1>1. Init => Abstract!Init
  BY DEF Init, Abstract!Init, Contents, Pending
<1>2. TypeOK /\ WritersInv /\ [Next]_vars => [Abstract!Next]_(Abstract!vars)
  <2> SUFFICES ASSUME TypeOK, WritersInv, [Next]_vars
               PROVE  Abstract!Next \/ UNCHANGED Abstract!vars
    OBVIOUS
  <2> USE Slots DEF store, screen, history
  <2>1. CASE Load
    <3>1. \A p \in Puts : ~Writing(p) /\ ~Writing(p)'
      BY <2>1 DEF Load, WritersInv, Writing
    <3>2. Pending = {} /\ Pending' = {file}
      BY <2>1, <3>1 DEF Load, Pending
    <3> QED
      BY <2>1, <3>2 DEF Load, Abstract!Next, Abstract!Start
  <2>2. CASE Mend
    <3>1. Pending = {} /\ Pending' = {}
      BY <2>2 DEF Mend, Pending
    <3> QED
      BY <2>2, <3>1 DEF Mend, Abstract!Next, Abstract!Mend
  <2>3. CASE Crash
    <3>1. Pending' = {}
      BY <2>3 DEF Crash, Pending
    <3> QED
      BY <2>3, <3>1 DEF Crash, Abstract!Next, Abstract!Stop
  <2>4. ASSUME Pending' \subseteq Pending, UNCHANGED <<up, hidden>>,
               file' = file \/ (up /\ file' \in Pending)
        PROVE  Abstract!Next \/ UNCHANGED Abstract!vars
    <3>2. CASE up
      BY <2>4, <3>2 DEF Abstract!Next, Abstract!Flush, Abstract!Change,
         TypeOK
    <3>3. CASE ~up
      BY <2>4, <3>3 DEF Pending, Abstract!vars
    <3> QED
      BY <3>2, <3>3
  <2>5. CASE (\E t \in Tabs : Page(t)) \/ (\E l \in Loads : Loading(l))
    <3>1. UNCHANGED <<up, hidden, file>>
          /\ \A p \in Puts : Writing(p)' => Writing(p) /\ put'[p].list = put[p].list
      BY <2>5, PageKeeps
    <3>2. Pending' \subseteq Pending
      BY <3>1 DEF Pending
    <3> QED
      BY <2>4, <3>1, <3>2
  <2>6. ASSUME NEW p \in Puts, SetHidden(p) PROVE Abstract!Next
    <3>1. \A q \in Puts : Writing(q)' => \/ put'[q].list = hidden'
                                         \/ (Writing(q) /\ put'[q] = put[q])
      BY <2>6 DEF SetHidden, Writing, TypeOK, Requests, Free
    <3>2. Pending' \subseteq Pending \cup {hidden'}
      BY <2>6, <3>1 DEF SetHidden, Pending
    <3>3. hidden' \in SUBSET Apps
      BY <2>6 DEF SetHidden, Requests, Free
    <3> QED
      BY <2>6, <3>2, <3>3 DEF SetHidden, Abstract!Next, Abstract!Change
  <2>7. ASSUME NEW p \in Puts, Request(p), ~SetHidden(p)
        PROVE  Abstract!Next \/ UNCHANGED Abstract!vars
    <3>1. \A q \in Puts : Writing(q)' => Writing(q) /\ put'[q].list = put[q].list
      <4>1. \A q \in Puts : q # p => put'[q] = put[q]
        BY <2>7 DEF Request, Post, Fill, Rename, WriteFails, Unreachable,
           Answer, TypeOK
      <4>2. CASE Fill(p)
        BY <4>2 DEF Fill, Writing, TypeOK, Requests, Free
      <4>3. CASE Rename(p) \/ WriteFails(p) \/ Unreachable(p)
        <5>1. put'[p] = Answered(p, "ok") \/ put'[p] = Answered(p, "failed")
          BY <4>3 DEF Rename, WriteFails, Unreachable, Writing, Free, TypeOK
        <5>2. put[p] \in Requests
          BY <4>3 DEF Rename, WriteFails, Unreachable, Writing, Free
        <5>3. ~Writing(p)'
          BY <5>1, <5>2 DEF Answered, Requests, Writing
        <5> QED
          BY <4>1, <5>3 DEF Writing
      <4>4. CASE Answer(p) \/ \E list \in SUBSET Apps : Post(p, list)
        <5>1. ~Writing(p)'
          BY <4>4 DEF Answer, Post, Writing, TypeOK, NoPut
        <5> QED
          BY <4>1, <5>1 DEF Writing
      <4> QED
        BY <2>7, <4>1, <4>2, <4>3, <4>4 DEF Request, Writing
    <3>2. file' = file \/ (up /\ file' \in Pending)
      <4>1. CASE Rename(p)
        <5>1. Writing(p) /\ up /\ file' = put[p].list
          BY <4>1 DEF Rename, WritersInv, Writing
        <5> QED
          BY <5>1 DEF Pending
      <4>2. CASE Fill(p) \/ WriteFails(p)
        BY <4>2 DEF Fill, WriteFails
      <4>3. CASE Unreachable(p) \/ Answer(p) \/ \E list \in SUBSET Apps : Post(p, list)
        BY <4>3 DEF Unreachable, Answer, Post
      <4> QED
        BY <2>7, <4>1, <4>2, <4>3 DEF Request
    <3>3. UNCHANGED <<up, hidden>>
      BY <2>7 DEF Request, Post, Fill, Rename, WriteFails, Unreachable, Answer
    <3>4. Pending' \subseteq Pending
      BY <3>1, <3>3 DEF Pending
    <3> QED
      BY <2>4, <3>2, <3>3, <3>4
  <2>8. CASE UNCHANGED vars
    BY <2>8 DEF vars, Pending, Writing, Abstract!vars
  <2> QED
    BY <2>1, <2>2, <2>3, <2>5, <2>6, <2>7, <2>8 DEF Next
<1> QED
  BY <1>1, <1>2, WritersInvariant, PTL DEF Spec, FileIsASnapshot, Abstract!Spec

=============================================================================
