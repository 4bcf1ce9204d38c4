------------------------ MODULE ShortcutStore_proofs ------------------------
(***************************************************************************)
(* Proofs about ShortcutStore, for any ids, tabs, slots and bodies.        *)
(***************************************************************************)
EXTENDS ShortcutStore, FiniteSetTheorems, FunctionTheorems, SequenceTheorems, TLAPS

-----------------------------------------------------------------------------
(* Lists and bodies.                                                        *)

\* A function over 1..n is a sequence.
LEMMA FunctionIsSeq ==
    ASSUME NEW S, NEW n \in Nat, NEW f \in [1..n -> S]
    PROVE  f \in Seq(S) /\ Len(f) = n
BY SMT

\* A list is a sequence of different ids.
LEMMA ListIsSeq ==
    ASSUME NEW list \in Lists
    PROVE  /\ list \in Seq(Ids) /\ Len(list) \in Nat
           /\ DOMAIN list = 1..Len(list)
           /\ Distinct(list) /\ Entries(list) \subseteq Ids
<1>1. PICK n \in 0..Cardinality(Ids) : list \in [1..n -> Ids]
  BY DEF Lists
<1>2. Cardinality(Ids) \in Nat
  BY IdsAssumption, FS_CardinalityType
<1>3. n \in Nat
  BY <1>1, <1>2
<1>4. list \in Seq(Ids) /\ Len(list) = n
  BY <1>1, <1>3, FunctionIsSeq
<1> QED
  BY <1>1, <1>3, <1>4 DEF Lists, Entries

\* The other way round: there are not more different ids than ids.
LEMMA DistinctIsList ==
    ASSUME NEW list \in Seq(Ids), Distinct(list)
    PROVE  list \in Lists
<1> DEFINE n == Len(list)
<1>1. n \in Nat /\ list \in [1..n -> Ids]
  OBVIOUS
<1>2. list \in Injection(1..n, Ids)
  BY <1>1 DEF Injection, IsInjective, Distinct
<1>3. Cardinality(1..n) = n
  <2>1. n \in Int /\ 1 \in Int /\ n - 1 + 1 = n /\ (1 > n => n = 0)
    BY <1>1
  <2> HIDE DEF n
  <2> QED
    BY <2>1, FS_Interval
<1>4. Cardinality(1..n) <= Cardinality(Ids)
  <2> HIDE DEF n
  <2> QED
    BY <1>2, IdsAssumption, FS_Injection
<1>5. Cardinality(Ids) \in Nat
  BY IdsAssumption, FS_CardinalityType
<1>6. n \in 0..Cardinality(Ids)
  BY <1>1, <1>3, <1>4, <1>5
<1> HIDE DEF n
<1> QED
  BY <1>1, <1>6 DEF Lists

LEMMA EmptyList == <<>> \in Lists /\ Entries(<<>>) = {}
<1>1. <<>> \in Seq(Ids) /\ DOMAIN <<>> = {}
  OBVIOUS
<1>2. Distinct(<<>>)
  BY <1>1 DEF Distinct
<1>3. <<>> \in Lists
  BY <1>1, <1>2, DistinctIsList
<1>4. Entries(<<>>) = {}
  BY <1>1 DEF Entries
<1> QED
  BY <1>3, <1>4

\* Trimming keeps the ids.
LEMMA TrimmedType ==
    ASSUME NEW body \in Seq(Shortcuts)
    PROVE  Trimmed(body) \in Seq(Shortcuts) /\ IdsOf(Trimmed(body)) = IdsOf(body)
<1>1. \A sc \in Shortcuts : Trim(sc) \in Shortcuts /\ Trim(sc).id = sc.id
  BY DEF Shortcuts, Trim, Forms
<1>2. Len(body) \in Nat /\ body \in [1..Len(body) -> Shortcuts]
  OBVIOUS
<1>3. Trimmed(body) \in [1..Len(body) -> Shortcuts]
  BY <1>1, <1>2 DEF Trimmed
<1>4. Trimmed(body) \in Seq(Shortcuts)
  BY <1>2, <1>3, FunctionIsSeq
<1> QED
  BY <1>1, <1>2, <1>3, <1>4 DEF Trimmed, IdsOf

LEMMA IdsOfType ==
    ASSUME NEW body \in Seq(Shortcuts)
    PROVE  IdsOf(body) \in Seq(Ids) /\ DOMAIN IdsOf(body) = DOMAIN body
<1>1. Len(body) \in Nat /\ body \in [1..Len(body) -> Shortcuts]
  OBVIOUS
<1>2. IdsOf(body) \in [1..Len(body) -> Ids]
  BY <1>1 DEF IdsOf, Shortcuts
<1> QED
  BY <1>1, <1>2, FunctionIsSeq DEF IdsOf

\* What Replace accepts is a list.
LEMMA AcceptedIsList ==
    ASSUME NEW body \in Seq(Shortcuts), Accepts(body)
    PROVE  IdsOf(body) \in Lists
BY IdsOfType, DistinctIsList DEF Accepts

\* What a page sends of a list without a change.
LEMMA PlainType ==
    ASSUME NEW list \in Seq(Ids)
    PROVE  Plain(list) \in Seq(Shortcuts) /\ IdsOf(Plain(list)) = list
<1>1. Len(list) \in Nat /\ list \in [1..Len(list) -> Ids]
  OBVIOUS
<1>2. Plain(list) \in [1..Len(list) -> Shortcuts]
  BY <1>1 DEF Plain, Shortcuts, Forms
<1>3. Plain(list) \in Seq(Shortcuts)
  BY <1>1, <1>2, FunctionIsSeq
<1> QED
  BY <1>1, <1>2, <1>3 DEF Plain, IdsOf

\* What it sends with a new entry at the end.
LEMMA AppendedIds ==
    ASSUME NEW list \in Seq(Ids), NEW i \in Ids, NEW form \in Forms
    PROVE  LET body == Append(Plain(list), [id |-> i, form |-> form])
           IN  /\ body \in Seq(Shortcuts)
               /\ Entries(IdsOf(body)) = Entries(list) \cup {i}
<1> DEFINE sc == [id |-> i, form |-> form]
           body == Append(Plain(list), sc)
           n == Len(list)
<1>1. sc \in Shortcuts
  BY DEF Shortcuts
<1>2. /\ Plain(list) \in Seq(Shortcuts) /\ n \in Nat /\ DOMAIN list = 1..n
      /\ Len(Plain(list)) = n
  <2>1. DOMAIN Plain(list) = DOMAIN list
    BY DEF Plain
  <2> QED
    BY <2>1, PlainType
<1>3. body \in Seq(Shortcuts) /\ DOMAIN body = 1..(n + 1)
  BY <1>1, <1>2
<1>4. \A j \in 1..n : body[j].id = list[j]
  BY <1>2 DEF Plain
<1>5. body[n + 1].id = i
  BY <1>2
<1> HIDE DEF body, n
<1>6. IdsOf(body) = [j \in 1..(n + 1) |-> body[j].id]
  BY <1>3 DEF IdsOf
<1>7. Entries(IdsOf(body)) = {body[j].id : j \in 1..(n + 1)}
  BY <1>6 DEF Entries
<1>8. Entries(list) = {list[j] : j \in 1..n}
  BY <1>2 DEF Entries
<1>9. \A j \in 1..(n + 1) : j \in 1..n \/ j = n + 1
  BY <1>2
<1>10. n + 1 \in 1..(n + 1) /\ 1..n \subseteq 1..(n + 1)
  BY <1>2
<1>11. ASSUME NEW x PROVE x \in Entries(IdsOf(body)) <=> x \in Entries(list) \cup {i}
  BY <1>4, <1>5, <1>7, <1>8, <1>9, <1>10
<1> QED
  BY <1>3, <1>11 DEF body

\* The filter drops one entry.
LEMMA WithoutIds ==
    ASSUME NEW list \in Lists, NEW k \in DOMAIN list
    PROVE  /\ Without(list, k) \in Seq(Ids)
           /\ Entries(Without(list, k)) = Entries(list) \ {list[k]}
<1> DEFINE n == Len(list)
           rest == Without(list, k)
<1>1. /\ n \in Nat /\ DOMAIN list = 1..n /\ k \in 1..n /\ Distinct(list)
      /\ \A j \in 1..n : list[j] \in Ids
  BY ListIsSeq
<1> HIDE DEF n
<1>2. rest = [j \in 1..(n - 1) |-> IF j < k THEN list[j] ELSE list[j + 1]]
  BY DEF Without, n
<1>3. n - 1 \in Nat /\ \A j \in 1..(n - 1) : j \in 1..n /\ j + 1 \in 1..n
  BY <1>1
<1>4. rest \in [1..(n - 1) -> Ids]
  BY <1>1, <1>2, <1>3
<1>5. rest \in Seq(Ids) /\ DOMAIN rest = 1..(n - 1)
  BY <1>3, <1>4, FunctionIsSeq
<1>6. ASSUME NEW x \in Entries(rest) PROVE x \in Entries(list) \ {list[k]}
  <2>1. PICK j \in 1..(n - 1) : x = rest[j]
    BY <1>5 DEF Entries
  <2>2. CASE j < k
    <3>1. x = list[j] /\ j \in 1..n /\ j # k
      BY <1>1, <1>2, <1>3, <2>1, <2>2
    <3> QED
      BY <1>1, <3>1 DEF Entries, Distinct
  <2>3. CASE ~(j < k)
    <3>1. x = list[j + 1] /\ j + 1 \in 1..n /\ j + 1 # k
      BY <1>1, <1>2, <1>3, <2>1, <2>3
    <3> QED
      BY <1>1, <3>1 DEF Entries, Distinct
  <2> QED
    BY <2>2, <2>3
<1>7. ASSUME NEW x \in Entries(list) \ {list[k]} PROVE x \in Entries(rest)
  <2>1. PICK j \in 1..n : x = list[j] /\ j # k
    BY <1>1 DEF Entries
  <2>2. CASE j < k
    <3>1. j \in 1..(n - 1) /\ rest[j] = x
      BY <1>1, <1>2, <2>1, <2>2
    <3> QED
      BY <1>5, <3>1 DEF Entries
  <2>3. CASE ~(j < k)
    <3>1. j - 1 \in 1..(n - 1) /\ ~(j - 1 < k) /\ j - 1 + 1 = j
      BY <1>1, <2>1, <2>3
    <3>2. rest[j - 1] = x
      BY <1>2, <2>1, <3>1
    <3> QED
      BY <1>5, <3>1, <3>2 DEF Entries
  <2> QED
    BY <2>2, <2>3
<1> HIDE DEF rest
<1>8. Entries(rest) = Entries(list) \ {list[k]}
  BY <1>6, <1>7
<1> QED
  BY <1>5, <1>8 DEF rest

-----------------------------------------------------------------------------
(* Types.                                                                   *)

\* The record of a request that is under way.
LEMMA Slot ==
    ASSUME TypeOK, NEW c \in Calls
    PROVE  /\ call[c].phase \in Phases \cup {"none"}
           /\ ~Free(c) => call[c] \in Requests
           /\ Free(c) => call[c] = NoCall
BY DEF TypeOK, Free, NoCall, Requests, Phases

\* A request keeps its type when it changes its phase, or grows old.
LEMMA SlotChanges ==
    ASSUME NEW r \in Requests
    PROVE  /\ r.tab \in Tabs \cup {NoTab} /\ r.body \in Seq(Shortcuts)
           /\ r.list \in Lists /\ r.old \in BOOLEAN /\ r.id \in Ids \cup {0}
           /\ \A phase \in Phases : [r EXCEPT !.phase = phase] \in Requests
           /\ [r EXCEPT !.old = TRUE] \in Requests
           /\ \A body \in Seq(Shortcuts) :
                 [r EXCEPT !.phase = "write", !.body = body] \in Requests
           /\ \A list \in Lists, phase \in Phases :
                 [r EXCEPT !.phase = phase, !.list = list, !.old = FALSE] \in Requests
BY DEF Requests, Phases

\* A step that writes one slot.
OneSlot(c, r) == call' = [call EXCEPT ![c] = r]

LEMMA OneSlotType ==
    ASSUME TypeOK, NEW c \in Calls, NEW r \in Requests \cup {NoCall}, OneSlot(c, r),
           r.phase \in {"asked", "got"} => r.tab \in Tabs
    PROVE  /\ call' \in [Calls -> Requests \cup {NoCall}]
           /\ \A d \in Calls : call'[d].phase \in {"asked", "got"} =>
                 call'[d].tab \in Tabs
BY DEF TypeOK, OneSlot

\* What other clients send, and what pages do.
LEMMA SentType ==
    ASSUME NEW t \in Tabs \cup {NoTab}, NEW i \in Ids \cup {0},
           NEW body \in Seq(Shortcuts), NEW old \in BOOLEAN,
           NEW phase \in Phases
    PROVE  [phase |-> phase, tab |-> t, id |-> i, body |-> body, list |-> <<>>,
            old |-> old] \in Requests
BY EmptyList DEF Requests

LEMMA PageType ==
    ASSUME TypeOK, NEW t \in Tabs, Page(t)
    PROVE  /\ UNCHANGED <<store, page, history>>
           /\ \E c \in Calls, r \in Requests :
                 /\ Free(c) /\ OneSlot(c, r) /\ r.tab = t
                 /\ \/ r.phase = "asked"
                    \/ /\ r.phase = "sent" /\ r.old = astray[t]
                       /\ Entries(IdsOf(r.body)) \ {r.id} = Entries(page[t]) \ {r.id}
<1>1. /\ page[t] \in Lists /\ page[t] \in Seq(Ids) /\ astray[t] \in BOOLEAN
      /\ Entries(page[t]) \subseteq Ids
  BY ListIsSeq DEF TypeOK
<1>2. ASSUME NEW c \in Calls, Open(t, c)
      PROVE  \E r \in Requests : /\ Free(c) /\ OneSlot(c, r) /\ r.tab = t
                                 /\ r.phase = "asked"
  <2> DEFINE r == [phase |-> "asked", tab |-> t, id |-> 0, body |-> <<>>,
                   list |-> <<>>, old |-> FALSE]
  <2>1. /\ <<>> \in Seq(Shortcuts) /\ "asked" \in Phases /\ FALSE \in BOOLEAN
        /\ t \in Tabs \cup {NoTab} /\ 0 \in Ids \cup {0}
    BY DEF Phases
  <2>2. r \in Requests
    BY ONLY <2>1, SentType
  <2> QED
    BY <1>2, <2>2 DEF Open, OneSlot
<1>3. ASSUME NEW c \in Calls, NEW i \in Ids, NEW body \in Seq(Shortcuts),
             Send(t, c, i, body),
             Entries(IdsOf(body)) \ {i} = Entries(page[t]) \ {i}
      PROVE  \E r \in Requests :
                /\ Free(c) /\ OneSlot(c, r) /\ r.tab = t
                /\ r.phase = "sent" /\ r.old = astray[t]
                /\ Entries(IdsOf(r.body)) \ {r.id} = Entries(page[t]) \ {r.id}
  <2> DEFINE r == [phase |-> "sent", tab |-> t, id |-> i, body |-> body,
                   list |-> <<>>, old |-> astray[t]]
  <2>1. r \in Requests
    BY <1>1, SentType DEF Phases
  <2>2. Free(c) /\ OneSlot(c, r)
    BY <1>3 DEF Send, OneSlot
  <2> QED
    BY <1>3, <2>1, <2>2
<1>4. ASSUME NEW c \in Calls, NEW i \in Ids, Add(t, c, i)
      PROVE  \E body \in Seq(Shortcuts) : /\ Send(t, c, i, body)
                /\ Entries(IdsOf(body)) \ {i} = Entries(page[t]) \ {i}
  <2>1. PICK form \in {"good", "slashed"} :
              Send(t, c, i, Append(Plain(page[t]), [id |-> i, form |-> form]))
    BY <1>4 DEF Add
  <2> DEFINE body == Append(Plain(page[t]), [id |-> i, form |-> form])
  <2>2. form \in Forms
    BY DEF Forms
  <2>3. body \in Seq(Shortcuts) /\ Entries(IdsOf(body)) = Entries(page[t]) \cup {i}
    BY <1>1, <2>2, AppendedIds
  <2> QED
    BY <2>1, <2>3
<1>5. ASSUME NEW c \in Calls, NEW i \in Ids, Edit(t, c, i)
      PROVE  \E body \in Seq(Shortcuts) : /\ Send(t, c, i, body)
                /\ Entries(IdsOf(body)) \ {i} = Entries(page[t]) \ {i}
  BY <1>1, <1>5, PlainType DEF Edit
<1>6. ASSUME NEW c \in Calls, NEW i \in Ids, Delete(t, c, i)
      PROVE  \E body \in Seq(Shortcuts) : /\ Send(t, c, i, body)
                /\ Entries(IdsOf(body)) \ {i} = Entries(page[t]) \ {i}
  <2>1. PICK k \in DOMAIN page[t] : /\ page[t][k] = i
                                    /\ Send(t, c, i, Plain(Without(page[t], k)))
    BY <1>6 DEF Delete
  <2>2. /\ Without(page[t], k) \in Seq(Ids)
        /\ Entries(Without(page[t], k)) = Entries(page[t]) \ {i}
    BY <1>1, <2>1, WithoutIds
  <2>3. /\ Plain(Without(page[t], k)) \in Seq(Shortcuts)
        /\ IdsOf(Plain(Without(page[t], k))) = Without(page[t], k)
    BY <2>2, PlainType
  <2> QED
    BY <2>1, <2>2, <2>3
<1>7. UNCHANGED <<store, page, history>>
  BY DEF Page, Open, Add, Edit, Delete, Send
<1> QED
  BY <1>2, <1>3, <1>4, <1>5, <1>6, <1>7 DEF Page

\* Types of the store, the requests and the pages.
THEOREM TypeCorrect == Spec => []TypeOK
<1>1. Init => TypeOK
  <2> SUFFICES ASSUME Init PROVE TypeOK
    OBVIOUS
  <2>1. call \in [Calls -> Requests \cup {NoCall}]
        /\ \A c \in Calls : call[c].phase = "none"
    BY DEF Init, NoCall
  <2>2. page \in [Tabs -> Lists] /\ order \in Lists
    BY EmptyList DEF Init
  <2>3. astray \in [Tabs -> BOOLEAN] /\ up \in BOOLEAN /\ alone \in BOOLEAN
        /\ behind \in BOOLEAN /\ file \in Lists \cup {Bad}
    BY DEF Init
  <2> QED
    BY <2>1, <2>2, <2>3 DEF TypeOK
<1>2. TypeOK /\ [Next]_vars => TypeOK'
  <2> SUFFICES ASSUME TypeOK, [Next]_vars PROVE TypeOK'
    OBVIOUS
  <2>1. CASE Load \/ Mend
    BY <2>1, EmptyList DEF Load, Mend, TypeOK, history
  <2>2. CASE Crash
    <3>1. ASSUME NEW c \in Calls
          PROVE  /\ call'[c] \in Requests \cup {NoCall}
                 /\ call'[c].phase \in {"asked", "got"} => call'[c].tab \in Tabs
      <4>1. CASE Free(c)
        BY <2>2, <4>1, Slot DEF Crash, Free, NoCall
      <4>2. CASE ~Free(c)
        <5>1. call[c] \in Requests /\ "failed" \in Phases
          BY <4>2, Slot DEF Phases
        <5>2. call[c].phase \in {"asked", "got"} => call[c].tab \in Tabs
          BY DEF TypeOK
        <5>3. /\ [call[c] EXCEPT !.phase = "failed"] \in Requests
              /\ [call[c] EXCEPT !.old = TRUE] \in Requests
          BY <5>1, SlotChanges
        <5> QED
          BY <2>2, <5>1, <5>2, <5>3 DEF Crash, Requests
      <4> QED
        BY <4>1, <4>2
    <3>2. call' \in [Calls -> Requests \cup {NoCall}]
      <4>1. call' = [c \in Calls |-> call'[c]]
        BY <2>2 DEF Crash
      <4>2. \A c \in Calls : call'[c] \in Requests \cup {NoCall}
        BY <3>1
      <4> QED
        BY ONLY <4>1, <4>2, Zenon
    <3>3. astray' \in [Tabs -> BOOLEAN]
      BY <2>2 DEF Crash, TypeOK
    <3>4. order' \in Lists /\ up' = FALSE /\ UNCHANGED <<file, page, alone, behind>>
      BY <2>2, EmptyList DEF Crash
    <3> QED
      BY <3>1, <3>2, <3>3, <3>4 DEF TypeOK
  <2>3. ASSUME NEW t \in Tabs, Page(t) PROVE TypeOK'
    <3>1. PICK c \in Calls, r \in Requests : OneSlot(c, r) /\ r.tab = t
      BY <2>3, PageType
    <3> QED
      BY <2>3, <3>1, PageType, OneSlotType DEF TypeOK, store, history
  <2>4. ASSUME NEW c \in Calls, NEW r \in Requests \cup {NoCall}, OneSlot(c, r),
               r.phase \in {"asked", "got"} => r.tab \in Tabs,
               UNCHANGED <<up, order>>, file' \in Lists \cup {Bad},
               page' \in [Tabs -> Lists], astray' \in [Tabs -> BOOLEAN],
               alone' \in BOOLEAN, behind' \in BOOLEAN
        PROVE  TypeOK'
    BY <2>4, OneSlotType DEF TypeOK
  <2>5. ASSUME NEW c \in Calls, Request(c) PROVE TypeOK'
    <3> DEFINE r == call[c]
    <3>0. /\ r \in Requests \/ r = NoCall
          /\ ~Free(c) => r \in Requests
          /\ r.phase \in {"asked", "got"} => r.tab \in Tabs
          /\ NoCall.phase = "none"
      BY Slot DEF TypeOK, NoCall
    <3> HIDE DEF r
    <3>1. CASE Get(c)
      <4>1. r \in Requests /\ "got" \in Phases /\ order \in Lists /\ r.tab \in Tabs
        BY <3>0, <3>1 DEF Get, Free, Phases, TypeOK, r
      <4>2. [r EXCEPT !.phase = "got", !.list = order, !.old = FALSE] \in Requests
        BY <4>1, SlotChanges
      <4> QED
        BY <2>4, <3>1, <4>1, <4>2 DEF Get, OneSlot, Requests, TypeOK, store, history, r
    <3>2. CASE ShowLoaded(c) \/ ShowAnswer(c)
      <4>1. r \in Requests /\ r.tab \in Tabs
        BY <3>0, <3>2 DEF ShowLoaded, ShowAnswer, Free, Requests, r
      <4>2. r.list \in Lists /\ r.old \in BOOLEAN
        BY <4>1, SlotChanges
      <4>3. page' \in [Tabs -> Lists] /\ astray' \in [Tabs -> BOOLEAN]
        BY <3>2, <4>2 DEF ShowLoaded, ShowAnswer, Shows, TypeOK, r
      <4>4. "asked" \in Phases /\ [r EXCEPT !.phase = "asked"] \in Requests
        BY <4>1, SlotChanges DEF Phases
      <4>5. [r EXCEPT !.phase = "asked"].tab = r.tab
        BY <4>1 DEF Requests
      <4>6. UNCHANGED <<up, order, file, alone, behind>>
        BY <3>2 DEF ShowLoaded, ShowAnswer, store
      <4>7. CASE ShowLoaded(c)
        BY <2>4, <3>0, <4>3, <4>6, <4>7 DEF ShowLoaded, OneSlot, TypeOK
      <4>8. CASE ShowAnswer(c)
        BY <2>4, <4>1, <4>3, <4>4, <4>5, <4>6, <4>8
        DEF ShowAnswer, Moves, OneSlot, TypeOK, r
      <4> QED
        BY <3>2, <4>7, <4>8
    <3>3. CASE LoadFails(c)
      <4>1. page' \in [Tabs -> Lists] /\ astray' \in [Tabs -> BOOLEAN]
        BY <3>3, EmptyList DEF LoadFails, TypeOK
      <4> QED
        BY <2>4, <3>0, <3>3, <4>1 DEF LoadFails, OneSlot, TypeOK, store
    <3>4. CASE Reject(c) \/ Fill(c) \/ WriteFails(c) \/ Unreachable(c)
      <4>1. PICK phase \in {"failed", "rename"} : Moves(c, phase)
        BY <3>4 DEF Reject, Fill, WriteFails, Unreachable
      <4>2. r \in Requests /\ phase \in Phases
        BY <3>0, <3>4 DEF Reject, Fill, WriteFails, Writing, Unreachable, Free, Phases, r
      <4>3. /\ [r EXCEPT !.phase = phase] \in Requests
            /\ [r EXCEPT !.phase = phase].phase = phase
        BY <4>2, SlotChanges DEF Requests
      <4>4. UNCHANGED <<up, order, file, page, astray>>
            /\ alone' \in BOOLEAN /\ behind' \in BOOLEAN
        BY <3>4 DEF Reject, Fill, WriteFails, Unreachable, store, history, TypeOK
      <4> QED
        BY <2>4, <4>1, <4>2, <4>3, <4>4 DEF Moves, OneSlot, TypeOK, r
    <3>5. CASE Replace(c)
      <4> DEFINE body == Trimmed(r.body)
      <4>1. r \in Requests
        BY <3>0, <3>5 DEF Replace, Free, r
      <4>2. body \in Seq(Shortcuts) /\ IdsOf(body) \in Lists
        BY <3>5, <4>1, SlotChanges, TrimmedType, AcceptedIsList DEF Replace, r
      <4>3. [r EXCEPT !.phase = "write", !.body = body] \in Requests
        BY <4>1, <4>2, SlotChanges
      <4>4. Install(c, body)
        BY <3>5 DEF Replace, r
      <4> HIDE DEF body
      <4>5. ASSUME NEW d \in Calls
            PROVE  /\ call'[d] \in Requests \cup {NoCall}
                   /\ call'[d].phase \in {"asked", "got"} => call'[d].tab \in Tabs
        <5>1. CASE d = c
          BY <4>1, <4>3, <4>4, <5>1 DEF Install, Requests, r
        <5>2. CASE d # c /\ Free(d)
          BY <4>4, <5>2 DEF Install, NoCall
        <5>3. CASE d # c /\ ~Free(d)
          <6>1. call[d] \in Requests /\ [call[d] EXCEPT !.old = TRUE] \in Requests
            BY <5>3, Slot, SlotChanges
          <6>2. call[d].phase \in {"asked", "got"} => call[d].tab \in Tabs
            BY DEF TypeOK
          <6> QED
            BY <4>4, <5>3, <6>1, <6>2 DEF Install, Requests
        <5> QED
          BY <5>1, <5>2, <5>3
      <4> QED
        BY <4>2, <4>4, <4>5 DEF Install, TypeOK
    <3>6. CASE Rename(c)
      <4>1. r \in Requests /\ <<>> \in Seq(Shortcuts)
        BY <3>0, <3>6 DEF Rename, Free, r
      <4>2. /\ [r EXCEPT !.phase = "list", !.body = <<>>] \in Requests
            /\ [r EXCEPT !.phase = "list", !.body = <<>>].phase = "list"
        BY <4>1 DEF Requests, Phases
      <4>3. file' \in Lists \cup {Bad} /\ behind' \in BOOLEAN
        BY <3>6 DEF Rename, TypeOK
      <4> QED
        BY <2>4, <3>6, <4>2, <4>3 DEF Rename, OneSlot, TypeOK, r
    <3>7. CASE List(c)
      <4>1. r \in Requests /\ order \in Lists /\ "ok" \in Phases
        BY <3>0, <3>7 DEF List, Free, Phases, TypeOK, r
      <4>2. /\ [r EXCEPT !.phase = "ok", !.list = order, !.old = FALSE] \in Requests
            /\ [r EXCEPT !.phase = "ok", !.list = order, !.old = FALSE].phase = "ok"
        BY <4>1, SlotChanges DEF Requests
      <4> QED
        BY <2>4, <3>7, <4>2 DEF List, OneSlot, TypeOK, store, history, r
    <3>8. CASE EndCall(c)
      BY <2>4, <3>0, <3>8 DEF EndCall, OneSlot, TypeOK, store, history
    <3>9. ASSUME NEW body \in Bodies, Post(c, body) PROVE TypeOK'
      <4> DEFINE sent == [phase |-> "sent", tab |-> NoTab, id |-> 0, body |-> body,
                          list |-> <<>>, old |-> TRUE]
      <4>1. /\ body \in Seq(Shortcuts) /\ "sent" \in Phases /\ TRUE \in BOOLEAN
            /\ NoTab \in Tabs \cup {NoTab} /\ 0 \in Ids \cup {0}
        BY BodiesAssumption DEF Phases
      <4>2. sent \in Requests
        BY ONLY <4>1, SentType
      <4> QED
        BY <2>4, <3>9, <4>2 DEF Post, OneSlot, TypeOK, store, history
    <3> QED
      BY <2>5, <3>1, <3>2, <3>3, <3>4, <3>5, <3>6, <3>7, <3>8, <3>9 DEF Request
  <2>6. CASE UNCHANGED vars
    BY <2>6 DEF vars, TypeOK
  <2> QED
    BY <2>1, <2>2, <2>3, <2>5, <2>6 DEF Next
<1> QED
  BY <1>1, <1>2, PTL DEF Spec

-----------------------------------------------------------------------------
(* Writers.                                                                 *)

\* Nobody writes while the server is down, and what is written has been
\* accepted.  A writer that has had no rival is the only one, and writes what is
\* in memory; only then may a write make up for what an earlier overlap left
\* open.
WritersInv ==
    /\ \A c \in Calls : Writing(c) \/ call[c].phase = "list" => up
    /\ \A c \in Calls : Writing(c) => Accepts(call[c].body)
    /\ ~alone => behind
    /\ \A c, d \in Calls : alone /\ Writing(c) =>
          IdsOf(call[c].body) = order /\ (Writing(d) => d = c)
    /\ MirroredWhenQuiet

\* All but Replace write one slot.
LEMMA OthersKept ==
    ASSUME TypeOK, NEW c \in Calls, Request(c), ~Replace(c)
    PROVE  \A d \in Calls : d # c => call'[d] = call[d]
BY DEF TypeOK, Request, Get, ShowLoaded, LoadFails, Reject, Fill, Rename, WriteFails,
   List, ShowAnswer, EndCall, Unreachable, Post, Moves

\* Steps that writers do not notice.
LEMMA WritersKept ==
    ASSUME WritersInv, UNCHANGED <<up, order, file, alone, behind>>,
           \A d \in Calls : /\ Writing(d)' <=> Writing(d)
                            /\ Writing(d) => call'[d].body = call[d].body
                            /\ call'[d].phase = "list" => call[d].phase = "list"
    PROVE  WritersInv'
<1>1. \A c \in Calls : Writing(c)' \/ call'[c].phase = "list" => up'
  BY DEF WritersInv
<1>2. \A c \in Calls : Writing(c)' => Accepts(call[c].body)'
  BY DEF WritersInv, Accepts, Distinct, IdsOf, Valid
<1>3. \A c, d \in Calls : (alone /\ Writing(c))' =>
        IdsOf(call[c].body)' = order' /\ (Writing(d)' => d = c)
  BY DEF WritersInv, IdsOf
<1>4. MirroredWhenQuiet'
  BY DEF WritersInv, MirroredWhenQuiet, Sorts
<1> QED
  BY <1>1, <1>2, <1>3, <1>4 DEF WritersInv

LEMMA WritersStep ==
    ASSUME TypeOK, WritersInv, [Next]_vars
    PROVE  WritersInv'
<1>1. CASE Load \/ Mend
  <2>1. \A c \in Calls : ~Writing(c)' /\ call'[c].phase # "list"
    BY <1>1 DEF Load, Mend, Writing, WritersInv
  <2>2. ~alone' => behind'
    BY <1>1 DEF Load, Mend, WritersInv, history
  <2>3. MirroredWhenQuiet'
    BY <1>1 DEF Load, Mend, MirroredWhenQuiet
  <2> QED
    BY <2>1, <2>2, <2>3 DEF WritersInv
<1>2. CASE Crash
  <2>1. ASSUME NEW c \in Calls PROVE ~Writing(c)' /\ call'[c].phase # "list"
    <3>1. CASE Free(c)
      BY <1>2, <3>1, Slot DEF Crash, Writing, Free, NoCall
    <3>2. CASE ~Free(c)
      BY <1>2, <3>2, Slot DEF Crash, Writing, Requests
    <3> QED
      BY <3>1, <3>2
  <2>2. ~alone' => behind'
    BY <1>2 DEF Crash, WritersInv
  <2>3. MirroredWhenQuiet'
    BY <1>2 DEF Crash, MirroredWhenQuiet
  <2> QED
    BY <2>1, <2>2, <2>3 DEF WritersInv
<1>3. ASSUME NEW t \in Tabs, Page(t) PROVE WritersInv'
  <2>1. PICK c \in Calls, r \in Requests :
            Free(c) /\ OneSlot(c, r) /\ r.phase \in {"asked", "sent"}
    BY <1>3, PageType
  <2>2. \A d \in Calls : /\ Writing(d)' <=> Writing(d)
                         /\ Writing(d) => call'[d].body = call[d].body
                         /\ call'[d].phase = "list" => call[d].phase = "list"
    BY <2>1 DEF OneSlot, Free, Writing, TypeOK
  <2>3. UNCHANGED <<up, order, file, alone, behind>>
    BY <1>3, PageType DEF store, history
  <2> QED
    BY <2>2, <2>3, WritersKept
<1>4. ASSUME NEW c \in Calls, Request(c) PROVE WritersInv'
  <2>1. CASE Replace(c)
    <3> DEFINE body == Trimmed(call[c].body)
    <3>1. up /\ up' /\ Accepts(body) /\ Install(c, body) /\ call[c] \in Requests
      BY <2>1, Slot DEF Replace, Install, Free
    <3> HIDE DEF body
    <3>2. call'[c].phase = "write" /\ call'[c].body = body
      BY <3>1 DEF Install, Requests
    <3>3. \A d \in Calls : d # c => /\ Writing(d)' <=> Writing(d)
                                    /\ Writing(d) => call'[d].body = call[d].body
      <4> TAKE d \in Calls
      <4>1. CASE Free(d)
        BY <3>1, <4>1 DEF Install, Writing, Free, NoCall
      <4>2. CASE ~Free(d)
        BY <3>1, <4>2, Slot DEF Install, Writing, Requests
      <4> QED
        BY <4>1, <4>2
    <3>4. ~Writing(c)
      BY <2>1 DEF Replace, Writing
    <3>5. /\ order' = IdsOf(body)
          /\ alone' = ~\E d \in Calls : Writing(d)
          /\ behind' = (behind \/ \E d \in Calls : Writing(d))
      BY <3>1 DEF Install
    <3>6. Writing(c)'
      BY <3>2 DEF Writing
    <3>7. \A d \in Calls : Writing(d)' => Accepts(call'[d].body)
      BY <3>1, <3>2, <3>3 DEF WritersInv
    <3>8. \A d, e \in Calls : alone' /\ Writing(d)' =>
              IdsOf(call'[d].body) = order' /\ (Writing(e)' => e = d)
      BY <3>2, <3>3, <3>5
    <3>9. ~alone' => behind'
      BY <3>5
    <3> QED
      BY <3>1, <3>6, <3>7, <3>8, <3>9 DEF WritersInv, MirroredWhenQuiet
  <2>2. CASE Rename(c)
    <3>1. /\ Writing(c) /\ call[c] \in Requests /\ up /\ Accepts(call[c].body)
          /\ IdsOf(call[c].body) \in Lists
      <4>1. Writing(c) /\ call[c] \in Requests
        BY <2>2, Slot DEF Rename, Writing, Free
      <4> QED
        BY <4>1, SlotChanges, AcceptedIsList DEF WritersInv
    <3>2. call'[c].phase = "list" /\ ~Writing(c)'
      BY <2>2, <3>1 DEF Rename, Requests, Writing, TypeOK
    <3>3. \A d \in Calls : d # c => call'[d] = call[d]
      BY <2>2 DEF Rename, TypeOK
    <3>4. UNCHANGED <<up, order, alone>> /\ behind' = (behind /\ ~alone)
      BY <2>2 DEF Rename
    <3>5. PICK sorted \in Lists : Sorts(IdsOf(call[c].body), sorted) /\ file' = sorted
      BY <2>2, <3>1 DEF Rename
    <3>6. file' # Bad
      BY <3>5, ListIsSeq, NamesAssumption
    <3>7. MirroredWhenQuiet'
      <4>1. CASE alone
        <5>1. IdsOf(call[c].body) = order
          BY <3>1, <4>1 DEF WritersInv
        <5> QED
          BY <3>4, <3>5, <3>6, <5>1 DEF MirroredWhenQuiet
      <4>2. CASE ~alone
        BY <3>4, <4>2 DEF WritersInv, MirroredWhenQuiet
      <4> QED
        BY <4>1, <4>2
    <3>8. \A d \in Calls : Writing(d)' => d # c /\ Writing(d) /\ call'[d] = call[d]
      BY <3>2, <3>3 DEF Writing
    <3>9. \A d \in Calls : Writing(d)' => Accepts(call'[d].body)
      BY <3>8 DEF WritersInv
    <3>10. ~alone' => behind'
      BY <3>4 DEF WritersInv
    <3>11. \A d, e \in Calls : alone' /\ Writing(d)' =>
              IdsOf(call'[d].body) = order' /\ (Writing(e)' => e = d)
      BY <3>4, <3>8 DEF WritersInv
    <3>12. up'
      BY <3>1, <3>4
    <3> QED
      BY <3>7, <3>9, <3>10, <3>11, <3>12 DEF WritersInv
  <2>3. CASE WriteFails(c)
    <3>1. /\ up /\ up' /\ ~alone' /\ behind' /\ call[c] \in Requests
          /\ UNCHANGED <<order, file>>
      BY <2>3, Slot DEF WriteFails, WritersInv, store, Free, Writing
    <3>2. ~Writing(c)'
      BY <2>3, <3>1 DEF WriteFails, Moves, Writing, TypeOK, Requests
    <3>3. \A d \in Calls : d # c => call'[d] = call[d]
      BY <2>3 DEF WriteFails, Moves, TypeOK
    <3>4. \A d \in Calls : Writing(d)' => Writing(d) /\ call'[d] = call[d]
      BY <3>2, <3>3 DEF Writing
    <3>5. \A d \in Calls : Writing(d)' => Accepts(call'[d].body)
      BY <3>4 DEF WritersInv
    <3> QED
      BY <3>1, <3>5 DEF WritersInv, MirroredWhenQuiet
  <2>4. CASE ~Replace(c) /\ ~Rename(c) /\ ~WriteFails(c)
    <3>1. \A d \in Calls : d # c => call'[d] = call[d]
      BY <1>4, <2>4, OthersKept
    <3>2. /\ Writing(c)' <=> Writing(c)
          /\ Writing(c) => call'[c].body = call[c].body
          /\ call'[c].phase # "list"
      <4>1. CASE Free(c)
        <5>1. \E body \in Bodies : Post(c, body)
          BY <1>4, <2>4, <4>1 DEF Request, Get, ShowLoaded, LoadFails, Reject, Fill,
             List, ShowAnswer, EndCall, Unreachable, Free
        <5> QED
          BY <4>1, <5>1 DEF Post, Free, Writing, TypeOK
      <4>2. CASE ~Free(c)
        <5>1. call[c] \in Requests
          BY <4>2, Slot
        <5>2. CASE Get(c) \/ List(c)
          <6>1. call[c].phase \in {"asked", "list"}
            BY <5>2 DEF Get, List
          <6>2. CASE Get(c)
            <7>1. call'[c].phase = "got"
              BY <5>1, <6>2 DEF Get, TypeOK, Requests
            <7> QED
              BY <6>1, <7>1 DEF Writing
          <6>3. CASE List(c)
            <7>1. call'[c].phase = "ok"
              BY <5>1, <6>3 DEF List, TypeOK, Requests
            <7> QED
              BY <6>1, <7>1 DEF Writing
          <6> QED
            BY <5>2, <6>2, <6>3
        <5>3. CASE ShowLoaded(c) \/ LoadFails(c) \/ EndCall(c)
          BY <5>1, <5>3 DEF ShowLoaded, LoadFails, EndCall, Writing, NoCall, TypeOK, Requests
        <5>4. CASE Reject(c) \/ Fill(c) \/ Unreachable(c)
          BY <5>1, <5>4 DEF Reject, Fill, Unreachable, Moves, Writing, TypeOK, Requests
        <5>5. CASE ShowAnswer(c)
          BY <5>1, <5>5 DEF ShowAnswer, Moves, Writing, TypeOK, Requests
        <5>6. ~\E body \in Bodies : Post(c, body)
          BY <4>2 DEF Post
        <5> QED
          BY <1>4, <2>4, <5>2, <5>3, <5>4, <5>5, <5>6 DEF Request
      <4> QED
        BY <4>1, <4>2
    <3>3. UNCHANGED <<up, order, file, alone, behind>>
      BY <1>4, <2>4 DEF Request, Get, ShowLoaded, LoadFails, Reject, Fill, List,
         ShowAnswer, EndCall, Unreachable, Post, store, history
    <3>4. \A d \in Calls : /\ Writing(d)' <=> Writing(d)
                           /\ Writing(d) => call'[d].body = call[d].body
                           /\ call'[d].phase = "list" => call[d].phase = "list"
      BY <3>1, <3>2 DEF Writing
    <3> QED
      BY <3>3, <3>4, WritersKept
  <2> QED
    BY <2>1, <2>2, <2>3, <2>4
<1>5. CASE UNCHANGED vars
  <2>1. \A d \in Calls : /\ Writing(d)' <=> Writing(d)
                         /\ Writing(d) => call'[d].body = call[d].body
                         /\ call'[d].phase = "list" => call[d].phase = "list"
    BY <1>5 DEF vars, Writing
  <2> QED
    BY <1>5, <2>1, WritersKept DEF vars
<1> QED
  BY <1>1, <1>2, <1>3, <1>4, <1>5 DEF Next

LEMMA WritersInvariant == Spec => [](TypeOK /\ WritersInv)
<1>1. Init => WritersInv
  BY DEF Init, WritersInv, MirroredWhenQuiet, Writing, NoCall
<1> QED
  BY <1>1, TypeCorrect, WritersStep, PTL DEF Spec

\* The file settles on what memory has.
THEOREM Mirrored == Spec => []MirroredWhenQuiet
BY WritersInvariant, PTL DEF WritersInv

-----------------------------------------------------------------------------
(* Pages.                                                                   *)

\* The entries that the server has, or will have when it starts.
Held == IF up THEN Entries(order) ELSE IF file = Bad THEN {} ELSE Entries(file)
Holds == up \/ file # Bad

\* A page that is not astray shows these entries, an answer that is not old
\* brings them, and a request that is not old differs from them in its own
\* entry only.
PageFits(t) == ~astray[t] => Holds /\ Entries(page[t]) = Held

CallFits(c) ==
    /\ call[c].phase \in {"ok", "got"} /\ ~call[c].old =>
          Holds /\ Entries(call[c].list) = Held
    /\ call[c].phase = "sent" /\ ~call[c].old =>
          Holds /\ Entries(IdsOf(call[c].body)) \ {call[c].id} = Held \ {call[c].id}

PagesInv == (\A t \in Tabs : PageFits(t)) /\ (\A c \in Calls : CallFits(c))

\* When nothing is being written and nothing was lost, a stop of the server
\* does not change what it holds.
LEMMA CrashHolds ==
    ASSUME TypeOK, WritersInv, Crash, ~behind, \A c \in Calls : ~Writing(c)
    PROVE  Holds' /\ Held' = Held /\ Holds
<1>1. up /\ ~up' /\ file' = file
  BY DEF Crash
<1>2. file = order \/ (file # Bad /\ Sorts(order, file))
  BY <1>1 DEF WritersInv, MirroredWhenQuiet
<1>3. file # Bad /\ Entries(file) = Entries(order)
  BY <1>2, ListIsSeq, NamesAssumption DEF Sorts, TypeOK
<1> QED
  BY <1>1, <1>3 DEF Held, Holds

\* Steps that keep what the server holds keep every page and call that they
\* do not write.
LEMMA FitsKept ==
    ASSUME Held' = Held, Holds' = Holds
    PROVE  /\ \A t \in Tabs : PageFits(t) /\ UNCHANGED <<page[t], astray[t]>> => PageFits(t)'
           /\ \A c \in Calls : CallFits(c) /\ UNCHANGED call[c] => CallFits(c)'
<1>1. ASSUME NEW t \in Tabs, PageFits(t), UNCHANGED <<page[t], astray[t]>>
      PROVE  PageFits(t)'
  BY <1>1 DEF PageFits, Entries
<1>2. ASSUME NEW c \in Calls, CallFits(c), UNCHANGED call[c]
      PROVE  CallFits(c)'
  BY <1>2 DEF CallFits, Entries, IdsOf
<1> QED
  BY <1>1, <1>2

LEMMA PagesStep ==
    ASSUME TypeOK, TypeOK', WritersInv, PagesInv, [Next]_vars
    PROVE  PagesInv'
<1>0. (\A t \in Tabs : PageFits(t)) /\ (\A c \in Calls : CallFits(c))
  BY DEF PagesInv
<1>1. CASE Load
  <2>1. Held' = Held /\ Holds' = Holds
    BY <1>1 DEF Load, Held, Holds
  <2>2. UNCHANGED <<page, astray, call>>
    BY <1>1 DEF Load
  <2> QED
    BY <1>0, <2>1, <2>2, FitsKept DEF PagesInv
<1>2. CASE Mend
  <2>1. ~Holds
    BY <1>2 DEF Mend, Holds
  <2>2. UNCHANGED <<page, astray, call>>
    BY <1>2 DEF Mend, history
  <2>3. ASSUME NEW t \in Tabs PROVE PageFits(t)'
    BY <1>0, <2>1, <2>2 DEF PageFits
  <2>4. ASSUME NEW c \in Calls PROVE CallFits(c)'
    BY <1>0, <2>1, <2>2 DEF CallFits
  <2> QED
    BY <2>3, <2>4 DEF PagesInv
<1>3. CASE Crash
  <2> DEFINE lost == behind \/ \E c \in Calls : Writing(c)
  <2>1. CASE lost
    <3>1. ASSUME NEW t \in Tabs PROVE PageFits(t)'
      BY <1>3, <2>1 DEF Crash, PageFits, TypeOK
    <3>2. ASSUME NEW c \in Calls PROVE CallFits(c)'
      <4>1. CASE Free(c)
        BY <1>3, <4>1, Slot DEF Crash, CallFits, Free, NoCall
      <4>2. CASE ~Free(c)
        BY <1>3, <2>1, <4>2, Slot DEF Crash, CallFits, Requests
      <4> QED
        BY <4>1, <4>2
    <3> QED
      BY <3>1, <3>2 DEF PagesInv
  <2>2. CASE ~lost
    <3>1. Holds' = Holds /\ Held' = Held
      <4>1. Holds' /\ Held' = Held /\ Holds
        BY <1>3, <2>2, CrashHolds
      <4> QED
        BY <4>1 DEF Holds
    <3>2. \A t \in Tabs : UNCHANGED <<page[t], astray[t]>>
      BY <1>3, <2>2 DEF Crash, TypeOK
    <3>3. ASSUME NEW c \in Calls PROVE UNCHANGED call[c] \/ call'[c].phase = "failed"
      <4>1. CASE Free(c)
        BY <1>3, <2>2, <4>1 DEF Crash, Free
      <4>2. CASE ~Free(c)
        BY <1>3, <2>2, <4>2, Slot DEF Crash, Requests
      <4> QED
        BY <4>1, <4>2
    <3>4. ASSUME NEW c \in Calls, call'[c].phase = "failed" PROVE CallFits(c)'
      BY <3>4 DEF CallFits
    <3> QED
      BY <1>0, <3>1, <3>2, <3>3, <3>4, FitsKept DEF PagesInv
  <2> QED
    BY <2>1, <2>2
<1>4. ASSUME NEW t \in Tabs, Page(t) PROVE PagesInv'
  <2>1. PICK c \in Calls, r \in Requests :
            /\ Free(c) /\ OneSlot(c, r)
            /\ \/ r.phase = "asked"
               \/ /\ r.phase = "sent" /\ r.old = astray[t]
                  /\ Entries(IdsOf(r.body)) \ {r.id} = Entries(page[t]) \ {r.id}
    BY <1>4, PageType
  <2>2. UNCHANGED <<up, order, file, page, astray>>
    BY <1>4, PageType DEF store, history
  <2>3. Held' = Held /\ Holds' = Holds
    BY <2>2 DEF Held, Holds
  <2>4. call'[c] = r /\ \A d \in Calls : d # c => call'[d] = call[d]
    BY <2>1 DEF OneSlot, TypeOK
  <2>5. CallFits(c)'
    <3>1. PageFits(t)
      BY <1>0
    <3>2. r.phase \notin {"ok", "got"}
      BY <2>1
    <3>3. ASSUME r.phase = "sent", ~r.old
          PROVE  Holds /\ Entries(IdsOf(r.body)) \ {r.id} = Held \ {r.id}
      BY <2>1, <3>1, <3>3 DEF PageFits
    <3>4. /\ Entries(IdsOf(call[c].body))' = Entries(IdsOf(r.body))
      BY <2>4 DEF Entries, IdsOf
    <3> QED
      BY <2>3, <2>4, <3>2, <3>3, <3>4 DEF CallFits
  <2> QED
    BY <1>0, <2>2, <2>3, <2>4, <2>5, FitsKept DEF PagesInv
<1>5. ASSUME NEW c \in Calls, Request(c) PROVE PagesInv'
  <2>1. CASE Replace(c)
    <3> DEFINE body == Trimmed(call[c].body)
    <3>1. Install(c, body) /\ call[c] \in Requests
      BY <2>1, Slot DEF Replace, Free
    <3> HIDE DEF body
    <3>2. ASSUME NEW t \in Tabs PROVE PageFits(t)'
      BY <3>1 DEF Install, PageFits
    <3>3. ASSUME NEW d \in Calls PROVE CallFits(d)'
      <4>1. CASE d = c
        BY <3>1, <4>1 DEF Install, CallFits, Requests
      <4>2. CASE d # c /\ Free(d)
        BY <3>1, <4>2 DEF Install, CallFits, NoCall
      <4>3. CASE d # c /\ ~Free(d)
        BY <3>1, <4>3, Slot DEF Install, CallFits, Requests
      <4> QED
        BY <4>1, <4>2, <4>3
    <3> QED
      BY <3>2, <3>3 DEF PagesInv
  <2>2. CASE ~Replace(c)
    <3>1. \A d \in Calls : d # c => call'[d] = call[d]
      BY <1>5, <2>2, OthersKept
    <3>2. UNCHANGED <<up, order>> /\ (file' = file \/ (up /\ Rename(c)))
      <4>1. CASE Rename(c)
        <5>1. up
          BY <4>1 DEF Rename, Writing, WritersInv
        <5> QED
          BY <4>1, <5>1 DEF Rename
      <4>2. CASE ~Rename(c)
        BY <1>5, <2>2, <4>2 DEF Request, Get, ShowLoaded, LoadFails, Reject, Fill,
           WriteFails, List, ShowAnswer, EndCall, Unreachable, Post, store
      <4> QED
        BY <4>1, <4>2
    <3>3. Held' = Held /\ Holds' = Holds
      BY <3>2 DEF Held, Holds
    <3>4. ASSUME UNCHANGED <<page, astray>>, call'[c].phase \notin {"ok", "got", "sent"}
          PROVE  PagesInv'
      <4>1. CallFits(c)'
        BY <3>4 DEF CallFits
      <4> QED
        BY <1>0, <3>1, <3>3, <3>4, <4>1, FitsKept DEF PagesInv
    <3>5. CASE Get(c) \/ List(c)
      <4>1. call[c] \in Requests /\ up
        BY <3>5, Slot DEF Get, List, Free, WritersInv
      <4>2. UNCHANGED <<page, astray>> /\ Holds /\ Held = Entries(order)
        BY <3>5, <4>1 DEF Get, List, history, Held, Holds
      <4>3. call'[c].phase \in {"ok", "got"} /\ call'[c].list = order
        <5>1. CASE Get(c)
          BY <4>1, <5>1 DEF Get, TypeOK, Requests
        <5>2. CASE List(c)
          BY <4>1, <5>2 DEF List, TypeOK, Requests
        <5> QED
          BY <3>5, <5>1, <5>2
      <4>4. Entries(call[c].list)' = Entries(order)
        BY <4>3 DEF Entries
      <4>5. CallFits(c)'
        BY <3>3, <4>2, <4>3, <4>4 DEF CallFits
      <4> QED
        BY <1>0, <3>1, <3>3, <4>2, <4>5, FitsKept DEF PagesInv
    <3>6. CASE ShowLoaded(c) \/ ShowAnswer(c)
      <4>0. call[c] \in Requests /\ call[c].tab \in Tabs /\ call[c].phase \in {"ok", "got"}
        BY <3>6, Slot DEF ShowLoaded, ShowAnswer, Free, Requests, TypeOK
      <4> PICK t \in Tabs : t = call[c].tab
        BY <4>0
      <4>1. call[c] \in Requests /\ t = call[c].tab /\ call[c].phase \in {"ok", "got"}
        BY <4>0
      <4>2. Shows(c)
        BY <3>6 DEF ShowLoaded, ShowAnswer
      <4>3. /\ page'[t] = call[c].list /\ astray'[t] = call[c].old
            /\ \A s \in Tabs : s # t => page'[s] = page[s] /\ astray'[s] = astray[s]
        BY <4>1, <4>2 DEF Shows, TypeOK
      <4>4. CallFits(c)
        BY <1>0
      <4>5. PageFits(t)'
        <5>1. Entries(page[t])' = Entries(call[c].list)
          BY <4>3 DEF Entries
        <5> QED
          BY <3>3, <4>1, <4>3, <4>4, <5>1 DEF PageFits, CallFits
      <4>6. call'[c].phase \in {"none", "asked"}
        BY <3>6, <4>1 DEF ShowLoaded, ShowAnswer, Moves, NoCall, TypeOK, Requests
      <4>7. CallFits(c)'
        BY <4>6 DEF CallFits
      <4>8. \A s \in Tabs : PageFits(s)'
        BY <1>0, <3>3, <4>3, <4>5, FitsKept
      <4>9. \A d \in Calls : CallFits(d)'
        BY <1>0, <3>1, <3>3, <4>7, FitsKept
      <4> QED
        BY <4>8, <4>9 DEF PagesInv
    <3>7. CASE LoadFails(c)
      <4>1. call'[c].phase = "none"
        BY <3>7 DEF LoadFails, NoCall, TypeOK
      <4>2. \A s \in Tabs : astray'[s] \/ UNCHANGED <<page[s], astray[s]>>
        BY <3>7 DEF LoadFails, TypeOK
      <4>3. \A s \in Tabs : PageFits(s)'
        <5> TAKE s \in Tabs
        <5>1. CASE astray'[s]
          BY <5>1 DEF PageFits
        <5> QED
          BY <1>0, <3>3, <4>2, <5>1, FitsKept
      <4>4. CallFits(c)'
        BY <4>1 DEF CallFits
      <4> QED
        BY <1>0, <3>1, <3>3, <4>3, <4>4, FitsKept DEF PagesInv
    <3>8. CASE Reject(c) \/ Fill(c) \/ WriteFails(c) \/ Unreachable(c)
      <4>1. call[c] \in Requests
        BY <3>8, Slot DEF Reject, Fill, WriteFails, Unreachable, Writing, Free
      <4> QED
        BY <3>4, <3>8, <4>1 DEF Reject, Fill, WriteFails, Unreachable, Moves, TypeOK,
           Requests, history
    <3>9. CASE Rename(c) \/ EndCall(c)
      <4>1. call[c] \in Requests
        BY <3>9, Slot DEF Rename, EndCall, Free
      <4>2. CASE Rename(c)
        <5>1. call'[c].phase = "list" /\ UNCHANGED <<page, astray>>
          BY <4>1, <4>2 DEF Rename, TypeOK, Requests
        <5> QED
          BY <3>4, <5>1
      <4>3. CASE EndCall(c)
        <5>1. call'[c].phase = "none" /\ UNCHANGED <<page, astray>>
          BY <4>3 DEF EndCall, NoCall, TypeOK, history
        <5> QED
          BY <3>4, <5>1
      <4> QED
        BY <3>9, <4>2, <4>3
    <3>10. ASSUME NEW body \in Bodies, Post(c, body) PROVE PagesInv'
      <4>1. call'[c].phase = "sent" /\ call'[c].old /\ UNCHANGED <<page, astray>>
        BY <3>10 DEF Post, TypeOK, history
      <4>2. CallFits(c)'
        BY <4>1 DEF CallFits
      <4> QED
        BY <1>0, <3>1, <3>3, <4>1, <4>2, FitsKept DEF PagesInv
    <3> QED
      BY <1>5, <2>2, <3>5, <3>6, <3>7, <3>8, <3>9, <3>10 DEF Request
  <2> QED
    BY <2>1, <2>2
<1>6. CASE UNCHANGED vars
  <2>1. UNCHANGED <<up, order, file, page, astray, call>>
    BY <1>6 DEF vars
  <2>2. Held' = Held /\ Holds' = Holds
    BY <2>1 DEF Held, Holds
  <2> QED
    BY <1>0, <2>1, <2>2, FitsKept DEF PagesInv
<1> QED
  BY <1>1, <1>2, <1>3, <1>4, <1>5, <1>6 DEF Next

LEMMA PagesInvariant == Spec => [](TypeOK /\ WritersInv /\ PagesInv)
<1>1. Init => PagesInv
  BY DEF Init, PagesInv, PageFits, CallFits, NoCall
<1> QED
  BY <1>1, WritersInvariant, PagesStep, PTL DEF Spec

-----------------------------------------------------------------------------
(* Saves.                                                                   *)

\* Only Replace starts to write, and what is being written stays what it is.
LEMMA OnlyReplaceWrites ==
    ASSUME TypeOK, [Next]_vars, NEW c \in Calls, Writing(c)'
    PROVE  Replace(c) \/ (Writing(c) /\ call'[c].body = call[c].body)
<1>1. CASE Load \/ Mend \/ UNCHANGED vars
  BY <1>1 DEF Load, Mend, vars, Writing
<1>2. CASE Crash
  <2>1. CASE Free(c)
    BY <1>2, <2>1, Slot DEF Crash, Writing, Free, NoCall
  <2>2. CASE ~Free(c)
    BY <1>2, <2>2, Slot DEF Crash, Writing, Requests
  <2> QED
    BY <2>1, <2>2
<1>3. ASSUME NEW t \in Tabs, Page(t) PROVE Writing(c) /\ call'[c].body = call[c].body
  <2>1. PICK d \in Calls, r \in Requests : OneSlot(d, r) /\ r.phase \in {"asked", "sent"}
    BY <1>3, PageType
  <2> QED
    BY <2>1 DEF OneSlot, Writing, TypeOK
<1>4. ASSUME NEW d \in Calls, Request(d)
      PROVE  Replace(c) \/ (Writing(c) /\ call'[c].body = call[c].body)
  <2>1. CASE Replace(d)
    <3>1. CASE c = d
      BY <2>1, <3>1
    <3>2. CASE c # d /\ Free(c)
      BY <2>1, <3>2 DEF Replace, Install, Writing, NoCall
    <3>3. CASE c # d /\ ~Free(c)
      BY <2>1, <3>3, Slot DEF Replace, Install, Writing, Requests
    <3> QED
      BY <3>1, <3>2, <3>3
  <2>2. CASE ~Replace(d) /\ c # d
    BY <1>4, <2>2, OthersKept DEF Writing
  <2>3. CASE ~Replace(d) /\ c = d
    <3>1. CASE Fill(c)
      BY <3>1, Slot DEF Fill, Moves, Writing, Free, TypeOK, Requests
    <3>2. CASE Get(c)
      BY <3>2, Slot DEF Get, Writing, Free, TypeOK, Requests
    <3>3. CASE List(c)
      BY <3>3, Slot DEF List, Writing, Free, TypeOK, Requests
    <3>4. CASE Rename(c)
      BY <3>4, Slot DEF Rename, Writing, Free, TypeOK, Requests
    <3>5. CASE ShowLoaded(c) \/ LoadFails(c) \/ EndCall(c)
      BY <3>5 DEF ShowLoaded, LoadFails, EndCall, Writing, NoCall, TypeOK
    <3>6. CASE Reject(c) \/ Unreachable(c)
      BY <3>6, Slot DEF Reject, Unreachable, Moves, Writing, Free, TypeOK, Requests
    <3>7. CASE WriteFails(c)
      BY <3>7, Slot DEF WriteFails, Moves, Writing, Free, TypeOK, Requests
    <3>8. CASE ShowAnswer(c)
      BY <3>8, Slot DEF ShowAnswer, Moves, Writing, Free, TypeOK, Requests
    <3>9. CASE \E body \in Bodies : Post(c, body)
      BY <3>9 DEF Post, Writing, TypeOK
    <3> QED
      BY <1>4, <2>3, <3>1, <3>2, <3>3, <3>4, <3>5, <3>6, <3>7, <3>8, <3>9 DEF Request
  <2> QED
    BY <2>1, <2>2, <2>3
<1> QED
  BY <1>1, <1>2, <1>3, <1>4 DEF Next

\* A save from a page that is up to date changes one entry.
THEOREM OneEntryOnly == Spec => SaveTouchesOneEntry
<1> DEFINE Touch == \A c \in Calls :
              call[c].phase = "sent" /\ call'[c].phase = "write" /\ ~call[c].old =>
                 Entries(order') \ {call[c].id} = Entries(order) \ {call[c].id}
<1>1. TypeOK /\ PagesInv /\ [Next]_vars => [Touch]_vars
  <2> SUFFICES ASSUME TypeOK, PagesInv, [Next]_vars, NEW c \in Calls,
                      call[c].phase = "sent", call'[c].phase = "write", ~call[c].old
               PROVE  Entries(order') \ {call[c].id} = Entries(order) \ {call[c].id}
    OBVIOUS
  <2>1. Replace(c)
    BY OnlyReplaceWrites DEF Writing
  <2>2. call[c] \in Requests
    BY Slot DEF Free
  <2>3. order' = IdsOf(call[c].body) /\ up
    BY <2>1, <2>2, SlotChanges, TrimmedType DEF Replace, Install
  <2>4. Entries(IdsOf(call[c].body)) \ {call[c].id} = Held \ {call[c].id}
    BY DEF PagesInv, CallFits
  <2> QED
    BY <2>3, <2>4 DEF Held
<1> QED
  BY <1>1, PagesInvariant, PTL DEF Spec, SaveTouchesOneEntry

-----------------------------------------------------------------------------
(* Refinement.                                                              *)

\* ShortcutStore implements SnapshotFile: Replace changes memory, Rename
\* flushes a list that was being written, a crash is Stop; the pages and what
\* travels between them and the server stutter.
THEOREM Refinement == Spec => FileIsASnapshot
<1> DEFINE kept == IF file = Bad THEN Torn ELSE Entries(file)
<1>0. Torn \notin SUBSET Ids /\ Bad \notin Lists
  BY IdsAssumption, NamesAssumption, ListIsSeq DEF Torn
<1>1. Init => Abstract!Init
  <2> SUFFICES ASSUME Init PROVE Abstract!Init
    OBVIOUS
  <2>1. Entries(order) = {}
    BY EmptyList DEF Init
  <2>2. kept \in (SUBSET Ids) \cup {Torn}
    <3>1. CASE file = Bad
      BY <3>1
    <3>2. CASE file # Bad
      <4>1. Entries(file) \subseteq Ids
        BY <3>2, ListIsSeq DEF Init
      <4> QED
        BY <3>2, <4>1
    <3> QED
      BY <3>1, <3>2
  <2>3. Pending = {} /\ up = FALSE
    BY DEF Init, Pending
  <2> QED
    BY <2>1, <2>2, <2>3 DEF Abstract!Init
<1>2. TypeOK /\ WritersInv /\ [Next]_vars => [Abstract!Next]_(Abstract!vars)
  <2> SUFFICES ASSUME TypeOK, WritersInv, [Next]_vars
               PROVE  Abstract!Next \/ UNCHANGED Abstract!vars
    OBVIOUS
  <2>0. /\ Entries(order) \in SUBSET Ids
        /\ file # Bad => Entries(file) \in SUBSET Ids
    BY ListIsSeq DEF TypeOK
  <2>1. CASE Load
    <3>1. \A c \in Calls : ~Writing(c)'
      BY <2>1 DEF Load, WritersInv, Writing
    <3>2. order' = file /\ file' = file /\ ~up /\ up' /\ file # Bad
      BY <2>1 DEF Load
    <3>3. Pending' = {Entries(file)} /\ Entries(order)' = Entries(file)
      BY <3>1, <3>2 DEF Pending, Entries
    <3>4. kept # Torn /\ kept' = kept /\ kept = Entries(file)
      BY <1>0, <2>0, <3>2 DEF Entries
    <3>5. up' = TRUE
      BY <2>1 DEF Load
    <3> QED
      BY <3>2, <3>3, <3>4, <3>5 DEF Abstract!Next, Abstract!Start
  <2>2. CASE Mend
    <3>1. ~up /\ ~up' /\ file = Bad /\ file' = <<>> /\ up' = up /\ order' = order
      BY <2>2 DEF Mend
    <3>2. Pending = {} /\ Pending' = {} /\ Entries(order)' = Entries(order)
      BY <3>1 DEF Pending, Entries
    <3>3. kept = Torn /\ kept' = {}
      BY <1>0, <3>1, EmptyList DEF Entries
    <3> QED
      BY <3>1, <3>2, <3>3 DEF Abstract!Next, Abstract!Mend
  <2>3. CASE Crash
    <3>1. up /\ up' = FALSE /\ order' = <<>> /\ file' = file
      BY <2>3 DEF Crash
    <3>2. Pending' = {} /\ Entries(order)' = {} /\ kept' = kept
      BY <3>1, EmptyList DEF Pending, Entries
    <3> QED
      BY <3>1, <3>2 DEF Abstract!Next, Abstract!Stop
  <2>4. ASSUME UNCHANGED <<up, order>>,
               \A c \in Calls : Writing(c)' => Writing(c) /\ call'[c].body = call[c].body,
               kept' = kept \/ (up /\ kept' \in Pending)
        PROVE  Abstract!Next \/ UNCHANGED Abstract!vars
    <3>1. Pending' \subseteq Pending
      <4>1. Entries(order)' = Entries(order)
        BY <2>4 DEF Entries
      <4>2. ASSUME NEW c \in Calls, Writing(c)'
            PROVE  Entries(IdsOf(call[c].body))' = Entries(IdsOf(call[c].body))
        BY <2>4, <4>2 DEF Entries, IdsOf
      <4>3. ASSUME NEW x \in Pending' PROVE x \in Pending
        BY <2>4, <4>1, <4>2, <4>3 DEF Pending
      <4> QED
        BY <4>3
    <3>2. Entries(order)' = Entries(order)
      BY <2>4 DEF Entries
    <3> HIDE DEF kept
    <3>3. CASE up
      BY <2>0, <2>4, <3>1, <3>2, <3>3 DEF Abstract!Next, Abstract!Flush, Abstract!Change, kept
    <3>4. CASE ~up
      <4>1. Pending' = Pending /\ kept' = kept
        BY <2>4, <3>4 DEF Pending
      <4> QED
        BY <2>4, <3>2, <4>1 DEF Abstract!vars, kept
    <3> QED
      BY <3>3, <3>4
  <2>5. ASSUME NEW t \in Tabs, Page(t)
        PROVE  Abstract!Next \/ UNCHANGED Abstract!vars
    <3>1. UNCHANGED <<up, order, file>> /\ \A c \in Calls : ~Replace(c)
      <4>1. PICK c \in Calls, r \in Requests :
                Free(c) /\ OneSlot(c, r) /\ r.phase \in {"asked", "sent"}
        BY <2>5, PageType
      <4>2. ASSUME NEW d \in Calls, Replace(d) PROVE FALSE
        <5>1. call[d].phase = "sent" /\ call'[d].phase = "write"
          BY <4>2, Slot DEF Replace, Install, Requests, Free
        <5> QED
          BY <4>1, <5>1 DEF OneSlot, TypeOK, Free
      <4>3. UNCHANGED <<up, order, file>>
        BY <2>5, PageType DEF store
      <4> QED
        BY <4>2, <4>3
    <3>2. \A c \in Calls : Writing(c)' => Writing(c) /\ call'[c].body = call[c].body
      BY <3>1, OnlyReplaceWrites
    <3>3. kept' = kept
      BY <3>1 DEF Entries
    <3> HIDE DEF kept
    <3> QED
      BY <2>4, <3>1, <3>2, <3>3
  <2>6. ASSUME NEW c \in Calls, Replace(c) PROVE Abstract!Next
    <3>1. /\ up /\ up' = up /\ file' = file /\ call[c] \in Requests
          /\ Accepts(Trimmed(call[c].body)) /\ order' = IdsOf(Trimmed(call[c].body))
          /\ call'[c].body = Trimmed(call[c].body)
      BY <2>6, Slot DEF Replace, Install, Free, Requests
    <3>2. /\ order' \in Lists /\ Entries(order)' \in SUBSET Ids
          /\ Entries(IdsOf(call[c].body))' = Entries(order)'
      <4>1. order' \in Lists
        BY <3>1, SlotChanges, TrimmedType, AcceptedIsList
      <4>2. Entries(order') \in SUBSET Ids
        BY <4>1, ListIsSeq
      <4>3. Entries(order)' = Entries(order')
        BY DEF Entries
      <4>4. Entries(IdsOf(call[c].body))' = Entries(order)'
        BY <3>1 DEF Entries, IdsOf
      <4> QED
        BY <4>1, <4>2, <4>3, <4>4
    <3>3. ASSUME NEW d \in Calls, Writing(d)', d # c
          PROVE  Writing(d) /\ Entries(IdsOf(call[d].body))' = Entries(IdsOf(call[d].body))
      <4>1. ~Replace(d)
        <5>1. CASE Replace(d)
          <6>1. call'[c].phase = call[c].phase
            BY <2>6, <3>1, <3>3, <5>1 DEF Replace, Install, Free, Requests
          <6> QED
            BY <2>6, <3>1, <6>1 DEF Replace, Install, Requests
        <5> QED
          BY <5>1
      <4>2. Writing(d) /\ call'[d].body = call[d].body
        BY <3>3, <4>1, OnlyReplaceWrites
      <4> QED
        BY <4>2 DEF Entries, IdsOf
    <3>4. ASSUME NEW x \in Pending' PROVE x \in Pending \cup {Entries(order)'}
      <4>1. \/ x = Entries(order)'
            \/ \E d \in Calls : Writing(d)' /\ x = Entries(IdsOf(call[d].body))'
        BY <3>4 DEF Pending
      <4>2. ASSUME NEW d \in Calls, Writing(d)', x = Entries(IdsOf(call[d].body))'
            PROVE  x \in Pending \cup {Entries(order)'}
        <5>1. CASE d = c
          BY <3>2, <4>2, <5>1
        <5>2. CASE d # c
          BY <3>1, <3>3, <4>2, <5>2 DEF Pending
        <5> QED
          BY <5>1, <5>2
      <4> QED
        BY <4>1, <4>2
    <3>5. kept' = kept
      BY <3>1 DEF Entries
    <3>6. Pending' \subseteq Pending \cup {Entries(order)'}
      BY <3>4
    <3> QED
      BY <3>1, <3>2, <3>5, <3>6 DEF Abstract!Next, Abstract!Change
  <2>7. ASSUME NEW c \in Calls, Request(c), \A d \in Calls : ~Replace(d)
        PROVE  Abstract!Next \/ UNCHANGED Abstract!vars
    <3>1. \A d \in Calls : Writing(d)' => Writing(d) /\ call'[d].body = call[d].body
      BY <2>7, OnlyReplaceWrites
    <3>2. UNCHANGED <<up, order>> /\ (kept' = kept \/ (up /\ kept' \in Pending))
      <4>1. CASE Rename(c)
        <5>1. Writing(c) /\ up /\ Accepts(call[c].body)
          BY <4>1 DEF Rename, Writing, WritersInv
        <5>2. PICK sorted \in Lists : Sorts(IdsOf(call[c].body), sorted) /\ file' = sorted
          BY <4>1, <5>1 DEF Rename
        <5>3. kept' = Entries(IdsOf(call[c].body))
          BY <1>0, <5>2 DEF Sorts, Entries
        <5>4. kept' \in Pending
          BY <5>1, <5>3 DEF Pending
        <5> HIDE DEF kept
        <5> QED
          BY <4>1, <5>1, <5>4 DEF Rename
      <4>2. CASE ~Rename(c)
        <5>1. UNCHANGED <<up, order, file>>
          BY <2>7, <4>2 DEF Request, Get, ShowLoaded, LoadFails, Reject, Fill,
             WriteFails, List, ShowAnswer, EndCall, Unreachable, Post, store
        <5>2. kept' = kept
          BY <5>1 DEF Entries
        <5> HIDE DEF kept
        <5> QED
          BY <5>1, <5>2
      <4> QED
        BY <4>1, <4>2
    <3> HIDE DEF kept
    <3> QED
      BY <2>4, <3>1, <3>2
  <2>8. CASE UNCHANGED vars
    <3>1. UNCHANGED <<up, order, file, call>>
      BY <2>8 DEF vars
    <3>2. Entries(order)' = Entries(order) /\ kept' = kept
      BY <3>1 DEF Entries
    <3>3. Pending' = Pending
      BY <3>1 DEF Pending, Writing, Entries, IdsOf
    <3> QED
      BY <3>1, <3>2, <3>3 DEF Abstract!vars
  <2> QED
    BY <2>1, <2>2, <2>3, <2>5, <2>6, <2>7, <2>8 DEF Next
<1> QED
  BY <1>1, <1>2, WritersInvariant, PTL DEF Spec, FileIsASnapshot, Abstract!Spec

=============================================================================
