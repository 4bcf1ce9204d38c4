-------------------------- MODULE PhoneApps_proofs --------------------------
(***************************************************************************)
(* Proofs about PhoneApps, Catalog, DesktopEntry, ExecLine and Icons, for  *)
(* any desktop files and directories, themes and icons, applications,      *)
(* shortcuts, refreshes, tokens, changes by the operator and restarts.     *)
(***************************************************************************)
EXTENDS PhoneApps, TLAPS

Finite == INSTANCE FiniteSetTheorems

-----------------------------------------------------------------------------
(* Desktop files.                                                           *)

\* A set that holds 0, and with n also n + 1, holds every natural number: were m
\* not in it, i |-> i + 1 would map those below m that are injectively, but not
\* onto, themselves.
LEMMA Induct ==
    ASSUME NEW S, 0 \in S, \A n \in Nat : n \in S => n + 1 \in S
    PROVE  Nat \subseteq S
<1> SUFFICES ASSUME NEW m \in Nat, m \notin S PROVE FALSE
  OBVIOUS
<1> DEFINE T == {i \in 0..m : i \in S}
           f == [i \in T |-> i + 1]
<1>1. Finite!IsFiniteSet(T)
  <2>1. Finite!IsFiniteSet(0..m)
    BY Finite!FS_Interval
  <2>2. T \in SUBSET (0..m)
    OBVIOUS
  <2> HIDE DEF T
  <2> QED
    BY <2>1, <2>2, Finite!FS_Subset
<1>2. f \in [T -> T]
  <2>1. \A i \in T : i + 1 \in T
    BY SMT
  <2> HIDE DEF T
  <2> QED
    BY <2>1
<1>3. f \in Finite!Injection(T, T)
  <2>1. T \subseteq Nat
    OBVIOUS
  <2> HIDE DEF T
  <2> QED
    BY <1>2, <2>1 DEF Finite!Injection, Finite!IsInjective
<1>4. f \in Finite!Surjection(T, T)
  <2> HIDE DEF T, f
  <2> QED
    BY <1>1, <1>3, Finite!FS_Injection
<1>5. 0 \in T
  OBVIOUS
<1>6. \A i \in T : f[i] # 0
  OBVIOUS
<1> QED
  <2> HIDE DEF T, f
  <2> QED
    BY <1>4, <1>5, <1>6 DEF Finite!Surjection

\* Reading is the function that its definition describes.
LEMMA ReadingIs ==
    ASSUME NEW lines, Len(lines) \in Nat
    PROVE  Reading(lines) =
               [n \in 0..Len(lines) |->
                  IF n = 0 THEN Start ELSE readLine(Reading(lines)[n - 1], lines[n])]
<1> DEFINE Is(f, k) == f = [n \in 0..k |-> IF n = 0 THEN Start
                                           ELSE readLine(f[n - 1], lines[n])]
           S == {k \in Nat : \E f : Is(f, k)}
<1>1. 0 \in S
  <2>1. Is([n \in 0..0 |-> Start], 0)
    OBVIOUS
  <2> QED
    BY <2>1
<1>2. ASSUME NEW k \in Nat, k \in S PROVE k + 1 \in S
  <2>1. PICK f : Is(f, k)
    BY <1>2
  <2> DEFINE g == [n \in 0..(k + 1) |-> IF n = k + 1 THEN readLine(f[k], lines[k + 1])
                                       ELSE f[n]]
  <2>2. ASSUME NEW n \in 0..(k + 1)
        PROVE  g[n] = IF n = 0 THEN Start ELSE readLine(g[n - 1], lines[n])
    <3>1. CASE n = k + 1
      <4>1. g[n] = readLine(f[k], lines[k + 1])
        BY <3>1
      <4>2. g[n - 1] = f[k] /\ n # 0
        BY <3>1
      <4> QED
        BY <3>1, <4>1, <4>2
    <3>2. CASE n # k + 1
      <4>1. n \in 0..k /\ g[n] = f[n] /\ (n # 0 => n - 1 \in 0..(k + 1) /\ n - 1 # k + 1)
        BY <3>2
      <4>2. n # 0 => g[n - 1] = f[n - 1]
        BY <4>1
      <4>3. f[n] = IF n = 0 THEN Start ELSE readLine(f[n - 1], lines[n])
        BY <2>1, <4>1
      <4> QED
        BY <4>1, <4>2, <4>3
    <3> QED
      BY <3>1, <3>2
  <2>3. Is(g, k + 1)
    <3>1. g = [n \in 0..(k + 1) |-> g[n]]
      OBVIOUS
    <3> HIDE DEF g
    <3> QED
      BY <2>2, <3>1
  <2> HIDE DEF Is, g
  <2>4. \E h : Is(h, k + 1)
    BY <2>3
  <2> QED
    BY <2>4
<1>3. \E f : Is(f, Len(lines))
  <2>1. Nat \subseteq S
    <3> HIDE DEF S
    <3> QED
      BY <1>1, <1>2, Induct
  <2> QED
    BY <2>1
<1> QED
  BY <1>3 DEF Reading

LEMMA LatestIsLast ==
    ASSUME NEW n \in Nat, NEW S \in SUBSET (1..n)
    PROVE  Latest(S \cup {n + 1}) = n + 1
<1> DEFINE T == S \cup {n + 1}
<1>1. n + 1 \in T /\ \A j \in T : j <= n + 1
  OBVIOUS
<1>2. \A i \in T : (\A j \in T : j <= i) => i = n + 1
  OBVIOUS
<1> HIDE DEF T
<1>3. Latest(T) = n + 1
  BY <1>1, <1>2 DEF Latest
<1> QED
  BY <1>3 DEF T

\* What one more line changes.
LEMMA UnderStep ==
    ASSUME NEW lines, NEW n \in Nat
    PROVE  Under(lines, n + 1) = IF lines[n + 1].kind = "group" THEN lines[n + 1].name
                                 ELSE Under(lines, n)
<1> DEFINE groups(m) == {j \in 1..m : lines[j].kind = "group"}
<1>1. CASE lines[n + 1].kind = "group"
  <2>1. groups(n + 1) = groups(n) \cup {n + 1}
    BY <1>1
  <2>2. groups(n) \in SUBSET (1..n)
    OBVIOUS
  <2>3. Latest(groups(n + 1)) = n + 1
    BY <2>1, <2>2, LatestIsLast
  <2>4. groups(n + 1) # {}
    BY <2>1
  <2> QED
    BY <1>1, <2>3, <2>4 DEF Under
<1>2. CASE lines[n + 1].kind # "group"
  <2>1. groups(n + 1) = groups(n)
    BY <1>2
  <2> QED
    BY <1>2, <2>1 DEF Under
<1> QED
  BY <1>1, <1>2

LEMMA SaidStep ==
    ASSUME NEW lines, NEW n \in Nat, NEW key
    PROVE  Said(lines, n + 1, key) =
               IF Ours(lines, n + 1) /\ lines[n + 1].key = key THEN lines[n + 1].value
               ELSE Said(lines, n, key)
<1> DEFINE places(m) == {i \in 1..m : Ours(lines, i) /\ lines[i].key = key}
<1>1. CASE Ours(lines, n + 1) /\ lines[n + 1].key = key
  <2>1. places(n + 1) = places(n) \cup {n + 1}
    BY <1>1
  <2>2. places(n) \in SUBSET (1..n)
    OBVIOUS
  <2>3. Latest(places(n + 1)) = n + 1
    BY <2>1, <2>2, LatestIsLast
  <2>4. places(n + 1) # {}
    BY <2>1
  <2> QED
    BY <1>1, <2>3, <2>4 DEF Said
<1>2. CASE ~(Ours(lines, n + 1) /\ lines[n + 1].key = key)
  <2>1. places(n + 1) = places(n)
    BY <1>2
  <2> QED
    BY <1>2, <2>1 DEF Said
<1> QED
  BY <1>1, <1>2

\* What is known after n lines: what they say, or that one of them does not fit.
Sound(lines, n) == \A i \in 1..n : Fits(lines, i)
Seen(lines, n) == \E i \in 1..n : lines[i].kind = "group" /\ lines[i].name = Section

Agrees(lines, n, s) ==
    IF Sound(lines, n)
    THEN s = [section |-> Under(lines, n), seen |-> Seen(lines, n),
              entry |-> Gathered(lines, n)]
    ELSE s.entry = Broken

LEMMA GatheredFields ==
    ASSUME NEW lines, NEW n
    PROVE  /\ Gathered(lines, n) # Broken
           /\ \A key \in Keys : Gathered(lines, n)[key] = Said(lines, n, key)
<1>1. /\ NoEntry.broken = FALSE /\ Broken.broken = TRUE /\ "broken" \notin Keys
      /\ "broken" \in DOMAIN NoEntry /\ Keys \subseteq DOMAIN NoEntry
  BY DEF NoEntry, Broken, Keys
<1>2. Gathered(lines, n).broken = FALSE
  BY <1>1 DEF Gathered
<1>3. \A key \in Keys : Gathered(lines, n)[key] = Said(lines, n, key)
  BY <1>1 DEF Gathered
<1> QED
  BY <1>1, <1>2, <1>3

LEMMA LineRead ==
    ASSUME NEW lines, IsFile(lines), NEW n \in Nat, n + 1 \in DOMAIN lines,
           NEW s, Agrees(lines, n, s)
    PROVE  Agrees(lines, n + 1, readLine(s, lines[n + 1]))
<1> DEFINE line == lines[n + 1]
           now == readLine(s, line)
           entry == Gathered(lines, n)
<1>1. line.kind \in {"blank", "group", "junk", "pair"}
  BY DEF IsFile
<1>2. Sound(lines, n + 1) <=> Sound(lines, n) /\ Fits(lines, n + 1)
  BY DEF Sound
<1>3. CASE ~Sound(lines, n)
  <2>1. s.entry = Broken
    BY <1>3 DEF Agrees
  <2>2. now = s
    BY <2>1 DEF readLine
  <2> QED
    BY <1>2, <1>3, <2>1, <2>2 DEF Agrees
<1>4. CASE Sound(lines, n)
  <2>1. s = [section |-> Under(lines, n), seen |-> Seen(lines, n), entry |-> entry]
    BY <1>4 DEF Agrees
  <2>2. s.entry # Broken
    BY <2>1, GatheredFields
  <2>3. Seen(lines, n + 1) <=> Seen(lines, n) \/ (line.kind = "group" /\ line.name = Section)
    BY DEF Seen
  <2>4. ~Ours(lines, n + 1) => Gathered(lines, n + 1) = entry
    BY SaidStep DEF Gathered
  <2>5. CASE line.kind = "blank"
    <3>1. now = s
      BY <2>5 DEF readLine
    <3>2. Fits(lines, n + 1) /\ ~Ours(lines, n + 1)
      BY <2>5 DEF Fits, Ours
    <3>3. Under(lines, n + 1) = Under(lines, n)
      BY <2>5, UnderStep
    <3>4. Seen(lines, n + 1) = Seen(lines, n)
      BY <2>3, <2>5 DEF Seen
    <3> QED
      BY <1>2, <1>4, <2>1, <2>4, <3>1, <3>2, <3>3, <3>4 DEF Agrees
  <2>6. CASE line.kind = "group"
    <3>1. now = [s EXCEPT !.section = line.name, !.seen = @ \/ line.name = Section]
      BY <2>2, <2>6 DEF readLine
    <3>2. Fits(lines, n + 1) /\ ~Ours(lines, n + 1)
      BY <2>6 DEF Fits, Ours
    <3>3. Under(lines, n + 1) = line.name
      BY <2>6, UnderStep
    <3>4. Seen(lines, n + 1) = (Seen(lines, n) \/ line.name = Section)
      BY <2>3, <2>6 DEF Seen
    <3>5. now = [section |-> Under(lines, n + 1), seen |-> Seen(lines, n + 1),
                 entry |-> entry]
      BY <2>1, <3>1, <3>3, <3>4
    <3> QED
      BY <1>2, <1>4, <2>4, <3>2, <3>5 DEF Agrees
  <2>7. CASE line.kind = "junk"
    <3>1. ~Fits(lines, n + 1)
      BY <2>7 DEF Fits
    <3>2. now = [s EXCEPT !.entry = Broken]
      BY <2>2, <2>7 DEF readLine
    <3>3. now.entry = Broken
      BY <2>1, <3>2
    <3> QED
      BY <1>2, <3>1, <3>3 DEF Agrees
  <2>8. CASE line.kind = "pair"
    <3>1. Under(lines, n + 1) = Under(lines, n) /\ s.section = Under(lines, n)
      BY <2>1, <2>8, UnderStep
    <3>2. Seen(lines, n + 1) = Seen(lines, n)
      BY <2>3, <2>8 DEF Seen
    <3>3. CASE s.section = ""
      <4>1. ~Fits(lines, n + 1)
        BY <2>8, <3>1, <3>3 DEF Fits
      <4>2. now = [s EXCEPT !.entry = Broken]
        BY <2>2, <2>8, <3>3 DEF readLine
      <4>3. now.entry = Broken
        BY <2>1, <4>2
      <4> QED
        BY <1>2, <4>1, <4>3 DEF Agrees
    <3>4. CASE s.section # "" /\ s.section # Section
      <4>1. Fits(lines, n + 1) /\ ~Ours(lines, n + 1)
        BY <2>8, <3>1, <3>4 DEF Fits, Ours
      <4>2. now = s
        BY <2>2, <2>8, <3>4 DEF readLine
      <4> QED
        BY <1>2, <1>4, <2>1, <2>4, <3>1, <3>2, <4>1, <4>2 DEF Agrees
    <3>5. CASE s.section = Section
      <4>1. Ours(lines, n + 1) /\ Section # ""
        BY <2>8, <3>1, <3>5 DEF Ours, Section
      <4>2. Fits(lines, n + 1) <=> ~Refuses(line.key, line.value)
        BY <2>8, <3>1, <3>5, <4>1 DEF Fits
      <4>3. now = [s EXCEPT !.entry = assignKey(entry, line.key, line.value)]
        BY <2>1, <2>2, <2>8, <3>5, <4>1 DEF readLine
      <4>4. CASE Refuses(line.key, line.value)
        <5>1. now.entry = Broken
          BY <2>1, <4>3, <4>4 DEF assignKey
        <5> QED
          BY <1>2, <4>2, <4>4, <5>1 DEF Agrees
      <4>5. CASE ~Refuses(line.key, line.value)
        <5>1. assignKey(entry, line.key, line.value) = Gathered(lines, n + 1)
          <6>1. Gathered(lines, n + 1) =
                   IF line.key \in Keys THEN [entry EXCEPT ![line.key] = line.value]
                   ELSE entry
            <7>1. \A k : Said(lines, n + 1, k) = IF k = line.key THEN line.value
                                                 ELSE Said(lines, n, k)
              BY <4>1, SaidStep
            <7>2. Keys \subseteq DOMAIN NoEntry
              BY DEF Keys, NoEntry
            <7> QED
              BY <7>1, <7>2 DEF Gathered
          <6> QED
            BY <4>5, <6>1 DEF assignKey
        <5>2. now = [section |-> Under(lines, n + 1), seen |-> Seen(lines, n + 1),
                     entry |-> Gathered(lines, n + 1)]
          BY <2>1, <3>1, <3>2, <4>3, <5>1
        <5> QED
          BY <1>2, <1>4, <4>2, <4>5, <5>2 DEF Agrees
      <4> QED
        BY <4>4, <4>5
    <3> QED
      BY <3>3, <3>4, <3>5
  <2> QED
    BY <1>1, <2>5, <2>6, <2>7, <2>8
<1> QED
  BY <1>3, <1>4

\* Reading a desktop file line by line yields what is written in it.
THEOREM ReadsWhatIsWritten == \A lines : IsFile(lines) => Parse(lines) = Written(lines)
<1> SUFFICES ASSUME NEW lines, IsFile(lines) PROVE Parse(lines) = Written(lines)
  OBVIOUS
<1> DEFINE all == Len(lines)
<1>1. all \in Nat /\ DOMAIN lines = 1..all
  BY DEF IsFile
<1> DEFINE S == {n \in Nat : n <= all => Agrees(lines, n, Reading(lines)[n])}
<1>2. 0 \in S
  <2>1. Reading(lines)[0] = Start
    BY <1>1, ReadingIs
  <2>2. Under(lines, 0) = "" /\ Sound(lines, 0) /\ Seen(lines, 0) = FALSE
    BY DEF Under, Sound, Seen
  <2>3. Gathered(lines, 0) = NoEntry
    <3>1. \A key : Said(lines, 0, key) = NoEntry[key]
      BY DEF Said
    <3>2. NoEntry = [k \in DOMAIN NoEntry |-> NoEntry[k]]
      BY DEF NoEntry
    <3> QED
      BY <3>1, <3>2 DEF Gathered
  <2> QED
    BY <2>1, <2>2, <2>3 DEF Agrees, Start
<1>3. ASSUME NEW n \in Nat, n \in S PROVE n + 1 \in S
  <2> SUFFICES ASSUME n + 1 <= all PROVE Agrees(lines, n + 1, Reading(lines)[n + 1])
    OBVIOUS
  <2>1. Agrees(lines, n, Reading(lines)[n])
    BY <1>1, <1>3
  <2>2. Reading(lines)[n + 1] = readLine(Reading(lines)[n], lines[n + 1])
    <3>1. n + 1 \in 0..all /\ n + 1 # 0 /\ (n + 1) - 1 = n
      BY <1>1
    <3> QED
      BY <1>1, <3>1, ReadingIs
  <2> QED
    BY <1>1, <2>1, <2>2, LineRead
<1>4. Agrees(lines, all, Reading(lines)[all])
  <2>1. Nat \subseteq S
    <3> HIDE DEF S
    <3> QED
      BY <1>2, <1>3, Induct
  <2> QED
    BY <1>1, <2>1
<1>5. CASE Sound(lines, all)
  <2>1. /\ Reading(lines)[all].entry = Gathered(lines, all)
        /\ Reading(lines)[all].seen = Seen(lines, all)
    BY <1>4, <1>5 DEF Agrees
  <2>2. Gathered(lines, all) # Broken /\ Gathered(lines, all).Type = Said(lines, all, "Type")
    BY GatheredFields DEF Keys
  <2> QED
    BY <1>1, <1>5, <2>1, <2>2 DEF Parse, Written, Sound, Seen
<1>6. CASE ~Sound(lines, all)
  BY <1>1, <1>4, <1>6 DEF Agrees, Parse, Written, Sound
<1> QED
  BY <1>5, <1>6

-----------------------------------------------------------------------------
(* Exec lines.                                                              *)

\* A set that holds the empty sequence, and with a sequence every one that is
\* longer by one element, holds all of them.
LEMMA InductSeq ==
    ASSUME NEW C, NEW S, <<>> \in S,
           \A q \in Seq(C), c \in C : q \in S => Append(q, c) \in S
    PROVE  Seq(C) \subseteq S
<1> DEFINE N == {n \in Nat : \A q \in Seq(C) : Len(q) = n => q \in S}
<1>1. 0 \in N
  <2>1. \A q \in Seq(C) : Len(q) = 0 => q = <<>>
    OBVIOUS
  <2> QED
    BY <2>1
<1>2. ASSUME NEW n \in Nat, n \in N PROVE n + 1 \in N
  <2> SUFFICES ASSUME NEW q \in Seq(C), Len(q) = n + 1 PROVE q \in S
    OBVIOUS
  <2> DEFINE p == [i \in 1..n |-> q[i]]
  <2>1. p \in Seq(C) /\ Len(p) = n
    OBVIOUS
  <2>2. q[n + 1] \in C
    OBVIOUS
  <2>3. q = Append(p, q[n + 1])
    OBVIOUS
  <2>4. p \in S
    BY <1>2, <2>1
  <2> HIDE DEF p
  <2> QED
    BY <2>1, <2>2, <2>3, <2>4
<1>3. Nat \subseteq N
  <2> HIDE DEF N
  <2> QED
    BY <1>1, <1>2, Induct
<1> QED
  BY <1>3

\* What a loop has made after each element.
Passes(f, step, s, seq, k) ==
    f = [n \in 0..k |-> IF n = 0 THEN s ELSE step[f[n - 1]][seq[n]]]

\* There is such a function, and it stays in the set of the loop's states.
LEMMA PassesThrough ==
    ASSUME NEW T, NEW C, NEW step \in [T -> [C -> T]], NEW s \in T, NEW seq \in Seq(C)
    PROVE  \E f \in [0..Len(seq) -> T] : Passes(f, step, s, seq, Len(seq))
<1> DEFINE N == {n \in Nat : n <= Len(seq) =>
                   \E f \in [0..n -> T] : Passes(f, step, s, seq, n)}
<1>1. 0 \in N
  <2>1. Passes([n \in 0..0 |-> s], step, s, seq, 0)
    BY DEF Passes
  <2> QED
    BY <2>1
<1>2. ASSUME NEW n \in Nat, n \in N PROVE n + 1 \in N
  <2> SUFFICES ASSUME n + 1 <= Len(seq)
               PROVE  \E f \in [0..(n + 1) -> T] : Passes(f, step, s, seq, n + 1)
    OBVIOUS
  <2>1. PICK f \in [0..n -> T] : Passes(f, step, s, seq, n)
    BY <1>2
  <2>2. f[n] \in T /\ seq[n + 1] \in C
    OBVIOUS
  <2>3. PICK t \in T : t = step[f[n]][seq[n + 1]]
    BY <2>2
  <2> DEFINE g == [i \in 0..(n + 1) |-> IF i = n + 1 THEN t ELSE f[i]]
  <2>4. g \in [0..(n + 1) -> T]
    OBVIOUS
  <2>5. ASSUME NEW i \in 0..(n + 1)
        PROVE  g[i] = IF i = 0 THEN s ELSE step[g[i - 1]][seq[i]]
    <3>1. CASE i = n + 1
      <4>1. i - 1 = n /\ n \in 0..(n + 1) /\ n # n + 1 /\ i # 0
        BY <3>1
      <4>2. g[i] = t /\ g[i - 1] = f[n]
        BY <3>1, <4>1
      <4> QED
        BY <2>3, <3>1, <4>1, <4>2
    <3>2. CASE i # n + 1
      <4>1. i \in 0..n /\ g[i] = f[i] /\ (i # 0 => i - 1 \in 0..(n + 1) /\ i - 1 # n + 1)
        BY <3>2
      <4>2. i # 0 => g[i - 1] = f[i - 1]
        BY <4>1
      <4>3. f[i] = IF i = 0 THEN s ELSE step[f[i - 1]][seq[i]]
        BY <2>1, <4>1 DEF Passes
      <4> QED
        BY <4>1, <4>2, <4>3
    <3> QED
      BY <3>1, <3>2
  <2>6. Passes(g, step, s, seq, n + 1)
    <3>1. g = [i \in 0..(n + 1) |-> g[i]]
      OBVIOUS
    <3> HIDE DEF g
    <3> QED
      BY <2>5, <3>1 DEF Passes
  <2> HIDE DEF g
  <2> QED
    BY <2>4, <2>6
<1>3. Nat \subseteq N
  <2> HIDE DEF N
  <2> QED
    BY <1>1, <1>2, Induct
<1> QED
  BY <1>3

\* Two of them agree as long as the sequences do.
LEMMA PassesAlike ==
    ASSUME NEW step, NEW s, NEW p, NEW q, NEW k \in Nat, NEW l \in Nat, NEW f, NEW g,
           Passes(f, step, s, p, k), Passes(g, step, s, q, l), k <= l,
           \A n \in 1..k : p[n] = q[n]
    PROVE  f[k] = g[k]
<1> DEFINE N == {n \in Nat : n <= k => f[n] = g[n]}
<1>0. /\ \A n \in 0..k : f[n] = IF n = 0 THEN s ELSE step[f[n - 1]][p[n]]
      /\ \A n \in 0..l : g[n] = IF n = 0 THEN s ELSE step[g[n - 1]][q[n]]
  BY DEF Passes
<1>1. 0 \in N
  <2>1. 0 \in 0..k /\ 0 \in 0..l
    OBVIOUS
  <2> QED
    BY <1>0, <2>1
<1>2. ASSUME NEW n \in Nat, n \in N PROVE n + 1 \in N
  <2> SUFFICES ASSUME n + 1 <= k PROVE f[n + 1] = g[n + 1]
    OBVIOUS
  <2>1. n + 1 \in 0..k /\ n + 1 \in 0..l /\ n + 1 # 0 /\ (n + 1) - 1 = n /\ n + 1 \in 1..k
    OBVIOUS
  <2>2. f[n + 1] = step[f[n]][p[n + 1]] /\ g[n + 1] = step[g[n]][q[n + 1]]
    BY <1>0, <2>1
  <2>3. f[n] = g[n] /\ p[n + 1] = q[n + 1]
    BY <1>2, <2>1
  <2> QED
    BY <2>2, <2>3
<1>3. Nat \subseteq N
  <2> HIDE DEF N
  <2> QED
    BY <1>1, <1>2, Induct
<1> QED
  BY <1>3

\* A loop does nothing over an empty sequence; one more element is one more step.
Loops(step, s, T, C) ==
    /\ Loop(step, s, <<>>) = s
    /\ \A seq \in Seq(C) :
         /\ Loop(step, s, seq) \in T
         /\ \A c \in C : Loop(step, s, Append(seq, c)) = step[Loop(step, s, seq)][c]

\* Every loop whose steps stay in the set of its states is one.
LEMMA Looped ==
    ASSUME NEW T, NEW C, NEW step \in [T -> [C -> T]], NEW s \in T
    PROVE  Loops(step, s, T, C)
<1> DEFINE F(seq) == CHOOSE f : Passes(f, step, s, seq, Len(seq))
<1>1. \A seq : Loop(step, s, seq) = F(seq)[Len(seq)]
  BY DEF Loop, Passes
<1>2. ASSUME NEW seq \in Seq(C)
      PROVE  /\ Passes(F(seq), step, s, seq, Len(seq))
             /\ Loop(step, s, seq) \in T
  <2>1. PICK f \in [0..Len(seq) -> T] : Passes(f, step, s, seq, Len(seq))
    BY PassesThrough
  <2>2. Passes(F(seq), step, s, seq, Len(seq))
    BY <2>1
  <2>3. F(seq)[Len(seq)] = f[Len(seq)]
    <3> HIDE DEF F
    <3> QED
      BY <2>1, <2>2, PassesAlike
  <2>4. f[Len(seq)] \in T
    OBVIOUS
  <2> QED
    BY <1>1, <2>2, <2>3, <2>4
<1> HIDE DEF F
<1>3. Loop(step, s, <<>>) = s
  <2>0. <<>> \in Seq(C) /\ Len(<<>>) = 0
    OBVIOUS
  <2>1. Passes(F(<<>>), step, s, <<>>, 0)
    BY <1>2, <2>0
  <2>2. F(<<>>)[0] = s
    BY <2>1 DEF Passes
  <2> QED
    BY <1>1, <2>0, <2>2
<1>4. ASSUME NEW seq \in Seq(C), NEW c \in C
      PROVE  Loop(step, s, Append(seq, c)) = step[Loop(step, s, seq)][c]
  <2> DEFINE k == Len(seq)
             next == Append(seq, c)
  <2>1. /\ next \in Seq(C) /\ Len(next) = k + 1 /\ k \in Nat /\ next[k + 1] = c
        /\ \A n \in 1..k : seq[n] = next[n]
    OBVIOUS
  <2> HIDE DEF next, k
  <2>2. Passes(F(next), step, s, next, k + 1) /\ Passes(F(seq), step, s, seq, k)
    BY <1>2, <2>1 DEF k
  <2>3. F(next)[k] = F(seq)[k]
    BY <2>1, <2>2, PassesAlike
  <2>4. F(next)[k + 1] = step[F(next)[k]][c]
    <3>1. k + 1 \in 0..(k + 1) /\ k + 1 # 0 /\ (k + 1) - 1 = k
      BY <2>1
    <3> QED
      BY <2>1, <2>2, <3>1 DEF Passes
  <2> QED
    BY <1>1, <2>1, <2>3, <2>4 DEF k, next
<1> QED
  BY <1>2, <1>3, <1>4 DEF Loops

\* The characters that count are different from each other.
LEMMA CharsDiffer ==
    /\ " " \in Chars /\ Quote \in Chars /\ Backslash \in Chars /\ "$" \in Chars
    /\ "%" \in Chars /\ Codes \subseteq Chars
    /\ Quote # Backslash /\ Quote # " " /\ Backslash # " " /\ Quote # "%" /\ Backslash # "%"
    /\ "%" \notin Codes
BY DEF Chars, Codes, Quote, Backslash

\* The loop of SplitExec.
Reader == [s \in Scans |-> [c \in Chars |-> Read(s, c)]]
Scanned(text) == Loop(Reader, NothingRead, text)

\* A flush keeps the type of the state.
LEMMA Flushes == \A s \in Scans : flush(s) \in Scans
<1> SUFFICES ASSUME NEW s \in Scans PROVE flush(s) \in Scans
  OBVIOUS
<1>1. s.done \in Texts /\ s.cur \in Text
  BY DEF Scans
<1>2. Append(s.done, s.cur) \in Texts /\ <<>> \in Text
  BY <1>1 DEF Texts, Text
<1> QED
  BY <1>2 DEF flush, Scans

\* So does every character.
LEMMA Reads == \A s \in Scans, c \in Chars : Read(s, c) \in Scans
<1> SUFFICES ASSUME NEW s \in Scans, NEW c \in Chars PROVE Read(s, c) \in Scans
  OBVIOUS
<1> DEFINE put == [s EXCEPT !.cur = Append(@, c), !.inToken = TRUE, !.esc = FALSE]
<1>1. put \in Scans
  <2>1. s.cur \in Text
    BY DEF Scans
  <2>2. Append(s.cur, c) \in Text
    BY <2>1 DEF Text
  <2> QED
    BY <2>2 DEF Scans
<1>2. [s EXCEPT !.bad = TRUE] \in Scans
  BY DEF Scans
<1>3. [s EXCEPT !.esc = TRUE] \in Scans
  BY DEF Scans
<1>4. [s EXCEPT !.inQuote = ~@, !.inToken = TRUE] \in Scans
  BY DEF Scans
<1> QED
  BY <1>1, <1>2, <1>3, <1>4, Flushes DEF Read

\* One more character of the line is one more Read.
LEMMA ScannedStep ==
    /\ Scanned(<<>>) = NothingRead
    /\ \A text \in Text, c \in Chars :
         Scanned(text) \in Scans /\ Scanned(Append(text, c)) = Read(Scanned(text), c)
<1>1. NothingRead \in Scans
  BY DEF NothingRead, Scans, Texts, Text
<1>2. Reader \in [Scans -> [Chars -> Scans]]
  BY Reads DEF Reader
<1>3. \A s \in Scans, c \in Chars : Reader[s][c] = Read(s, c)
  BY DEF Reader
<1>4. Loops(Reader, NothingRead, Scans, Chars)
  BY <1>1, <1>2, Looped
<1> QED
  BY <1>3, <1>4 DEF Scanned, Text, Loops

\* InQuotes the quotes of an argument, and between two of them.
InQuotes(done, cur) == [done |-> done, cur |-> cur, inToken |-> TRUE, inQuote |-> TRUE,
                      esc |-> FALSE, bad |-> FALSE]
AfterArgs(done) == [done |-> done, cur |-> <<>>, inToken |-> FALSE, inQuote |-> FALSE,
                  esc |-> FALSE, bad |-> FALSE]

\* A quote opens an empty argument.
LEMMA Opens == ASSUME NEW done PROVE Read(AfterArgs(done), Quote) = InQuotes(done, <<>>)
BY CharsDiffer DEF Read, AfterArgs, InQuotes

\* A quote and a space end it.
LEMMA Closes ==
    ASSUME NEW done, NEW cur
    PROVE  Read(Read(InQuotes(done, cur), Quote), " ") = AfterArgs(Append(done, cur))
<1> DEFINE s == [done |-> done, cur |-> cur, inToken |-> TRUE, inQuote |-> FALSE,
                 esc |-> FALSE, bad |-> FALSE]
<1>1. Read(InQuotes(done, cur), Quote) = s
  BY CharsDiffer DEF Read, InQuotes
<1>2. Read(s, " ") = flush(s)
  BY CharsDiffer DEF Read
<1>3. flush(s) = AfterArgs(Append(done, cur))
  BY DEF flush, AfterArgs
<1> QED
  BY <1>1, <1>2, <1>3

\* A character that needs no backslash is taken as it is, spaces included.
LEMMA Plain ==
    ASSUME NEW done, NEW cur, NEW c, c # Quote, c # Backslash
    PROVE  Read(InQuotes(done, cur), c) = InQuotes(done, Append(cur, c))
BY DEF Read, InQuotes

\* One after a backslash loses the backslash.
LEMMA Escaped ==
    ASSUME NEW done, NEW cur, NEW c \in {Quote, Backslash, "$"}
    PROVE  Read(Read(InQuotes(done, cur), Backslash), c) = InQuotes(done, Append(cur, c))
<1> DEFINE s == [InQuotes(done, cur) EXCEPT !.esc = TRUE]
<1>1. Read(InQuotes(done, cur), Backslash) = s
  BY CharsDiffer DEF Read, InQuotes
<1>2. Read(s, c) = [s EXCEPT !.cur = Append(@, c), !.inToken = TRUE, !.esc = FALSE]
  BY CharsDiffer DEF Read, InQuotes
<1> QED
  BY <1>1, <1>2 DEF InQuotes

\* The loop of Expand over a token.
Writes == [out : Text, pct : BOOLEAN]
Writer(name) == [s \in Writes |-> [c \in Chars |-> Write(s, c, name)]]
Meant(tok, name) == Loop(Writer(name), Nothing, tok)

\* What a code stands for, case by case.
LEMMA EmbeddedIs ==
    ASSUME NEW c, NEW name
    PROVE  /\ c = "%" => Embedded(c, name) = <<"%">>
           /\ c \notin Codes \cup {"%"} => Embedded(c, name) = <<"%", c>>
           /\ c \in Codes => Embedded(c, name) \in {name, <<>>}
<1>1. CASE c = "%"
  <2>1. c # "c" /\ c \notin Codes
    BY <1>1, CharsDiffer
  <2> QED
    BY <1>1, <2>1 DEF Embedded
<1>2. CASE c = "c"
  <2>1. c \in Codes /\ c # "%" /\ c \notin Codes \ {"c"}
    BY <1>2 DEF Codes
  <2> QED
    BY <1>2, <2>1 DEF Embedded
<1>3. CASE c \in Codes \ {"c"}
  <2>1. c # "%" /\ c # "c"
    BY <1>3, CharsDiffer
  <2> QED
    BY <1>3, <2>1 DEF Embedded
<1>4. CASE c \notin Codes \cup {"%"}
  <2>1. c # "c" /\ c # "%" /\ c \notin Codes \ {"c"}
    BY <1>4 DEF Codes
  <2> QED
    BY <1>4, <2>1 DEF Embedded
<1> QED
  BY <1>1, <1>2, <1>3, <1>4

\* One more character of the token is one more Write.
LEMMA MeantStep ==
    ASSUME NEW name \in Text
    PROVE  /\ Meant(<<>>, name) = Nothing
           /\ \A tok \in Text, c \in Chars :
                /\ Meant(tok, name) \in Writes
                /\ Meant(Append(tok, c), name) = Write(Meant(tok, name), c, name)
<1>1. Nothing \in Writes
  BY DEF Nothing, Writes, Text
<1>2. \A s \in Writes, c \in Chars : Write(s, c, name) \in Writes
  <2> SUFFICES ASSUME NEW s \in Writes, NEW c \in Chars PROVE Write(s, c, name) \in Writes
    OBVIOUS
  <2>1. Embedded(c, name) \in Text
    <3>1. "%" \in Chars /\ <<>> \in Text /\ <<"%">> \in Text /\ <<"%", c>> \in Text
      <4>1. "%" \in Chars
        BY CharsDiffer
      <4>2. <<>> \in Seq(Chars) /\ <<"%">> \in Seq(Chars) /\ <<"%", c>> \in Seq(Chars)
        BY <4>1
      <4> QED
        BY <4>1, <4>2 DEF Text
    <3>2. /\ c = "%" => Embedded(c, name) = <<"%">>
          /\ c \notin Codes \cup {"%"} => Embedded(c, name) = <<"%", c>>
          /\ c \in Codes => Embedded(c, name) \in {name, <<>>}
      BY EmbeddedIs
    <3> QED
      BY <3>1, <3>2
  <2>2. s.out \o Embedded(c, name) \in Text /\ Append(s.out, c) \in Text
    BY <2>1 DEF Writes, Text
  <2> QED
    BY <2>2 DEF Write, Writes
<1>3. Writer(name) \in [Writes -> [Chars -> Writes]]
  BY <1>2 DEF Writer
<1>4. \A s \in Writes, c \in Chars : Writer(name)[s][c] = Write(s, c, name)
  BY DEF Writer
<1>5. Loops(Writer(name), Nothing, Writes, Chars)
  BY <1>1, <1>3, Looped
<1> QED
  BY <1>4, <1>5 DEF Meant, Text, Loops

\* A token that stands for an argument: every percent sign of it is doubled.
Spells(tok, arg, name) ==
    /\ tok \in Text /\ arg \in Text
    /\ Meant(tok, name) = [out |-> arg, pct |-> FALSE]
    /\ (\A i \in DOMAIN tok : tok[i] # "%") => tok = arg
    /\ arg = <<>> => tok = <<>>
    /\ tok # <<>> /\ tok[1] = "%" => Len(tok) >= 2 /\ tok[2] = "%"

\* Any other character stands for itself.
LEMMA SpellsOneMore ==
    ASSUME NEW name \in Text, NEW tok, NEW arg, Spells(tok, arg, name),
           NEW c \in Chars, c # "%"
    PROVE  Spells(Append(tok, c), Append(arg, c), name)
<1> DEFINE more == Append(tok, c)
<1>1. more \in Text /\ Append(arg, c) \in Text /\ Len(more) = Len(tok) + 1 /\ Len(tok) \in Nat
  BY DEF Spells, Text
<1>2. \A i \in 1..Len(tok) : more[i] = tok[i]
  BY DEF Spells, Text
<1>3. more[Len(tok) + 1] = c /\ DOMAIN tok = 1..Len(tok) /\ DOMAIN more = 1..(Len(tok) + 1)
  BY DEF Spells, Text
<1>4. Meant(more, name) = [out |-> Append(arg, c), pct |-> FALSE]
  <2>1. Meant(more, name) = Write(Meant(tok, name), c, name)
    BY MeantStep DEF Spells
  <2>2. Meant(tok, name) = [out |-> arg, pct |-> FALSE]
    BY DEF Spells
  <2>3. Write([out |-> arg, pct |-> FALSE], c, name) = [out |-> Append(arg, c), pct |-> FALSE]
    BY DEF Write
  <2> QED
    BY <2>1, <2>2, <2>3
<1>5. (\A i \in DOMAIN more : more[i] # "%") => more = Append(arg, c)
  <2>1. DOMAIN tok \subseteq DOMAIN more
    BY <1>1, <1>3
  <2> QED
    BY <1>2, <1>3, <2>1 DEF Spells
<1>6. Append(arg, c) # <<>>
  BY DEF Spells, Text
<1>7. more[1] = "%" => Len(more) >= 2 /\ more[2] = "%"
  <2>1. CASE tok = <<>>
    BY <1>1, <1>3, <2>1
  <2>2. CASE tok # <<>>
    <3>1. Len(tok) >= 1
      BY <2>2 DEF Spells, Text
    <3>2. more[1] = tok[1]
      BY <1>1, <1>2, <3>1
    <3>3. tok[1] = "%" => Len(tok) >= 2 /\ tok[2] = "%"
      BY <2>2 DEF Spells
    <3>4. Len(tok) >= 2 => more[2] = tok[2]
      BY <1>1, <1>2
    <3> QED
      BY <1>1, <3>2, <3>3, <3>4
  <2> QED
    BY <2>1, <2>2
<1> QED
  BY <1>1, <1>4, <1>5, <1>6, <1>7 DEF Spells

\* Two percent signs stand for one.
LEMMA SpellsPercent ==
    ASSUME NEW name \in Text, NEW tok, NEW arg, Spells(tok, arg, name)
    PROVE  Spells(Append(Append(tok, "%"), "%"), Append(arg, "%"), name)
<1> DEFINE one == Append(tok, "%")
           two == Append(one, "%")
<1>1. /\ one \in Text /\ two \in Text /\ Append(arg, "%") \in Text
      /\ Len(two) = Len(tok) + 2 /\ Len(tok) \in Nat /\ "%" \in Chars
  <2>1. "%" \in Chars /\ tok \in Seq(Chars) /\ arg \in Seq(Chars)
    BY CharsDiffer DEF Spells, Text
  <2>2. one \in Seq(Chars) /\ Len(one) = Len(tok) + 1 /\ Len(tok) \in Nat
    BY <2>1
  <2>3. Append(arg, "%") \in Seq(Chars)
    BY <2>1
  <2> HIDE DEF one
  <2>4. two \in Seq(Chars) /\ Len(two) = Len(one) + 1
    BY <2>1, <2>2
  <2> QED
    BY <2>1, <2>2, <2>3, <2>4 DEF Text, one
<1>2. \A i \in 1..Len(tok) : two[i] = tok[i]
  BY <1>1 DEF Spells, Text
<1>3. /\ two[Len(tok) + 1] = "%" /\ two[Len(tok) + 2] = "%" /\ DOMAIN two = 1..(Len(tok) + 2)
  BY <1>1 DEF Spells, Text
<1>4. Meant(two, name) = [out |-> Append(arg, "%"), pct |-> FALSE]
  <2>1. Meant(one, name) = [out |-> arg, pct |-> TRUE]
    <3>1. Meant(one, name) = Write(Meant(tok, name), "%", name)
      BY <1>1, MeantStep DEF Spells
    <3>2. Meant(tok, name) = [out |-> arg, pct |-> FALSE]
      BY DEF Spells
    <3>3. Write([out |-> arg, pct |-> FALSE], "%", name) = [out |-> arg, pct |-> TRUE]
      BY DEF Write
    <3> QED
      BY <3>1, <3>2, <3>3
  <2>2. Meant(two, name) = Write(Meant(one, name), "%", name)
    BY <1>1, MeantStep
  <2>3. Embedded("%", name) = <<"%">>
    BY EmbeddedIs
  <2>4. arg \o <<"%">> = Append(arg, "%")
    BY DEF Spells, Text
  <2>5. Write([out |-> arg, pct |-> TRUE], "%", name)
        = [out |-> arg \o Embedded("%", name), pct |-> FALSE]
    BY DEF Write
  <2> HIDE DEF one, two
  <2> QED
    BY <2>1, <2>2, <2>3, <2>4, <2>5
<1>5. ~(\A i \in DOMAIN two : two[i] # "%")
  BY <1>1, <1>3
<1>6. Append(arg, "%") # <<>>
  BY DEF Spells, Text
<1>7. two[1] = "%" => Len(two) >= 2 /\ two[2] = "%"
  <2>1. CASE tok = <<>>
    <3>1. Len(tok) = 0
      BY <2>1
    <3> QED
      BY <1>1, <1>3, <3>1
  <2>2. CASE tok # <<>>
    <3>1. Len(tok) >= 1
      BY <2>2 DEF Spells, Text
    <3>2. two[1] = tok[1]
      BY <1>1, <1>2, <3>1
    <3>3. tok[1] = "%" => Len(tok) >= 2 /\ tok[2] = "%"
      BY <2>2 DEF Spells
    <3>4. Len(tok) >= 2 => two[2] = tok[2]
      BY <1>1, <1>2
    <3> QED
      BY <1>1, <3>2, <3>3, <3>4
  <2> QED
    BY <2>1, <2>2
<1> HIDE DEF one, two
<1> QED
  BY <1>1, <1>4, <1>5, <1>6, <1>7 DEF Spells, one, two

\* Such a token is launched as the argument it stands for.
LEMMA ExpandedOne ==
    ASSUME NEW name \in Text, NEW icon \in Text, NEW tok, NEW arg, Spells(tok, arg, name)
    PROVE  Expanded(tok, name, icon) = <<arg>>
<1>1. ASSUME NEW c \in Codes PROVE tok # <<"%", c>>
  <2> SUFFICES ASSUME tok = <<"%", c>> PROVE FALSE
    OBVIOUS
  <2>1. tok # <<>> /\ tok[1] = "%" /\ tok[2] = c
    OBVIOUS
  <2>2. c # "%"
    BY CharsDiffer
  <2> QED
    BY <2>1, <2>2 DEF Spells
<1>2. CASE \A i \in DOMAIN tok : tok[i] # "%"
  BY <1>1, <1>2 DEF Expanded, Spells, Codes
<1>3. CASE ~(\A i \in DOMAIN tok : tok[i] # "%")
  <2>1. expandToken(tok, name) = arg
    <3>1. expandToken(tok, name) = IF Meant(tok, name).pct
                                   THEN Append(Meant(tok, name).out, "%")
                                   ELSE Meant(tok, name).out
      BY DEF expandToken, Meant, Writer, Writes
    <3> QED
      BY <3>1 DEF Spells
  <2>2. arg # <<>>
    BY <1>3 DEF Spells, Text
  <2> QED
    BY <1>1, <1>3, <2>1, <2>2 DEF Expanded, Codes
<1> QED
  BY <1>2, <1>3


\* What is written keeps to the characters of texts.
Putter == [t \in Text |-> [c \in Chars |-> Put(t, c)]]
Quoting(text, arg) == Loop(Putter, Append(text, Quote), arg)

\* Put keeps to them,
LEMMA Puts == \A t \in Text, c \in Chars : Put(t, c) \in Text
<1> SUFFICES ASSUME NEW t \in Text, NEW c \in Chars PROVE Put(t, c) \in Text
  OBVIOUS
<1>1. \A u \in Text, d \in Chars : Append(u, d) \in Text
  BY DEF Text
<1>2. Backslash \in Chars /\ "%" \in Chars
  BY CharsDiffer
<1> QED
  BY <1>1, <1>2 DEF Put

\* the loop of Quoted does,
LEMMA QuotingStep ==
    ASSUME NEW text \in Text
    PROVE  /\ Quoting(text, <<>>) = Append(text, Quote)
           /\ \A arg \in Text :
                /\ Quoting(text, arg) \in Text
                /\ \A c \in Chars : Quoting(text, Append(arg, c)) = Put(Quoting(text, arg), c)
<1>1. Append(text, Quote) \in Text
  <2>1. Quote \in Chars
    BY CharsDiffer
  <2> QED
    BY <2>1 DEF Text
<1>2. Putter \in [Text -> [Chars -> Text]]
  BY Puts DEF Putter
<1>3. \A t \in Text, c \in Chars : Putter[t][c] = Put(t, c)
  BY DEF Putter
<1>4. Loops(Putter, Append(text, Quote), Text, Chars)
  BY <1>1, <1>2, Looped
<1> QED
  BY <1>3, <1>4 DEF Quoting, Text, Loops

\* and so does Quoted.
LEMMA QuotedIs ==
    ASSUME NEW text \in Text, NEW arg \in Text
    PROVE  /\ Quoted(text, arg) = Append(Append(Quoting(text, arg), Quote), " ")
           /\ Quoted(text, arg) \in Text
<1>1. Quoted(text, arg) = Append(Append(Quoting(text, arg), Quote), " ")
  BY DEF Quoted, Quoting, Putter
<1>2. \A u \in Text, d \in Chars : Append(u, d) \in Text
  BY DEF Text
<1>3. Quoting(text, arg) \in Text /\ Quote \in Chars /\ " " \in Chars
  BY QuotingStep, CharsDiffer
<1> QED
  BY <1>1, <1>2, <1>3

\* One more character of an argument is one more of the token.
LEMMA PutOne ==
    ASSUME NEW name \in Text, NEW text \in Text, NEW done, NEW tok, NEW part,
           Scanned(text) = InQuotes(done, tok), Spells(tok, part, name), NEW c \in Chars
    PROVE  \E more : /\ Scanned(Put(text, c)) = InQuotes(done, more)
                     /\ Spells(more, Append(part, c), name)
<1>0. \A u \in Text, d \in Chars :
        Append(u, d) \in Text /\ Scanned(Append(u, d)) = Read(Scanned(u), d)
  BY ScannedStep DEF Text
<1>1. CASE c \in {Quote, Backslash, "$"}
  <2>1. c # "%"
    BY <1>1, CharsDiffer
  <2>2. Put(text, c) = Append(Append(text, Backslash), c)
    BY <1>1 DEF Put
  <2>3. Scanned(Put(text, c)) = Read(Read(InQuotes(done, tok), Backslash), c)
    <3>1. Backslash \in Chars
      BY CharsDiffer
    <3>2. /\ Append(text, Backslash) \in Text
          /\ Scanned(Append(text, Backslash)) = Read(InQuotes(done, tok), Backslash)
      BY <1>0, <3>1
    <3> QED
      BY <1>0, <2>2, <3>2
  <2>4. Scanned(Put(text, c)) = InQuotes(done, Append(tok, c))
    BY <1>1, <2>3, Escaped
  <2> QED
    BY <2>1, <2>4, SpellsOneMore
<1>2. CASE c = "%"
  <2>1. Put(text, c) = Append(Append(text, "%"), "%")
    BY <1>2, CharsDiffer DEF Put
  <2>2. Scanned(Put(text, c)) = Read(Read(InQuotes(done, tok), "%"), "%")
    <3>1. "%" \in Chars
      BY CharsDiffer
    <3>2. /\ Append(text, "%") \in Text
          /\ Scanned(Append(text, "%")) = Read(InQuotes(done, tok), "%")
      BY <1>0, <3>1
    <3> QED
      BY <1>0, <2>1, <3>1, <3>2
  <2>3. Scanned(Put(text, c)) = InQuotes(done, Append(Append(tok, "%"), "%"))
    <3>1. "%" # Quote /\ "%" # Backslash
      BY CharsDiffer
    <3>2. \A cur : Read(InQuotes(done, cur), "%") = InQuotes(done, Append(cur, "%"))
      BY <3>1, Plain
    <3> QED
      BY <2>2, <3>2
  <2> QED
    BY <1>2, <2>3, SpellsPercent
<1>3. CASE c \notin {Quote, Backslash, "$"} /\ c # "%"
  <2>1. Put(text, c) = Append(text, c)
    BY <1>3 DEF Put
  <2>2. Scanned(Put(text, c)) = InQuotes(done, Append(tok, c))
    BY <1>0, <1>3, <2>1, Plain
  <2> QED
    BY <1>3, <2>2, SpellsOneMore
<1> QED
  BY <1>1, <1>2, <1>3

\* An argument in quotes is one token, which stands for it.
LEMMA QuotedOne ==
    ASSUME NEW name \in Text, NEW text \in Text, NEW done, Scanned(text) = AfterArgs(done),
           NEW arg \in Text
    PROVE  \E tok : /\ Scanned(Quoted(text, arg)) = AfterArgs(Append(done, tok))
                    /\ Spells(tok, arg, name)
<1> DEFINE S == {a \in Text : \E tok : /\ Scanned(Quoting(text, a)) = InQuotes(done, tok)
                                       /\ Spells(tok, a, name)}
<1>0. \A u \in Text, d \in Chars :
        Append(u, d) \in Text /\ Scanned(Append(u, d)) = Read(Scanned(u), d)
  BY ScannedStep DEF Text
<1>1. <<>> \in S
  <2>1. Scanned(Quoting(text, <<>>)) = InQuotes(done, <<>>)
    BY <1>0, QuotingStep, CharsDiffer, Opens
  <2>2. Spells(<<>>, <<>>, name)
    <3>1. <<>> \in Text /\ DOMAIN <<>> = {}
      BY DEF Text
    <3>2. Meant(<<>>, name) = [out |-> <<>>, pct |-> FALSE]
      BY MeantStep DEF Nothing
    <3> QED
      BY <3>1, <3>2 DEF Spells
  <2>3. <<>> \in Text
    BY DEF Text
  <2> QED
    BY <2>1, <2>2, <2>3
<1>2. ASSUME NEW q \in Seq(Chars), NEW c \in Chars, q \in S PROVE Append(q, c) \in S
  <2>1. PICK tok : Scanned(Quoting(text, q)) = InQuotes(done, tok) /\ Spells(tok, q, name)
    BY <1>2
  <2>2. q \in Text /\ Append(q, c) \in Text
    BY DEF Text
  <2>3. Quoting(text, q) \in Text /\ Quoting(text, Append(q, c)) = Put(Quoting(text, q), c)
    BY <2>2, QuotingStep
  <2>4. \E more : /\ Scanned(Put(Quoting(text, q), c)) = InQuotes(done, more)
                  /\ Spells(more, Append(q, c), name)
    BY <2>1, <2>3, PutOne
  <2> QED
    BY <2>2, <2>3, <2>4
<1>3. Seq(Chars) \subseteq S
  <2> HIDE DEF S
  <2> QED
    BY <1>1, <1>2, InductSeq
<1>4. PICK tok : Scanned(Quoting(text, arg)) = InQuotes(done, tok) /\ Spells(tok, arg, name)
  BY <1>3 DEF Text
<1> HIDE DEF S
<1>5. Quoting(text, arg) \in Text
  BY QuotingStep
<1>6. Scanned(Quoted(text, arg)) = Read(Read(InQuotes(done, tok), Quote), " ")
  <2>0. Quote \in Chars /\ " " \in Chars
    BY CharsDiffer
  <2>1. /\ Append(Quoting(text, arg), Quote) \in Text
        /\ Scanned(Append(Quoting(text, arg), Quote)) = Read(InQuotes(done, tok), Quote)
    BY <1>0, <1>4, <1>5, <2>0
  <2>2. Quoted(text, arg) = Append(Append(Quoting(text, arg), Quote), " ")
    BY QuotedIs
  <2> QED
    BY <1>0, <2>0, <2>1, <2>2
<1> QED
  BY <1>4, <1>6, Closes

\* The loop of Expand over the tokens.
Expander(name, icon) ==
    [result \in Texts |-> [tok \in Text |-> result \o Expanded(tok, name, icon)]]

\* One more token is launched after the others.
LEMMA ExpandStep ==
    ASSUME NEW name \in Text, NEW icon \in Text
    PROVE  /\ Expand(<<>>, name, icon) = <<>>
           /\ \A tokens \in Texts, tok \in Text :
                Expand(Append(tokens, tok), name, icon)
                  = Expand(tokens, name, icon) \o Expanded(tok, name, icon)
<1>1. ASSUME NEW tok \in Text PROVE expandToken(tok, name) \in Text
  <2>1. expandToken(tok, name) = IF Meant(tok, name).pct
                                 THEN Append(Meant(tok, name).out, "%")
                                 ELSE Meant(tok, name).out
    BY DEF expandToken, Meant, Writer, Writes
  <2>2. Meant(tok, name) \in Writes
    BY MeantStep, CharsDiffer
  <2>3. Meant(tok, name).out \in Text
    BY <2>2 DEF Writes
  <2>4. Append(Meant(tok, name).out, "%") \in Text
    <3>1. "%" \in Chars
      BY CharsDiffer
    <3> QED
      BY <2>3, <3>1 DEF Text
  <2> QED
    BY <2>1, <2>3, <2>4
<1>2. ASSUME NEW tok \in Text PROVE Expanded(tok, name, icon) \in Texts
  <2>1. IconOption \in Text
    <3>1. "a" \in Chars /\ "i" \in Chars /\ "c" \in Chars
      BY DEF Chars
    <3> QED
      BY <3>1 DEF IconOption, Text
  <2>2. \A t \in Text, u \in Text : <<>> \in Texts /\ <<t>> \in Texts /\ <<t, u>> \in Texts
    BY DEF Texts
  <2>3. CASE tok = <<"%", "c">>
    <3>1. Expanded(tok, name, icon) = IF name = <<>> THEN <<>> ELSE <<name>>
      BY <2>3 DEF Expanded
    <3> QED
      BY <2>2, <3>1
  <2>4. CASE tok = <<"%", "i">>
    <3>1. Expanded(tok, name, icon) = IF icon = <<>> THEN <<>> ELSE <<IconOption, icon>>
      BY <2>4 DEF Expanded
    <3> QED
      BY <2>1, <2>2, <3>1
  <2>5. CASE tok # <<"%", "c">> /\ tok # <<"%", "i">>
    <3>1. Expanded(tok, name, icon) \in {<<>>, <<tok>>, <<expandToken(tok, name)>>}
      BY <2>5 DEF Expanded
    <3> QED
      BY <1>1, <2>2, <3>1
  <2> QED
    BY <2>3, <2>4, <2>5
<1> DEFINE w == Expander(name, icon)
<1>3. <<>> \in Texts
  BY DEF Texts
<1>4. \A result \in Texts, tok \in Text : result \o Expanded(tok, name, icon) \in Texts
  BY <1>2 DEF Texts
<1>5. w \in [Texts -> [Text -> Texts]]
  BY <1>4 DEF Expander
<1>6. \A result \in Texts, tok \in Text : w[result][tok] = result \o Expanded(tok, name, icon)
  BY DEF Expander
<1>7. \A tokens : Expand(tokens, name, icon) = Loop(w, <<>>, tokens)
  BY DEF Expand, Expander
<1> HIDE DEF w
<1>8. Loops(w, <<>>, Texts, Text)
  BY <1>3, <1>5, Looped
<1> QED
  BY <1>6, <1>7, <1>8 DEF Texts, Loops

\* One more argument is written after the others.
LEMMA ExecOfStep ==
    /\ ExecOf(<<>>) = <<>>
    /\ \A args \in Texts :
         /\ ExecOf(args) \in Text
         /\ \A arg \in Text : ExecOf(Append(args, arg)) = Quoted(ExecOf(args), arg)
<1> DEFINE w == [t \in Text |-> [arg \in Text |-> Quoted(t, arg)]]
<1>1. <<>> \in Text
  BY DEF Text
<1>2. w \in [Text -> [Text -> Text]]
  BY QuotedIs
<1>3. \A t \in Text, arg \in Text : w[t][arg] = Quoted(t, arg)
  OBVIOUS
<1>4. \A args : ExecOf(args) = Loop(w, <<>>, args)
  BY DEF ExecOf
<1> HIDE DEF w
<1>5. Loops(w, <<>>, Text, Text)
  BY <1>1, <1>2, Looped
<1> QED
  BY <1>3, <1>4, <1>5 DEF Texts, Loops

\* Any list of arguments can be written in an Exec line and is what is then
\* launched, whatever the entry's name and icon are.
THEOREM RunsAsWritten ==
    \A args \in Texts, name \in Text, icon \in Text : RoundTrips(args, name, icon)
<1> SUFFICES ASSUME NEW name \in Text, NEW icon \in Text
             PROVE  \A args \in Texts : RoundTrips(args, name, icon)
  OBVIOUS
<1> DEFINE S == {args \in Texts : \E done \in Texts : /\ Scanned(ExecOf(args)) = AfterArgs(done)
                                                      /\ Expand(done, name, icon) = args}
<1>1. <<>> \in S
  <2>1. <<>> \in Texts
    BY DEF Texts
  <2>2. Scanned(ExecOf(<<>>)) = AfterArgs(<<>>)
    BY ExecOfStep, ScannedStep DEF NothingRead, AfterArgs
  <2>3. Expand(<<>>, name, icon) = <<>>
    BY ExpandStep
  <2> QED
    BY <2>1, <2>2, <2>3
<1>2. ASSUME NEW q \in Seq(Text), NEW arg \in Text, q \in S PROVE Append(q, arg) \in S
  <2>1. PICK done \in Texts : /\ Scanned(ExecOf(q)) = AfterArgs(done)
                              /\ Expand(done, name, icon) = q
    BY <1>2
  <2>2. q \in Texts /\ Append(q, arg) \in Texts
    BY DEF Texts
  <2>3. ExecOf(q) \in Text /\ ExecOf(Append(q, arg)) = Quoted(ExecOf(q), arg)
    BY <2>2, ExecOfStep
  <2>4. PICK tok : /\ Scanned(Quoted(ExecOf(q), arg)) = AfterArgs(Append(done, tok))
                   /\ Spells(tok, arg, name)
    BY <2>1, <2>3, QuotedOne
  <2>5. tok \in Text /\ Append(done, tok) \in Texts
    BY <2>4 DEF Spells, Texts
  <2>6. Expand(Append(done, tok), name, icon) = q \o <<arg>>
    <3>1. Expanded(tok, name, icon) = <<arg>>
      BY <2>4, ExpandedOne
    <3>2. \A tokens \in Texts, t \in Text :
            Expand(Append(tokens, t), name, icon)
              = Expand(tokens, name, icon) \o Expanded(t, name, icon)
      BY ExpandStep
    <3>3. Expand(Append(done, tok), name, icon)
          = Expand(done, name, icon) \o Expanded(tok, name, icon)
      BY <2>5, <3>2
    <3> QED
      BY <2>1, <3>1, <3>3
  <2>7. q \o <<arg>> = Append(q, arg)
    OBVIOUS
  <2> QED
    BY <2>2, <2>3, <2>4, <2>5, <2>6, <2>7
<1>3. Seq(Text) \subseteq S
  <2> HIDE DEF S
  <2> QED
    BY <1>1, <1>2, InductSeq
<1> SUFFICES ASSUME NEW args \in Texts PROVE RoundTrips(args, name, icon)
  OBVIOUS
<1>4. PICK done \in Texts : /\ Scanned(ExecOf(args)) = AfterArgs(done)
                            /\ Expand(done, name, icon) = args
  BY <1>3 DEF Texts
<1>5. SplitExec(ExecOf(args)) = [ok |-> TRUE, tokens |-> done]
  <2>1. SplitExec(ExecOf(args))
        = [ok |-> ~AfterArgs(done).bad /\ ~AfterArgs(done).esc /\ ~AfterArgs(done).inQuote,
           tokens |-> flush(AfterArgs(done)).done]
    BY <1>4 DEF SplitExec, Scanned, Reader
  <2> QED
    BY <2>1 DEF AfterArgs, flush
<1> HIDE DEF S
<1> QED
  BY <1>4, <1>5 DEF RoundTrips

\* The argument lists of the runs are some of them, in every state.
THEOREM Launched == Spec => []ExecRoundTrips
<1>1. ExecRoundTrips
  <2>1. <<>> \in Text /\ <<"a">> \in Text
    <3>1. "a" \in Chars
      BY DEF Chars
    <3> QED
      BY <3>1 DEF Text
  <2> QED
    BY <2>1, RunsAsWritten, ArgListsAssumption DEF ExecRoundTrips, ExecLaw
<1> QED
  BY <1>1, PTL

-----------------------------------------------------------------------------
(* Sets of numbers, and sequences.                                          *)

\* A set of natural numbers that is not empty has a least element.
LEMMA LeastIs ==
    ASSUME NEW S \in SUBSET Nat, S # {}
    PROVE  Least(S) \in S /\ \A j \in S : Least(S) <= j
<1> DEFINE Has(n) == \E i \in S : i <= n
           N == {n \in Nat : Has(n) => \E i \in S : \A j \in S : i <= j}
<1>1. 0 \in N
  OBVIOUS
<1>2. ASSUME NEW n \in Nat, n \in N PROVE n + 1 \in N
  <2>1. CASE Has(n)
    BY <1>2, <2>1
  <2>2. CASE ~Has(n)
    <3>1. \A j \in S : n + 1 <= j
      BY <2>2
    <3>2. \A i \in S : i <= n + 1 => i = n + 1
      BY <3>1
    <3> QED
      BY <3>1, <3>2
  <2> QED
    BY <2>1, <2>2
<1>3. Nat \subseteq N
  <2> HIDE DEF N
  <2> QED
    BY <1>1, <1>2, Induct
<1>4. PICK k : k \in S
  OBVIOUS
<1>5. \E i \in S : \A j \in S : i <= j
  <2>1. k \in N /\ Has(k)
    BY <1>3, <1>4
  <2> QED
    BY <2>1
<1> HIDE DEF N
<1> QED
  BY <1>5 DEF Least

\* And a greatest one, if there is a bound.
LEMMA GreatestIs ==
    ASSUME NEW n \in Nat, NEW S \in SUBSET (0..n), S # {}
    PROVE  Greatest(S) \in S /\ \A j \in S : j <= Greatest(S)
<1> DEFINE T == {n - i : i \in S}
<1>1. T \in SUBSET Nat /\ T # {}
  <2>1. \A i \in S : n - i \in Nat
    OBVIOUS
  <2>2. T \subseteq Nat
    BY <2>1
  <2>3. T # {}
    OBVIOUS
  <2> QED
    BY <2>2, <2>3
<1>2. PICK t \in T : \A j \in T : t <= j
  <2> HIDE DEF T
  <2> QED
    BY <1>1, LeastIs
<1>3. PICK g \in S : t = n - g
  OBVIOUS
<1>4. \A j \in S : j <= g
  BY <1>2, <1>3
<1> QED
  BY <1>4 DEF Greatest

\* What one more element does to the elements.
LEMMA Appended ==
    ASSUME NEW S, NEW seq \in Seq(S), NEW x
    PROVE  Elements(Append(seq, x)) = Elements(seq) \cup {x}
<1> DEFINE more == Append(seq, x)
<1>1. /\ DOMAIN seq = 1..Len(seq) /\ DOMAIN more = 1..(Len(seq) + 1) /\ Len(seq) \in Nat
      /\ more[Len(seq) + 1] = x /\ \A i \in 1..Len(seq) : more[i] = seq[i]
  <2>1. seq \in Seq(S \cup {x}) /\ x \in S \cup {x}
    OBVIOUS
  <2> QED
    BY <2>1
<1> HIDE DEF more
<1>2. 1..(Len(seq) + 1) = (1..Len(seq)) \cup {Len(seq) + 1}
  BY <1>1
<1>3. Elements(more) = Elements(seq) \cup {x}
  BY <1>1, <1>2 DEF Elements
<1> QED
  BY <1>3 DEF more

\* The loop of splitInheritsList.
Splits(parts, out, k) ==
    out = [n \in 0..k |-> IF n = 0 THEN <<>>
                          ELSE IF parts[n] = "" THEN out[n - 1]
                               ELSE Append(out[n - 1], parts[n])]

\* There is such a function.
LEMMA SplitsExist == ASSUME NEW parts, NEW k \in Nat PROVE \E out : Splits(parts, out, k)
<1> DEFINE S == {n \in Nat : \E f : Splits(parts, f, n)}
<1>1. 0 \in S
  <2>1. Splits(parts, [n \in 0..0 |-> <<>>], 0)
    BY DEF Splits
  <2> QED
    BY <2>1
<1>2. ASSUME NEW m \in Nat, m \in S PROVE m + 1 \in S
  <2>1. PICK f : Splits(parts, f, m)
    BY <1>2
  <2>2. PICK v : v = IF parts[m + 1] = "" THEN f[m] ELSE Append(f[m], parts[m + 1])
    OBVIOUS
  <2> DEFINE g == [n \in 0..(m + 1) |-> IF n = m + 1 THEN v ELSE f[n]]
  <2>3. ASSUME NEW n \in 0..(m + 1)
        PROVE  g[n] = IF n = 0 THEN <<>> ELSE IF parts[n] = "" THEN g[n - 1]
                                              ELSE Append(g[n - 1], parts[n])
    <3>1. CASE n = m + 1
      <4>1. g[n] = v /\ g[n - 1] = f[m] /\ n # 0
        BY <3>1
      <4> QED
        BY <2>2, <3>1, <4>1
    <3>2. CASE n # m + 1
      <4>1. n \in 0..m /\ g[n] = f[n] /\ (n # 0 => n - 1 \in 0..(m + 1) /\ n - 1 # m + 1)
        BY <3>2
      <4>2. n # 0 => g[n - 1] = f[n - 1]
        BY <4>1
      <4>3. f[n] = IF n = 0 THEN <<>> ELSE IF parts[n] = "" THEN f[n - 1]
                                           ELSE Append(f[n - 1], parts[n])
        BY <2>1, <4>1 DEF Splits
      <4> QED
        BY <4>1, <4>2, <4>3
    <3> QED
      BY <3>1, <3>2
  <2>4. Splits(parts, g, m + 1)
    <3>1. g = [n \in 0..(m + 1) |-> g[n]]
      OBVIOUS
    <3> HIDE DEF g
    <3> QED
      BY <2>3, <3>1 DEF Splits
  <2> HIDE DEF g
  <2> QED
    BY <2>4
<1>3. Nat \subseteq S
  <2> HIDE DEF S
  <2> QED
    BY <1>1, <1>2, Induct
<1> QED
  BY <1>3

\* The parts that are not empty, in a sequence.
LEMMA SplitIs ==
    ASSUME NEW parts, IsSequence(parts)
    PROVE  /\ splitInheritsList(parts) \in Seq(Elements(parts))
           /\ Elements(splitInheritsList(parts)) = Elements(parts) \ {""}
<1> DEFINE all == Len(parts)
           out == CHOOSE f : Splits(parts, f, all)
           upTo(n) == {parts[i] : i \in 1..n}
           Good(n) == out[n] \in Seq(Elements(parts)) /\ Elements(out[n]) = upTo(n) \ {""}
<1>0. all \in Nat /\ DOMAIN parts = 1..all
  BY DEF IsSequence
<1>1. splitInheritsList(parts) = out[all]
  BY DEF splitInheritsList, Splits
<1>2. Splits(parts, out, all)
  BY <1>0, SplitsExist
<1> HIDE DEF out
<1>3. /\ out[0] = <<>>
      /\ \A n \in 1..all : out[n] = IF parts[n] = "" THEN out[n - 1]
                                    ELSE Append(out[n - 1], parts[n])
  <2>1. \A n \in 0..all : out[n] = IF n = 0 THEN <<>>
                                   ELSE IF parts[n] = "" THEN out[n - 1]
                                   ELSE Append(out[n - 1], parts[n])
    BY <1>2 DEF Splits
  <2> HIDE DEF all
  <2>2. 0 \in 0..all /\ \A n \in 1..all : n \in 0..all /\ n # 0
    BY <1>0
  <2> QED
    BY <2>1, <2>2
<1>4. Good(0)
  <2>1. upTo(0) = {} /\ Elements(<<>>) = {} /\ <<>> \in Seq(Elements(parts))
    BY DEF Elements
  <2> QED
    BY <1>3, <2>1
<1>5. ASSUME NEW n \in Nat, n + 1 <= all, Good(n) PROVE Good(n + 1)
  <2>1. out[n] \in Seq(Elements(parts)) /\ Elements(out[n]) = upTo(n) \ {""}
    BY <1>5
  <2>0. n + 1 <= all
    BY <1>5
  <2>2. n + 1 \in 1..all /\ (n + 1) - 1 = n
    BY <1>0, <2>0
  <2>3. out[n + 1] = IF parts[n + 1] = "" THEN out[n] ELSE Append(out[n], parts[n + 1])
    BY <1>3, <2>2
  <2>4. upTo(n + 1) = upTo(n) \cup {parts[n + 1]}
    <3>1. 1..(n + 1) = (1..n) \cup {n + 1}
      OBVIOUS
    <3> QED
      BY <3>1
  <2>5. parts[n + 1] \in Elements(parts)
    BY <1>0, <2>2 DEF Elements
  <2> HIDE DEF upTo, all
  <2>6. CASE parts[n + 1] = ""
    BY <2>1, <2>3, <2>4, <2>6
  <2>7. CASE parts[n + 1] # ""
    <3>1. out[n + 1] = Append(out[n], parts[n + 1])
      BY <2>3, <2>7
    <3>2. Append(out[n], parts[n + 1]) \in Seq(Elements(parts))
      <4>1. \A T, q, x : q \in Seq(T) /\ x \in T => Append(q, x) \in Seq(T)
        OBVIOUS
      <4> QED
        BY <2>1, <2>5, <4>1
    <3>3. Elements(Append(out[n], parts[n + 1])) = Elements(out[n]) \cup {parts[n + 1]}
      BY <2>1, Appended
    <3> QED
      BY <2>1, <2>4, <2>7, <3>1, <3>2, <3>3
  <2> QED
    BY <2>6, <2>7
<1>6. Good(all)
  <2> DEFINE S == {n \in Nat : n <= all => Good(n)}
  <2> HIDE DEF Good, all
  <2>1. 0 \in S
    BY <1>4
  <2>2. \A n \in Nat : n \in S => n + 1 \in S
    BY <1>0, <1>5
  <2>3. Nat \subseteq S
    <3> HIDE DEF S
    <3> QED
      BY <2>1, <2>2, Induct
  <2> QED
    BY <1>0, <2>3
<1>7. upTo(all) = Elements(parts)
  BY <1>0 DEF Elements
<1> HIDE DEF upTo, all
<1> QED
  BY <1>1, <1>6, <1>7

-----------------------------------------------------------------------------
(* index.theme.                                                             *)

\* IndexReading is the function that its definition describes.
LEMMA IndexReadingIs ==
    ASSUME NEW lines, Len(lines) \in Nat
    PROVE  IndexReading(lines) =
               [n \in 0..Len(lines) |->
                  IF n = 0 THEN IndexStart
                  ELSE readIndexLine(IndexReading(lines)[n - 1], lines[n])]
<1> DEFINE Is(f, k) == f = [n \in 0..k |-> IF n = 0 THEN IndexStart
                                           ELSE readIndexLine(f[n - 1], lines[n])]
           S == {k \in Nat : \E f : Is(f, k)}
<1>1. 0 \in S
  <2>1. Is([n \in 0..0 |-> IndexStart], 0)
    OBVIOUS
  <2> QED
    BY <2>1
<1>2. ASSUME NEW k \in Nat, k \in S PROVE k + 1 \in S
  <2>1. PICK f : Is(f, k)
    BY <1>2
  <2> DEFINE g == [n \in 0..(k + 1) |-> IF n = k + 1 THEN readIndexLine(f[k], lines[k + 1])
                                       ELSE f[n]]
  <2>2. ASSUME NEW n \in 0..(k + 1)
        PROVE  g[n] = IF n = 0 THEN IndexStart ELSE readIndexLine(g[n - 1], lines[n])
    <3>1. CASE n = k + 1
      <4>1. g[n] = readIndexLine(f[k], lines[k + 1])
        BY <3>1
      <4>2. g[n - 1] = f[k] /\ n # 0
        BY <3>1
      <4> QED
        BY <3>1, <4>1, <4>2
    <3>2. CASE n # k + 1
      <4>1. n \in 0..k /\ g[n] = f[n] /\ (n # 0 => n - 1 \in 0..(k + 1) /\ n - 1 # k + 1)
        BY <3>2
      <4>2. n # 0 => g[n - 1] = f[n - 1]
        BY <4>1
      <4>3. f[n] = IF n = 0 THEN IndexStart ELSE readIndexLine(f[n - 1], lines[n])
        BY <2>1, <4>1
      <4> QED
        BY <4>1, <4>2, <4>3
    <3> QED
      BY <3>1, <3>2
  <2>3. Is(g, k + 1)
    <3>1. g = [n \in 0..(k + 1) |-> g[n]]
      OBVIOUS
    <3> HIDE DEF g
    <3> QED
      BY <2>2, <3>1
  <2> HIDE DEF Is, g
  <2>4. \E h : Is(h, k + 1)
    BY <2>3
  <2> QED
    BY <2>4
<1>3. \E f : Is(f, Len(lines))
  <2>1. Nat \subseteq S
    <3> HIDE DEF S
    <3> QED
      BY <1>1, <1>2, Induct
  <2> QED
    BY <2>1
<1> QED
  BY <1>3 DEF IndexReading

\* What one more line changes.
LEMMA IndexSaidStep ==
    ASSUME NEW lines, NEW n \in Nat, NEW key
    PROVE  IndexSaid(lines, n + 1, key) =
               IF /\ InTheme(lines, n + 1)
                  /\ lines[n + 1].kind = "pair" /\ lines[n + 1].key = key
               THEN lines[n + 1].value
               ELSE IndexSaid(lines, n, key)
<1> DEFINE Is(i) == InTheme(lines, i) /\ lines[i].kind = "pair" /\ lines[i].key = key
           places(m) == {i \in 1..m : Is(i)}
<1>0. \A m : IndexSaid(lines, m, key) = IF places(m) = {} THEN Refused[key]
                                        ELSE lines[Latest(places(m))].value
  BY DEF IndexSaid
<1>1. CASE Is(n + 1)
  <2>1. places(n + 1) = places(n) \cup {n + 1}
    BY <1>1
  <2>2. places(n) \in SUBSET (1..n)
    OBVIOUS
  <2>3. Latest(places(n + 1)) = n + 1
    BY <2>1, <2>2, LatestIsLast
  <2>4. places(n + 1) # {}
    BY <2>1
  <2> HIDE DEF places
  <2> QED
    BY <1>0, <1>1, <2>3, <2>4
<1>2. CASE ~Is(n + 1)
  <2>1. places(n + 1) = places(n)
    BY <1>2
  <2> HIDE DEF places
  <2> QED
    BY <1>0, <1>2, <2>1
<1> QED
  BY <1>1, <1>2

\* What is known after n lines: what they say, or that one of them does not fit.
IndexSound(lines, n) == \A i \in 1..n : IndexFits(lines, i)

SaysIndex(lines, n) ==
    [Name |-> IndexSaid(lines, n, "Name"),
     Inherits |-> splitInheritsList(IndexSaid(lines, n, "Inherits"))]

IndexAgrees(lines, n, s) ==
    IF IndexSound(lines, n)
    THEN s = [section |-> Under(lines, n), failed |-> FALSE, index |-> SaysIndex(lines, n)]
    ELSE s.failed

\* A line keeps it so.
LEMMA IndexLineRead ==
    ASSUME NEW lines, IsIndexFile(lines), NEW n \in Nat, n + 1 \in DOMAIN lines,
           NEW s, IndexAgrees(lines, n, s)
    PROVE  IndexAgrees(lines, n + 1, readIndexLine(s, lines[n + 1]))
<1> DEFINE line == lines[n + 1]
           now == readIndexLine(s, line)
<1>1. line.kind \in {"blank", "group", "junk", "pair"}
  BY DEF IsIndexFile, IsFile
<1>2. IndexSound(lines, n + 1) <=> IndexSound(lines, n) /\ IndexFits(lines, n + 1)
  BY DEF IndexSound
<1>3. CASE ~IndexSound(lines, n)
  <2>1. s.failed
    BY <1>3 DEF IndexAgrees
  <2>2. now = s
    BY <2>1 DEF readIndexLine
  <2> QED
    BY <1>2, <1>3, <2>1, <2>2 DEF IndexAgrees
<1>4. CASE IndexSound(lines, n)
  <2>1. s = [section |-> Under(lines, n), failed |-> FALSE, index |-> SaysIndex(lines, n)]
    BY <1>4 DEF IndexAgrees
  <2>2. ~s.failed /\ s.section = Under(lines, n)
    BY <2>1
  <2>3. ~(InTheme(lines, n + 1) /\ line.kind = "pair") =>
            SaysIndex(lines, n + 1) = SaysIndex(lines, n)
    BY IndexSaidStep DEF SaysIndex
  <2>4. CASE line.kind = "blank"
    <3>1. now = s
      BY <2>4 DEF readIndexLine
    <3>2. IndexFits(lines, n + 1) /\ ~InTheme(lines, n + 1)
      BY <2>4 DEF IndexFits, InTheme
    <3>3. Under(lines, n + 1) = Under(lines, n)
      BY <2>4, UnderStep
    <3> QED
      BY <1>2, <1>4, <2>1, <2>3, <3>1, <3>2, <3>3 DEF IndexAgrees
  <2>5. CASE line.kind = "group"
    <3>1. now = [s EXCEPT !.section = line.name]
      BY <2>2, <2>5 DEF readIndexLine
    <3>2. IndexFits(lines, n + 1) /\ ~InTheme(lines, n + 1)
      BY <2>5 DEF IndexFits, InTheme
    <3>3. Under(lines, n + 1) = line.name
      BY <2>5, UnderStep
    <3>4. now = [section |-> Under(lines, n + 1), failed |-> FALSE,
                 index |-> SaysIndex(lines, n)]
      BY <2>1, <3>1, <3>3
    <3> QED
      BY <1>2, <1>4, <2>3, <3>2, <3>4 DEF IndexAgrees
  <2>6. CASE line.kind \in {"junk", "pair"}
    <3>1. Under(lines, n + 1) = Under(lines, n)
      BY <2>6, UnderStep
    <3>2. InTheme(lines, n + 1) <=> Under(lines, n) = iconThemeSection
      BY <2>6, <3>1 DEF InTheme
    <3>3. CASE Under(lines, n) # iconThemeSection
      <4>1. now = s
        BY <2>2, <2>6, <3>3 DEF readIndexLine
      <4>2. IndexFits(lines, n + 1)
        BY <3>2, <3>3 DEF IndexFits
      <4> QED
        BY <1>2, <1>4, <2>1, <2>3, <3>1, <3>2, <3>3, <4>1, <4>2 DEF IndexAgrees
    <3>4. CASE /\ Under(lines, n) = iconThemeSection
               /\ line.kind = "junk" \/ line.key = ""
      <4>1. ~IndexFits(lines, n + 1)
        BY <3>2, <3>4 DEF IndexFits
      <4>2. now = [s EXCEPT !.failed = TRUE]
        BY <2>2, <2>6, <3>4 DEF readIndexLine
      <4>3. now.failed
        BY <2>1, <4>2
      <4> QED
        BY <1>2, <4>1, <4>3 DEF IndexAgrees
    <3>5. CASE Under(lines, n) = iconThemeSection /\ line.kind = "pair" /\ line.key # ""
      <4>1. IndexFits(lines, n + 1)
        BY <3>5 DEF IndexFits
      <4>2. \A k : IndexSaid(lines, n + 1, k) = IF k = line.key THEN line.value
                                                ELSE IndexSaid(lines, n, k)
        BY <3>2, <3>5, IndexSaidStep
      <4>3. now = CASE line.key = "Name" -> [s EXCEPT !.index.Name = line.value]
                    [] line.key = "Inherits" ->
                         [s EXCEPT !.index.Inherits = splitInheritsList(line.value)]
                    [] OTHER -> s
        BY <2>2, <3>5 DEF readIndexLine
      <4>4. now = [section |-> Under(lines, n), failed |-> FALSE,
                   index |-> SaysIndex(lines, n + 1)]
        <5>1. CASE line.key = "Name"
          <6>1. now = [s EXCEPT !.index.Name = line.value]
            BY <4>3, <5>1
          <6>2. SaysIndex(lines, n + 1) = [SaysIndex(lines, n) EXCEPT !.Name = line.value]
            BY <4>2, <5>1 DEF SaysIndex
          <6> QED
            BY <2>1, <6>1, <6>2
        <5>2. CASE line.key = "Inherits"
          <6>1. now = [s EXCEPT !.index.Inherits = splitInheritsList(line.value)]
            BY <4>3, <5>2
          <6>2. SaysIndex(lines, n + 1) = [SaysIndex(lines, n) EXCEPT
                                             !.Inherits = splitInheritsList(line.value)]
            BY <4>2, <5>2 DEF SaysIndex
          <6> QED
            BY <2>1, <6>1, <6>2
        <5>3. CASE line.key # "Name" /\ line.key # "Inherits"
          <6>1. now = s
            BY <4>3, <5>3
          <6>2. SaysIndex(lines, n + 1) = SaysIndex(lines, n)
            BY <4>2, <5>3 DEF SaysIndex
          <6> QED
            BY <2>1, <6>1, <6>2
        <5> QED
          BY <5>1, <5>2, <5>3
      <4> QED
        BY <1>2, <1>4, <3>1, <4>1, <4>4 DEF IndexAgrees
    <3> QED
      BY <2>6, <3>3, <3>4, <3>5
  <2> QED
    BY <1>1, <2>4, <2>5, <2>6
<1> QED
  BY <1>3, <1>4

\* Reading an index.theme line by line yields what is declared in it.
THEOREM ReadsWhatIsDeclared ==
    \A lines : IsIndexFile(lines) => LoadThemeIndex(lines) = Declared(lines)
<1> SUFFICES ASSUME NEW lines, IsIndexFile(lines) PROVE LoadThemeIndex(lines) = Declared(lines)
  OBVIOUS
<1> DEFINE all == Len(lines)
<1>1. all \in Nat /\ DOMAIN lines = 1..all
  BY DEF IsIndexFile, IsFile
<1> DEFINE S == {n \in Nat : n <= all => IndexAgrees(lines, n, IndexReading(lines)[n])}
<1>2. 0 \in S
  <2>1. IndexReading(lines)[0] = IndexStart
    BY <1>1, IndexReadingIs
  <2>2. Under(lines, 0) = "" /\ IndexSound(lines, 0)
    BY DEF Under, IndexSound
  <2>3. SaysIndex(lines, 0) = Refused
    <3>1. \A key : IndexSaid(lines, 0, key) = Refused[key]
      BY DEF IndexSaid
    <3>2. splitInheritsList(<<>>) = <<>>
      <4>1. IsSequence(<<>>) /\ Elements(<<>>) = {}
        BY DEF IsSequence, Elements
      <4>2. splitInheritsList(<<>>) \in Seq({})
        BY <4>1, SplitIs
      <4> QED
        BY <4>2
    <3>3. Refused.Name = "" /\ Refused.Inherits = <<>>
      BY DEF Refused
    <3>4. SaysIndex(lines, 0) = [Name |-> "", Inherits |-> <<>>]
      BY <3>1, <3>2, <3>3 DEF SaysIndex
    <3> QED
      BY <3>4 DEF Refused
  <2> QED
    BY <2>1, <2>2, <2>3 DEF IndexAgrees, IndexStart
<1>3. ASSUME NEW n \in Nat, n \in S PROVE n + 1 \in S
  <2> SUFFICES ASSUME n + 1 <= all PROVE IndexAgrees(lines, n + 1, IndexReading(lines)[n + 1])
    OBVIOUS
  <2>1. IndexAgrees(lines, n, IndexReading(lines)[n])
    BY <1>1, <1>3
  <2>2. IndexReading(lines)[n + 1] = readIndexLine(IndexReading(lines)[n], lines[n + 1])
    <3>1. n + 1 \in 0..all /\ n + 1 # 0 /\ (n + 1) - 1 = n
      BY <1>1
    <3> QED
      BY <1>1, <3>1, IndexReadingIs
  <2> QED
    BY <1>1, <2>1, <2>2, IndexLineRead
<1>4. IndexAgrees(lines, all, IndexReading(lines)[all])
  <2>1. Nat \subseteq S
    <3> HIDE DEF S
    <3> QED
      BY <1>2, <1>3, Induct
  <2> QED
    BY <1>1, <2>1
<1>5. CASE IndexSound(lines, all)
  <2>1. /\ IndexReading(lines)[all].index = SaysIndex(lines, all)
        /\ ~IndexReading(lines)[all].failed
    BY <1>4, <1>5 DEF IndexAgrees
  <2>2. SaysIndex(lines, all).Name = IndexSaid(lines, all, "Name")
    BY DEF SaysIndex
  <2> QED
    BY <1>1, <1>5, <2>1, <2>2 DEF LoadThemeIndex, Declared, SaysIndex, IndexSound
<1>6. CASE ~IndexSound(lines, all)
  BY <1>1, <1>4, <1>6 DEF IndexAgrees, LoadThemeIndex, Declared, IndexSound
<1> QED
  BY <1>5, <1>6

\* The module's Cardinality is that of the library's theorems.
LEMMA CardinalityIs ==
    \A S : Cardinality(S) = Finite!Cardinality(S) /\ (IsFiniteSet(S) <=> Finite!IsFiniteSet(S))
BY DEF Cardinality, Finite!Cardinality, IsFiniteSet, Finite!IsFiniteSet


\* A sequence of anything is one of its elements.
LEMMA SequenceIs == \A T : \A seq \in Seq(T) : IsSequence(seq)
BY DEF IsSequence

\* What is declared is something only if it has a name, and the parents are a
\* sequence without empty names.
LEMMA DeclaredIs ==
    ASSUME NEW lines, IsIndexFile(lines)
    PROVE  /\ Declared(lines) # Refused <=> Declared(lines).Name # ""
           /\ IsSequence(Declared(lines).Inherits)
           /\ "" \notin Elements(Declared(lines).Inherits)
<1> DEFINE all == Len(lines)
           said == IndexSaid(lines, all, "Inherits")
<1>0. all \in Nat /\ DOMAIN lines = 1..all
  BY DEF IsIndexFile, IsFile
<1>1. Refused.Name = "" /\ Refused.Inherits = <<>> /\ IsSequence(<<>>) /\ Elements(<<>>) = {}
  BY DEF Refused, IsSequence, Elements
<1>2. IsSequence(said)
  <2> DEFINE places == {i \in 1..all : /\ InTheme(lines, i)
                                       /\ lines[i].kind = "pair" /\ lines[i].key = "Inherits"}
  <2>1. CASE places = {}
    BY <1>1, <2>1 DEF IndexSaid
  <2>2. CASE places # {}
    <3>1. places \in SUBSET (0..all)
      BY <1>0
    <3>2. Latest(places) \in places
      <4> HIDE DEF places, all
      <4>1. Greatest(places) \in places
        BY <1>0, <2>2, <3>1, GreatestIs
      <4> QED
        BY <4>1 DEF Greatest, Latest
    <3>3. said = lines[Latest(places)].value
      BY <2>2 DEF IndexSaid
    <3> QED
      BY <1>0, <3>2, <3>3 DEF IsIndexFile
  <2> QED
    BY <2>1, <2>2
<1>3. IsSequence(splitInheritsList(said)) /\ "" \notin Elements(splitInheritsList(said))
  <2> HIDE DEF said
  <2>1. splitInheritsList(said) \in Seq(Elements(said))
    BY <1>2, SplitIs
  <2> QED
    BY <1>2, <2>1, SplitIs, SequenceIs
<1>4. CASE Declared(lines) = Refused
  BY <1>1, <1>4
<1>5. CASE Declared(lines) # Refused
  <2>1. /\ Declared(lines).Inherits = splitInheritsList(said)
        /\ Declared(lines).Name # ""
    BY <1>5 DEF Declared
  <2> QED
    BY <1>3, <1>5, <2>1
<1> QED
  BY <1>4, <1>5

-----------------------------------------------------------------------------
(* The chain of themes.                                                     *)

\* The index files of a request, and the names that they mention.
AreIndexFiles(themes) ==
    /\ IsSequence(themes)
    /\ \A i \in DOMAIN themes : IsIndexFile(themes[i].lines)

Mentioned(themes, theme) ==
    {theme} \cup UNION {Elements(Declared(themes[i].lines).Inherits) : i \in DOMAIN themes}

\* The parents of a theme as loadThemesOnce keeps them.
ParentsOf(inherits, t) == IF t \in DOMAIN inherits THEN Elements(inherits[t]) ELSE {}

\* What loadThemesOnce keeps is what the index files declare.
LEMMA ThemesLoaded ==
    ASSUME NEW themes, AreIndexFiles(themes)
    PROVE  /\ \A t : ParentsOf(loadThemesOnce(themes), t) = Parents(themes, t)
           /\ \A t \in DOMAIN loadThemesOnce(themes) :
                \E i \in DOMAIN themes :
                    loadThemesOnce(themes)[t] = Declared(themes[i].lines).Inherits
<1> DEFINE index == [i \in DOMAIN themes |-> LoadThemeIndex(themes[i].lines)]
           loaded == {i \in DOMAIN themes : index[i] # Refused}
           named(n) == {i \in loaded : index[i].Name = n}
           inherits == loadThemesOnce(themes)
           declared(n) == {i \in DOMAIN themes : Declared(themes[i].lines).Name = n /\ n # ""}
<1>1. DOMAIN themes \subseteq Nat
  BY DEF AreIndexFiles, IsSequence
<1>2. inherits = [n \in {index[i].Name : i \in loaded} |-> index[Least(named(n))].Inherits]
  BY DEF loadThemesOnce
<1>3. \A i \in DOMAIN themes : /\ index[i] = Declared(themes[i].lines)
                               /\ index[i] # Refused <=> index[i].Name # ""
  BY ReadsWhatIsDeclared, DeclaredIs DEF AreIndexFiles
<1>4. \A t : named(t) = declared(t)
  <2> HIDE DEF index
  <2> QED
    BY <1>3
<1>5. ASSUME NEW t PROVE t \in DOMAIN inherits <=> declared(t) # {}
  <2>1. t \in DOMAIN inherits <=> \E i \in loaded : index[i].Name = t
    BY <1>2
  <2>2. named(t) # {} <=> \E i \in loaded : index[i].Name = t
    OBVIOUS
  <2> HIDE DEF index, loaded, named, inherits, declared
  <2> QED
    BY <1>4, <2>1, <2>2
<1>6. ASSUME NEW t \in DOMAIN inherits
      PROVE  /\ Least(declared(t)) \in DOMAIN themes
             /\ inherits[t] = Declared(themes[Least(declared(t))].lines).Inherits
  <2>1. declared(t) # {} /\ declared(t) \in SUBSET Nat
    BY <1>1, <1>5
  <2>2. Least(declared(t)) \in declared(t)
    <3> HIDE DEF declared
    <3> QED
      BY <2>1, LeastIs
  <2>3. inherits[t] = index[Least(declared(t))].Inherits
    <3> HIDE DEF declared, index, inherits, named
    <3> QED
      BY <1>2, <1>4
  <2> QED
    BY <1>3, <2>2, <2>3
<1>7. \A t : Parents(themes, t) = IF declared(t) = {} THEN {}
               ELSE Elements(Declared(themes[Least(declared(t))].lines).Inherits)
  BY DEF Parents
<1> HIDE DEF index, loaded, named, inherits, declared
<1>8. ASSUME NEW t PROVE ParentsOf(inherits, t) = Parents(themes, t)
  BY <1>5, <1>6, <1>7 DEF ParentsOf
<1>9. ASSUME NEW t \in DOMAIN inherits
      PROVE  \E i \in DOMAIN themes : inherits[t] = Declared(themes[i].lines).Inherits
  BY <1>6
<1> QED
  BY <1>8, <1>9 DEF inherits

\* A sequence has finitely many elements.
LEMMA ElementsFinite == ASSUME NEW seq, IsSequence(seq) PROVE Finite!IsFiniteSet(Elements(seq))
<1> DEFINE upTo(n) == {seq[i] : i \in 1..n}
           S == {n \in Nat : Finite!IsFiniteSet(upTo(n))}
<1>1. 0 \in S
  <2>1. upTo(0) = {}
    OBVIOUS
  <2> QED
    BY <2>1, Finite!FS_EmptySet
<1>2. ASSUME NEW n \in Nat, n \in S PROVE n + 1 \in S
  <2>1. 1..(n + 1) = (1..n) \cup {n + 1}
    OBVIOUS
  <2>2. upTo(n + 1) = upTo(n) \cup {seq[n + 1]}
    BY <2>1
  <2>3. Finite!IsFiniteSet(upTo(n))
    BY <1>2
  <2> HIDE DEF upTo
  <2>4. Finite!IsFiniteSet(upTo(n + 1))
    BY <2>2, <2>3, Finite!FS_AddElement
  <2> QED
    BY <2>4
<1>3. Nat \subseteq S
  <2> HIDE DEF S
  <2> QED
    BY <1>1, <1>2, Induct
<1>4. Len(seq) \in Nat /\ Elements(seq) = upTo(Len(seq))
  BY DEF IsSequence, Elements
<1> QED
  BY <1>3, <1>4

\* And finitely many names are mentioned.
LEMMA MentionedFinite ==
    ASSUME NEW themes, AreIndexFiles(themes), NEW theme
    PROVE  Finite!IsFiniteSet(Mentioned(themes, theme))
<1> DEFINE parents(i) == Elements(Declared(themes[i].lines).Inherits)
           upTo(n) == {theme} \cup UNION {parents(i) : i \in 1..n}
           all == Len(themes)
           S == {n \in Nat : n <= all => Finite!IsFiniteSet(upTo(n))}
<1>0. all \in Nat /\ DOMAIN themes = 1..all
  BY DEF AreIndexFiles, IsSequence
<1>1. 0 \in S
  <2>1. upTo(0) = {theme}
    OBVIOUS
  <2>2. Finite!IsFiniteSet({theme})
    BY Finite!FS_Singleton
  <2> QED
    BY <2>1, <2>2
<1>2. ASSUME NEW n \in Nat, n \in S PROVE n + 1 \in S
  <2> SUFFICES ASSUME n + 1 <= all PROVE Finite!IsFiniteSet(upTo(n + 1))
    OBVIOUS
  <2>1. 1..(n + 1) = (1..n) \cup {n + 1}
    OBVIOUS
  <2>2. upTo(n + 1) = upTo(n) \cup parents(n + 1)
    <3> HIDE DEF parents
    <3> QED
      BY <2>1
  <2>3. Finite!IsFiniteSet(upTo(n))
    BY <1>0, <1>2
  <2>4. Finite!IsFiniteSet(parents(n + 1))
    <3>1. IsIndexFile(themes[n + 1].lines)
      BY <1>0 DEF AreIndexFiles
    <3> QED
      BY <3>1, DeclaredIs, ElementsFinite
  <2> HIDE DEF upTo, parents
  <2> QED
    BY <2>2, <2>3, <2>4, Finite!FS_Union
<1>3. Nat \subseteq S
  <2> HIDE DEF S
  <2> QED
    BY <1>1, <1>2, Induct
<1>4. Mentioned(themes, theme) = upTo(all)
  BY <1>0 DEF Mentioned
<1>5. all \in S
  BY <1>0, <1>3
<1> HIDE DEF upTo, all
<1> QED
  BY <1>0, <1>4, <1>5

\* What is kept of the themes: sequences of parents, without empty names and
\* finitely many in all.
Nonempty(name) == name # ""

KeptThemes(inherits, initial) ==
    /\ Nonempty(initial)
    /\ \A t \in DOMAIN inherits : IsSequence(inherits[t])
    /\ Finite!IsFiniteSet(ThemeNames(inherits, initial))

\* What loadThemesOnce keeps is of that kind.
LEMMA ThemesKept ==
    ASSUME NEW themes, AreIndexFiles(themes), NEW theme, Nonempty(theme)
    PROVE  /\ KeptThemes(loadThemesOnce(themes), theme)
           /\ ThemeNames(loadThemesOnce(themes), theme) \subseteq Mentioned(themes, theme)
<1> DEFINE inherits == loadThemesOnce(themes)
<1>1. \A t \in DOMAIN inherits :
        \E i \in DOMAIN themes : inherits[t] = Declared(themes[i].lines).Inherits
  BY ThemesLoaded
<1> HIDE DEF inherits
<1>2. ThemeNames(inherits, theme) \subseteq Mentioned(themes, theme)
  BY <1>1 DEF ThemeNames, Mentioned
<1>3. Finite!IsFiniteSet(ThemeNames(inherits, theme))
  BY <1>2, MentionedFinite, Finite!FS_Subset
<1>4. \A t \in DOMAIN inherits : IsSequence(inherits[t])
  <2>1. \A i \in DOMAIN themes : IsSequence(Declared(themes[i].lines).Inherits)
    BY DeclaredIs DEF AreIndexFiles
  <2> QED
    BY <1>1, <2>1
<1> QED
  BY <1>2, <1>3, <1>4 DEF KeptThemes, inherits

\* The loops of dfs, a call after another.
DfsStart(initial) == [order |-> <<>>, pending |-> <<initial>>]

Visits(inherits, initial, after, k) ==
    after = [n \in 0..k |-> IF n = 0 THEN DfsStart(initial) ELSE dfs(inherits, after[n - 1])]

\* There is such a function.
LEMMA VisitsExist ==
    ASSUME NEW inherits, NEW initial, NEW k \in Nat
    PROVE  \E after : Visits(inherits, initial, after, k)
<1> DEFINE S == {n \in Nat : \E f : Visits(inherits, initial, f, n)}
<1>1. 0 \in S
  <2>1. Visits(inherits, initial, [n \in 0..0 |-> DfsStart(initial)], 0)
    BY DEF Visits
  <2> QED
    BY <2>1
<1>2. ASSUME NEW m \in Nat, m \in S PROVE m + 1 \in S
  <2>1. PICK f : Visits(inherits, initial, f, m)
    BY <1>2
  <2>2. PICK v : v = dfs(inherits, f[m])
    OBVIOUS
  <2> DEFINE g == [n \in 0..(m + 1) |-> IF n = m + 1 THEN v ELSE f[n]]
  <2>3. ASSUME NEW n \in 0..(m + 1)
        PROVE  g[n] = IF n = 0 THEN DfsStart(initial) ELSE dfs(inherits, g[n - 1])
    <3>1. CASE n = m + 1
      <4>1. g[n] = v /\ g[n - 1] = f[m] /\ n # 0
        BY <3>1
      <4> QED
        BY <2>2, <3>1, <4>1
    <3>2. CASE n # m + 1
      <4>1. n \in 0..m /\ g[n] = f[n] /\ (n # 0 => n - 1 \in 0..(m + 1) /\ n - 1 # m + 1)
        BY <3>2
      <4>2. n # 0 => g[n - 1] = f[n - 1]
        BY <4>1
      <4>3. f[n] = IF n = 0 THEN DfsStart(initial) ELSE dfs(inherits, f[n - 1])
        BY <2>1, <4>1 DEF Visits
      <4> QED
        BY <4>1, <4>2, <4>3
    <3> QED
      BY <3>1, <3>2
  <2>4. Visits(inherits, initial, g, m + 1)
    <3>1. g = [n \in 0..(m + 1) |-> g[n]]
      OBVIOUS
    <3> HIDE DEF g
    <3> QED
      BY <2>3, <3>1 DEF Visits
  <2> HIDE DEF g
  <2> QED
    BY <2>4
<1>3. Nat \subseteq S
  <2> HIDE DEF S
  <2> QED
    BY <1>1, <1>2, Induct
<1> QED
  BY <1>3

\* visited is it.
LEMMA VisitedIs ==
    ASSUME NEW inherits, NEW initial,
           NEW all \in Nat, all = Cardinality(ThemeNames(inherits, initial))
    PROVE  /\ visited(inherits, initial)[0] = DfsStart(initial)
           /\ \A n \in Nat : n + 1 <= all =>
                visited(inherits, initial)[n + 1] = dfs(inherits, visited(inherits, initial)[n])
<1>1. Visits(inherits, initial, visited(inherits, initial), all)
  <2>1. visited(inherits, initial) = CHOOSE f : Visits(inherits, initial, f, all)
    BY DEF visited, Visits, DfsStart
  <2> QED
    BY <2>1, VisitsExist
<1>2. PICK f : f = visited(inherits, initial)
  OBVIOUS
<1>3. \A n \in 0..all : f[n] = IF n = 0 THEN DfsStart(initial) ELSE dfs(inherits, f[n - 1])
  BY <1>1, <1>2 DEF Visits
<1>4. ASSUME NEW n \in Nat, n + 1 <= all PROVE f[n + 1] = dfs(inherits, f[n])
  <2>1. n + 1 \in 0..all /\ n + 1 # 0 /\ (n + 1) - 1 = n
    BY <1>4
  <2> QED
    BY <1>3, <2>1
<1>5. f[0] = DfsStart(initial)
  BY <1>3
<1> QED
  BY <1>2, <1>4, <1>5

\* The elements of the two sequences that a step makes.
LEMMA Concatenated ==
    ASSUME NEW S, NEW a \in Seq(S), NEW b \in Seq(S)
    PROVE  a \o b \in Seq(S) /\ Elements(a \o b) = Elements(a) \cup Elements(b)
<1> DEFINE both == a \o b
<1>1. /\ both \in Seq(S)
      /\ DOMAIN a = 1..Len(a) /\ DOMAIN b = 1..Len(b) /\ Len(a) \in Nat /\ Len(b) \in Nat
      /\ DOMAIN both = 1..(Len(a) + Len(b))
      /\ \A i \in 1..(Len(a) + Len(b)) : both[i] = IF i <= Len(a) THEN a[i] ELSE b[i - Len(a)]
  OBVIOUS
<1>2. \A i \in 1..Len(b) : Len(a) + i \in DOMAIN both /\ both[Len(a) + i] = b[i]
  <2> HIDE DEF both
  <2>1. ASSUME NEW i \in 1..Len(b)
        PROVE  /\ Len(a) + i \in 1..(Len(a) + Len(b)) /\ ~(Len(a) + i <= Len(a))
               /\ (Len(a) + i) - Len(a) = i
    BY <1>1
  <2> QED
    BY <1>1, <2>1
<1>3. \A i \in 1..Len(a) : i \in DOMAIN both /\ both[i] = a[i]
  <2> HIDE DEF both
  <2> QED
    BY <1>1
<1> HIDE DEF both
<1>4. ASSUME NEW i \in DOMAIN both PROVE both[i] \in Elements(a) \cup Elements(b)
  <2>1. i \in 1..(Len(a) + Len(b))
    BY <1>1
  <2>2. CASE i <= Len(a)
    <3>1. i \in DOMAIN a /\ both[i] = a[i]
      BY <1>1, <2>1, <2>2
    <3> QED
      BY <3>1 DEF Elements
  <2>3. CASE ~(i <= Len(a))
    <3>1. i - Len(a) \in DOMAIN b /\ both[i] = b[i - Len(a)]
      BY <1>1, <2>1, <2>3
    <3> QED
      BY <3>1 DEF Elements
  <2> QED
    BY <2>2, <2>3
<1>5. Elements(both) = Elements(a) \cup Elements(b)
  <2>1. \A i \in DOMAIN a : a[i] \in Elements(both)
    BY <1>1, <1>3 DEF Elements
  <2>2. \A i \in DOMAIN b : b[i] \in Elements(both)
    BY <1>1, <1>2 DEF Elements
  <2> QED
    BY <1>4, <2>1, <2>2 DEF Elements
<1> QED
  BY <1>1, <1>5 DEF both

\* And of what is left behind a place.
LEMMA RestIs ==
    ASSUME NEW S, NEW seq \in Seq(S), NEW i \in DOMAIN seq
    PROVE  /\ SubSeq(seq, i + 1, Len(seq)) \in Seq(S)
           /\ Elements(SubSeq(seq, i + 1, Len(seq))) = {seq[j] : j \in {k \in DOMAIN seq : i < k}}
<1> DEFINE rest == SubSeq(seq, i + 1, Len(seq))
<1>1. /\ Len(seq) \in Nat /\ DOMAIN seq = 1..Len(seq) /\ i \in 1..Len(seq)
      /\ rest \in Seq(S) /\ DOMAIN rest = 1..(Len(seq) - i)
      /\ \A j \in 1..(Len(seq) - i) : rest[j] = seq[i + j]
  OBVIOUS
<1> HIDE DEF rest
<1>2. \A j \in 1..(Len(seq) - i) : i + j \in DOMAIN seq /\ i < i + j
  BY <1>1
<1>3. \A k \in DOMAIN seq : i < k => k - i \in 1..(Len(seq) - i) /\ i + (k - i) = k
  BY <1>1
<1>4. Elements(rest) = {seq[j] : j \in {k \in DOMAIN seq : i < k}}
  BY <1>1, <1>2, <1>3 DEF Elements
<1> QED
  BY <1>1, <1>4 DEF rest

\* Nothing is left to call.
Returned(s) == \A i \in DOMAIN s.pending : s.pending[i] = "" \/ s.pending[i] \in Elements(s.order)

\* Where dfs may go.
Closed(inherits, S) == \A t \in S : ParentsOf(inherits, t) \subseteq S

\* What is known after n calls: the order has no name twice, begins with the
\* initial theme, and leads nowhere but to what is closed; parents that it lacks
\* are still to be called.
Traversal(inherits, initial, n, s) ==
    /\ s.order \in Seq(ThemeNames(inherits, initial))
    /\ s.pending \in Seq(ThemeNames(inherits, initial))
    /\ \A i, j \in DOMAIN s.order : s.order[i] = s.order[j] => i = j
    /\ IF s.order = <<>> THEN s.pending = <<initial>> ELSE s.order[1] = initial
    /\ \A t \in Elements(s.order) :
         ParentsOf(inherits, t) \subseteq Elements(s.order) \cup Elements(s.pending) \cup {""}
    /\ "" \notin Elements(s.order)
    /\ \A S : initial \in S /\ Closed(inherits, S) =>
                Elements(s.order) \cup Elements(s.pending) \subseteq S
    /\ n <= Len(s.order) \/ Returned(s)

\* It holds before the first call.
LEMMA TraversalStarts ==
    ASSUME NEW inherits, NEW initial
    PROVE  Traversal(inherits, initial, 0, DfsStart(initial))
<1>1. /\ DfsStart(initial).order = <<>> /\ DfsStart(initial).pending = <<initial>>
      /\ Elements(<<>>) = {} /\ Elements(<<initial>>) = {initial}
  BY DEF DfsStart, Elements
<1>2. initial \in ThemeNames(inherits, initial)
  BY DEF ThemeNames
<1>3. <<>> \in Seq(ThemeNames(inherits, initial)) /\ Len(<<>>) = 0
  OBVIOUS
<1>4. <<initial>> \in Seq(ThemeNames(inherits, initial))
  <2>1. \A T : initial \in T => <<initial>> \in Seq(T)
    OBVIOUS
  <2> QED
    BY <1>2, <2>1
<1>5. PICK s : s = DfsStart(initial)
  OBVIOUS
<1>6. /\ s.order = <<>> /\ s.pending = <<initial>> /\ Len(s.order) = 0 /\ DOMAIN s.order = {}
      /\ Elements(s.order) = {} /\ Elements(s.pending) = {initial}
  BY <1>1, <1>3, <1>5
<1>7. \A S : initial \in S => Elements(s.order) \cup Elements(s.pending) \subseteq S
  BY <1>6
<1>8. 0 <= Len(s.order)
  BY <1>6
<1> QED
  BY <1>3, <1>4, <1>5, <1>6, <1>7, <1>8 DEF Traversal

\* And a call keeps it, whether it is one that returns at once or not.
LEMMA TraversalContinues ==
    ASSUME NEW inherits, NEW initial, KeptThemes(inherits, initial),
           NEW n \in Nat, NEW s, Traversal(inherits, initial, n, s)
    PROVE  Traversal(inherits, initial, n + 1, dfs(inherits, s))
<1> DEFINE names == ThemeNames(inherits, initial)
           calls == {i \in DOMAIN s.pending : /\ s.pending[i] # ""
                                              /\ s.pending[i] \notin Elements(s.order)}
<1>0. /\ s.order \in Seq(names) /\ s.pending \in Seq(names)
      /\ \A i, j \in DOMAIN s.order : s.order[i] = s.order[j] => i = j
      /\ IF s.order = <<>> THEN s.pending = <<initial>> ELSE s.order[1] = initial
      /\ \A t \in Elements(s.order) :
           ParentsOf(inherits, t) \subseteq Elements(s.order) \cup Elements(s.pending) \cup {""}
      /\ "" \notin Elements(s.order)
      /\ \A S : initial \in S /\ Closed(inherits, S) =>
                  Elements(s.order) \cup Elements(s.pending) \subseteq S
      /\ n <= Len(s.order) \/ Returned(s)
  BY DEF Traversal
<1>1. CASE calls = {}
  <2>1. dfs(inherits, s) = s
    BY <1>1 DEF dfs
  <2>2. Returned(s)
    BY <1>1 DEF Returned
  <2> QED
    BY <1>0, <2>1, <2>2 DEF Traversal
<1>2. CASE calls # {}
  <2>1. /\ Len(s.pending) \in Nat /\ DOMAIN s.pending = 1..Len(s.pending)
        /\ Len(s.order) \in Nat /\ DOMAIN s.order = 1..Len(s.order)
    <3>1. \A T : \A q \in Seq(T) : Len(q) \in Nat /\ DOMAIN q = 1..Len(q)
      OBVIOUS
    <3> HIDE DEF names
    <3> QED
      BY <1>0, <3>1
  <2>2. PICK i : i = Least(calls)
    OBVIOUS
  <2>3. i \in calls /\ \A j \in calls : i <= j
    <3>1. calls \in SUBSET Nat
      <4>1. \A m : 1..m \subseteq Nat
        OBVIOUS
      <4> QED
        BY <2>1, <4>1
    <3> HIDE DEF calls
    <3> QED
      BY <1>2, <2>2, <3>1, LeastIs
  <2>4. PICK name : name = s.pending[i]
    OBVIOUS
  <2>5. /\ i \in DOMAIN s.pending /\ name # "" /\ name \notin Elements(s.order)
        /\ \A j \in DOMAIN s.pending : j < i => \/ s.pending[j] = ""
                                                \/ s.pending[j] \in Elements(s.order)
    <3>1. \A j \in DOMAIN s.pending : j < i => j \notin calls
      <4>1. i \in DOMAIN s.pending
        BY <2>3
      <4>2. i \in Int /\ \A j \in DOMAIN s.pending : j \in Int
        BY <2>1, <4>1
      <4> HIDE DEF calls
      <4> QED
        BY <2>3, <4>2
    <3> QED
      BY <2>3, <2>4, <3>1
  <2>6. name \in names
    <3>1. \A T : \A q \in Seq(T) : \A j \in DOMAIN q : q[j] \in T
      OBVIOUS
    <3> HIDE DEF names
    <3> QED
      BY <1>0, <2>4, <2>5, <3>1
  <2>7. PICK parents : parents = IF name \in DOMAIN inherits THEN inherits[name] ELSE <<>>
    OBVIOUS
  <2>8. parents \in Seq(names) /\ Elements(parents) = ParentsOf(inherits, name)
    <3>1. CASE name \in DOMAIN inherits
      <4>1. parents = inherits[name] /\ Elements(parents) = ParentsOf(inherits, name)
        BY <2>7, <3>1 DEF ParentsOf
      <4>2. parents \in Seq(Elements(parents))
        BY <3>1, <4>1 DEF KeptThemes, IsSequence, Elements
      <4>3. Elements(parents) \subseteq names
        BY <3>1, <4>1 DEF ThemeNames
      <4>4. \A T, U, q : q \in Seq(T) /\ T \subseteq U => q \in Seq(U)
        OBVIOUS
      <4> HIDE DEF names
      <4> QED
        BY <4>1, <4>2, <4>3, <4>4
    <3>2. CASE name \notin DOMAIN inherits
      <4>1. parents = <<>> /\ ParentsOf(inherits, name) = {}
        BY <2>7, <3>2 DEF ParentsOf
      <4>2. Elements(<<>>) = {} /\ <<>> \in Seq(names)
        BY DEF Elements
      <4> QED
        BY <4>1, <4>2
    <3> QED
      BY <3>1, <3>2
  <2>9. PICK rest : rest = SubSeq(s.pending, i + 1, Len(s.pending))
    OBVIOUS
  <2>10. /\ rest \in Seq(names)
         /\ Elements(rest) = {s.pending[j] : j \in {k \in DOMAIN s.pending : i < k}}
    <3> HIDE DEF names
    <3> QED
      BY <1>0, <2>5, <2>9, RestIs
  <2>11. PICK more : more = Append(s.order, name)
    OBVIOUS
  <2>12. /\ more \in Seq(names) /\ Len(more) = Len(s.order) + 1
         /\ DOMAIN more = 1..(Len(s.order) + 1) /\ more[Len(s.order) + 1] = name
         /\ \A j \in 1..Len(s.order) : more[j] = s.order[j]
         /\ Elements(more) = Elements(s.order) \cup {name}
    <3>1. \A T, q, x : q \in Seq(T) /\ x \in T =>
            /\ Append(q, x) \in Seq(T) /\ Len(Append(q, x)) = Len(q) + 1
            /\ DOMAIN Append(q, x) = 1..(Len(q) + 1) /\ Append(q, x)[Len(q) + 1] = x
            /\ \A j \in 1..Len(q) : Append(q, x)[j] = q[j]
      OBVIOUS
    <3> HIDE DEF names
    <3>2. Elements(more) = Elements(s.order) \cup {name}
      BY <1>0, <2>11, Appended
    <3> QED
      <4>1. s.order \in Seq(names)
        BY <1>0
      <4> QED
        BY <2>6, <2>11, <3>1, <3>2, <4>1
  <2>13. PICK now : now = parents \o rest
    OBVIOUS
  <2>14. now \in Seq(names) /\ Elements(now) = Elements(parents) \cup Elements(rest)
    <3> HIDE DEF names
    <3> QED
      BY <2>8, <2>10, <2>13, Concatenated
  <2>15. dfs(inherits, s) = [order |-> more, pending |-> now]
    <3>1. dfs(inherits, s) = IF calls = {} THEN s
            ELSE [order |-> Append(s.order, s.pending[Least(calls)]),
                  pending |-> (IF s.pending[Least(calls)] \in DOMAIN inherits
                               THEN inherits[s.pending[Least(calls)]] ELSE <<>>)
                              \o SubSeq(s.pending, Least(calls) + 1, Len(s.pending))]
      BY DEF dfs
    <3> HIDE DEF calls
    <3> QED
      BY <1>2, <2>2, <2>4, <2>7, <2>9, <2>11, <2>13, <3>1
  <2> HIDE DEF names, calls
  <2>16. \A j, k \in DOMAIN more : more[j] = more[k] => j = k
    <3>1. \A j \in 1..Len(s.order) : more[j] # name
      BY <2>1, <2>5, <2>12 DEF Elements
    <3>2. \A j \in DOMAIN more : j = Len(s.order) + 1 \/ j \in 1..Len(s.order)
      BY <2>1, <2>12
    <3> QED
      BY <1>0, <2>1, <2>12, <3>1, <3>2
  <2>17. more # <<>> /\ more[1] = initial
    <3>1. CASE s.order = <<>>
      <4>1. s.pending = <<initial>> /\ Len(s.order) = 0
        BY <1>0, <3>1
      <4>2. DOMAIN s.pending = {1} /\ s.pending[1] = initial
        BY <4>1
      <4> QED
        <5>1. i = 1 /\ name = initial
          BY <2>4, <2>5, <4>2
        <5>2. more[1] = name /\ DOMAIN more = 1..1
          BY <2>12, <4>1
        <5> QED
          BY <5>1, <5>2
    <3>2. CASE s.order # <<>>
      <4>1. 1 \in 1..Len(s.order)
        <5>1. \A T : \A q \in Seq(T) : q # <<>> => 1 \in 1..Len(q)
          OBVIOUS
        <5> QED
          BY <1>0, <3>2, <5>1
      <4>2. more[1] = s.order[1]
        BY <2>12, <4>1
      <4>3. s.order[1] = initial
        BY <1>0, <3>2
      <4> QED
        BY <2>1, <2>12, <4>2, <4>3
    <3> QED
      BY <3>1, <3>2
  <2>18. Elements(s.pending) \subseteq Elements(more) \cup Elements(now) \cup {""}
    <3> SUFFICES ASSUME NEW j \in DOMAIN s.pending
                 PROVE  s.pending[j] \in Elements(more) \cup Elements(now) \cup {""}
      BY DEF Elements
    <3>1. CASE j < i
      BY <2>5, <2>12, <3>1
    <3>2. CASE j = i
      BY <2>4, <2>12, <3>2
    <3>3. CASE i < j
      BY <2>10, <2>14, <3>3
    <3>4. j < i \/ j = i \/ i < j
      <4>1. \A m \in Nat : \A k, l \in 1..m : k < l \/ k = l \/ l < k
        OBVIOUS
      <4>2. i \in DOMAIN s.pending /\ j \in DOMAIN s.pending
        BY <2>5
      <4> QED
        BY <2>1, <4>1, <4>2
    <3> QED
      BY <3>1, <3>2, <3>3, <3>4
  <2>19. \A t \in Elements(more) :
            ParentsOf(inherits, t) \subseteq Elements(more) \cup Elements(now) \cup {""}
    <3>1. ParentsOf(inherits, name) \subseteq Elements(now)
      BY <2>8, <2>14
    <3> QED
      BY <1>0, <2>12, <2>18, <3>1
  <2>20. "" \notin Elements(more)
    BY <1>0, <2>5, <2>12
  <2>21. ASSUME NEW S, initial \in S, Closed(inherits, S)
         PROVE  Elements(more) \cup Elements(now) \subseteq S
    <3>1. Elements(s.order) \subseteq S /\ Elements(s.pending) \subseteq S
      BY <1>0, <2>21
    <3>2. name \in S
      BY <2>4, <2>5, <3>1 DEF Elements
    <3>3. Elements(parents) \subseteq S
      BY <2>8, <2>21, <3>2 DEF Closed
    <3>4. Elements(rest) \subseteq Elements(s.pending)
      BY <2>10 DEF Elements
    <3> QED
      BY <2>12, <2>14, <3>1, <3>2, <3>3, <3>4
  <2>22. n + 1 <= Len(more)
    <3>1. ~Returned(s)
      BY <2>4, <2>5 DEF Returned
    <3>2. n <= Len(s.order)
      BY <1>0, <3>1
    <3> QED
      BY <2>1, <2>12, <3>2
  <2>23. dfs(inherits, s).order = more /\ dfs(inherits, s).pending = now
    BY <2>15
  <2> QED
    BY <2>12, <2>14, <2>16, <2>17, <2>19, <2>20, <2>21, <2>22, <2>23 DEF Traversal, names
<1> QED
  BY <1>1, <1>2

\* With as many names in the order as there are, nothing is left to call.
LEMMA TraversalEnds ==
    ASSUME NEW inherits, NEW initial, KeptThemes(inherits, initial), NEW s,
           NEW n \in Nat, n = Finite!Cardinality(ThemeNames(inherits, initial)),
           Traversal(inherits, initial, n, s)
    PROVE  Returned(s)
<1> DEFINE names == ThemeNames(inherits, initial)
<1> SUFFICES ASSUME n <= Len(s.order) PROVE Returned(s)
  BY DEF Traversal
<1>1. s.order \in Seq(names) /\ s.pending \in Seq(names)
  BY DEF Traversal
<1> DEFINE all == Len(s.order)
<1>2. /\ all \in Nat /\ DOMAIN s.order = 1..all
      /\ s.order \in [1..all -> names] /\ Elements(s.pending) \subseteq names
  <2>1. \A T : \A q \in Seq(T) :
          /\ Len(q) \in Nat /\ DOMAIN q = 1..Len(q)
          /\ q \in [1..Len(q) -> T] /\ \A i \in DOMAIN q : q[i] \in T
    OBVIOUS
  <2> HIDE DEF names
  <2> QED
    BY <1>1, <2>1 DEF Elements
<1>3. s.order \in Finite!Injection(1..all, names)
  <2>1. \A i, j \in 1..all : s.order[i] = s.order[j] => i = j
    BY <1>2 DEF Traversal
  <2> HIDE DEF names, all
  <2> QED
    BY <1>2, <2>1 DEF Finite!Injection, Finite!IsInjective
<1>4. Finite!IsFiniteSet(names)
  BY DEF KeptThemes
<1>5. Finite!Cardinality(1..all) = all
  <2>1. Finite!Cardinality(1..all) = IF 1 > all THEN 0 ELSE all - 1 + 1
    <3> HIDE DEF all
    <3> QED
      BY <1>2, Finite!FS_Interval
  <2> HIDE DEF all
  <2> QED
    BY <1>2, <2>1
<1>6. s.order \in Finite!Surjection(1..all, names)
  <2> HIDE DEF names, all
  <2>1. /\ Finite!Cardinality(1..all) <= Finite!Cardinality(names)
        /\ Finite!Cardinality(1..all) = Finite!Cardinality(names)
             <=> s.order \in Finite!Surjection(1..all, names)
    BY <1>3, <1>4, Finite!FS_Injection
  <2>2. all = n
    BY <1>2, <1>5, <2>1 DEF names, all
  <2> QED
    BY <1>5, <2>1, <2>2 DEF names
<1>7. names \subseteq Elements(s.order)
  <2>1. \A t \in names : \E i \in 1..all : s.order[i] = t
    <3> HIDE DEF names, all
    <3> QED
      BY <1>6 DEF Finite!Surjection
  <2> QED
    BY <1>2, <2>1 DEF Elements
<1> HIDE DEF names
<1> QED
  BY <1>2, <1>7 DEF Returned, Elements

\* What resolveThemeChain has to return: the theme first, every theme that can
\* be reached from it, and hicolor, which comes last if it is none of them.
IsChain(chain, theme, reachable) ==
    /\ IsSequence(chain) /\ chain # <<>> /\ chain[1] = theme
    /\ Elements(chain) = reachable \cup {Hicolor}
    /\ Hicolor \notin reachable =>
         \A k \in DOMAIN chain : chain[k] = Hicolor => \A j \in DOMAIN chain : j <= k

\* The walk over the parents: it ends, and has seen what can be reached.
LEMMA OrderIs ==
    ASSUME NEW themes, AreIndexFiles(themes), NEW theme, Nonempty(theme),
           NEW inherits, inherits = loadThemesOnce(themes), NEW order,
           order = visited(inherits, theme)[Cardinality(ThemeNames(inherits, theme))].order
    PROVE  /\ order \in Seq(ThemeNames(inherits, theme)) /\ order # <<>>
           /\ order[1] = theme /\ Elements(order) = Reachable(themes, theme)
<1> DEFINE all == Cardinality(ThemeNames(inherits, theme))
           after == visited(inherits, theme)
<1>1. KeptThemes(inherits, theme) /\ ThemeNames(inherits, theme) \subseteq Mentioned(themes, theme)
  BY ThemesKept
<1>2. all \in Nat /\ all = Finite!Cardinality(ThemeNames(inherits, theme))
  BY <1>1, CardinalityIs, Finite!FS_CardinalityType DEF KeptThemes
<1>3. Traversal(inherits, theme, all, after[all])
  <2> DEFINE Good(n) == Traversal(inherits, theme, n, after[n])
             S == {n \in Nat : n <= all => Good(n)}
  <2>0. after[0] = DfsStart(theme) /\ \A n \in Nat : n + 1 <= all =>
                                        after[n + 1] = dfs(inherits, after[n])
    BY <1>2, VisitedIs
  <2>1. all \in Nat
    BY <1>2
  <2> HIDE DEF after, all
  <2>2. Good(0)
    BY <2>0, TraversalStarts
  <2>3. ASSUME NEW n \in Nat, n + 1 <= all, Good(n) PROVE Good(n + 1)
    <3>1. Traversal(inherits, theme, n, after[n])
      BY <2>3
    <3>2. after[n + 1] = dfs(inherits, after[n])
      BY <2>0, <2>3
    <3> QED
      BY <1>1, <3>1, <3>2, TraversalContinues
  <2> HIDE DEF Good
  <2>4. 0 \in S
    BY <2>2
  <2>5. \A n \in Nat : n \in S => n + 1 \in S
    BY <2>1, <2>3
  <2>6. Nat \subseteq S
    <3> HIDE DEF S
    <3> QED
      BY <2>4, <2>5, Induct
  <2>7. Good(all)
    BY <2>1, <2>6
  <2> QED
    BY <2>7 DEF Good
<1>4. PICK s : s = after[all]
  OBVIOUS
<1>5. order = s.order /\ Traversal(inherits, theme, all, s)
  BY <1>3, <1>4
<1>6. Returned(s)
  <2> HIDE DEF all
  <2> QED
    BY <1>1, <1>2, <1>5, TraversalEnds
<1> HIDE DEF all, after
<1>7. order \in Seq(ThemeNames(inherits, theme))
  BY <1>5 DEF Traversal
<1>8. order # <<>> /\ order[1] = theme
  <2>1. CASE order = <<>>
    <3>1. s.order = <<>> /\ s.pending = <<theme>>
      BY <1>5, <2>1 DEF Traversal
    <3>2. Elements(<<>>) = {} /\ 1 \in DOMAIN <<theme>> /\ <<theme>>[1] = theme
      BY DEF Elements
    <3>3. FALSE
      BY <1>1, <1>6, <3>1, <3>2 DEF Returned, KeptThemes, Nonempty
    <3> QED
      BY <3>3
  <2>2. CASE order # <<>>
    BY <1>5, <2>2 DEF Traversal
  <2> QED
    BY <2>1, <2>2
<1>9. theme \in Elements(order)
  <2>1. \A T : \A q \in Seq(T) : q # <<>> => 1 \in 1..Len(q) /\ DOMAIN q = 1..Len(q)
    OBVIOUS
  <2>2. 1 \in DOMAIN order
    BY <1>7, <1>8, <2>1
  <2> QED
    BY <1>8, <2>2 DEF Elements
<1>10. \A t : ParentsOf(inherits, t) = Parents(themes, t) /\ "" \notin Parents(themes, t)
  <2>1. \A t : ParentsOf(inherits, t) = Parents(themes, t)
    BY ThemesLoaded
  <2>2. \A t \in DOMAIN inherits : "" \notin Elements(inherits[t])
    <3>1. \A t \in DOMAIN inherits :
            \E i \in DOMAIN themes : inherits[t] = Declared(themes[i].lines).Inherits
      BY ThemesLoaded
    <3>2. \A i \in DOMAIN themes : "" \notin Elements(Declared(themes[i].lines).Inherits)
      BY DeclaredIs DEF AreIndexFiles
    <3> QED
      BY <3>1, <3>2
  <2> QED
    BY <2>1, <2>2 DEF ParentsOf
<1>11. \A t \in Elements(order) : Parents(themes, t) \subseteq Elements(order)
  <2>1. Elements(s.pending) \subseteq Elements(order) \cup {""}
    BY <1>5, <1>6 DEF Returned, Elements
  <2>2. \A t \in Elements(order) :
          ParentsOf(inherits, t) \subseteq Elements(s.order) \cup Elements(s.pending) \cup {""}
    BY <1>5 DEF Traversal
  <2> QED
    BY <1>5, <1>10, <2>1, <2>2
<1>12. Elements(order) \subseteq Mentioned(themes, theme)
  <2>1. \A T : \A q \in Seq(T) : Elements(q) \subseteq T
    BY DEF Elements
  <2> QED
    BY <1>1, <1>7, <2>1
<1>13. ASSUME NEW S, theme \in S, \A t \in S : Parents(themes, t) \subseteq S
       PROVE  Elements(order) \subseteq S
  <2>1. Closed(inherits, S)
    BY <1>10, <1>13 DEF Closed
  <2> QED
    BY <1>5, <1>13, <2>1 DEF Traversal
<1>14. Reachable(themes, theme) =
         {t \in Mentioned(themes, theme) :
            \A S \in SUBSET Mentioned(themes, theme) :
                theme \in S /\ (\A u \in S : Parents(themes, u) \subseteq S) => t \in S}
  BY DEF Reachable, Mentioned
<1>15. Elements(order) \subseteq Reachable(themes, theme)
  BY <1>12, <1>13, <1>14
<1>16. Reachable(themes, theme) \subseteq Elements(order)
  BY <1>9, <1>11, <1>12, <1>14
<1> QED
  BY <1>7, <1>8, <1>15, <1>16

\* The chain begins with the theme, holds what can be reached from it however
\* the index files refer to each other, and hicolor, last if nothing names it.
THEOREM ChainOfThemes ==
    \A themes, theme : AreIndexFiles(themes) /\ Nonempty(theme) =>
        IsChain(resolveThemeChain(loadThemesOnce(themes), theme), theme,
                Reachable(themes, theme))
<1> SUFFICES ASSUME NEW themes, NEW theme, AreIndexFiles(themes), Nonempty(theme)
             PROVE  IsChain(resolveThemeChain(loadThemesOnce(themes), theme), theme,
                            Reachable(themes, theme))
  OBVIOUS
<1>1. PICK inherits : inherits = loadThemesOnce(themes)
  OBVIOUS
<1>2. PICK order :
        order = visited(inherits, theme)[Cardinality(ThemeNames(inherits, theme))].order
  OBVIOUS
<1>3. PICK names : names = ThemeNames(inherits, theme)
  OBVIOUS
<1>4. /\ order \in Seq(names) /\ order # <<>>
      /\ order[1] = theme /\ Elements(order) = Reachable(themes, theme)
  BY <1>1, <1>2, <1>3, OrderIs
<1>5. PICK chain : chain = resolveThemeChain(inherits, theme)
  OBVIOUS
<1>6. chain = IF Hicolor \in Elements(order) THEN order ELSE Append(order, Hicolor)
  BY <1>2, <1>5 DEF resolveThemeChain
<1>7. CASE Hicolor \in Elements(order)
  BY <1>1, <1>4, <1>5, <1>6, <1>7, SequenceIs DEF IsChain
<1>8. CASE Hicolor \notin Elements(order)
  <2>1. chain = Append(order, Hicolor)
    BY <1>6, <1>8
  <2>2. /\ chain \in Seq(names \cup {Hicolor}) /\ chain # <<>> /\ Len(order) \in Nat
        /\ DOMAIN order = 1..Len(order) /\ DOMAIN chain = 1..(Len(order) + 1)
        /\ \A j \in 1..Len(order) : chain[j] = order[j]
        /\ 1 \in 1..Len(order)
    <3>1. \A T : \A q \in Seq(T) : q # <<>> => 1 \in 1..Len(q)
      OBVIOUS
    <3>2. \A T, q, x : q \in Seq(T) =>
            /\ Len(q) \in Nat /\ DOMAIN q = 1..Len(q) /\ DOMAIN Append(q, x) = 1..(Len(q) + 1)
            /\ \A j \in 1..Len(q) : Append(q, x)[j] = q[j]
      OBVIOUS
    <3>3. order \in Seq(names \cup {Hicolor})
      <4>1. \A T, U : \A q \in Seq(T) : q \in Seq(T \cup U)
        OBVIOUS
      <4> QED
        BY <1>4, <4>1
    <3>4. \A T, q, x : q \in Seq(T) /\ x \in T => Append(q, x) \in Seq(T)
      OBVIOUS
    <3>5. chain \in Seq(names \cup {Hicolor})
      BY <2>1, <3>3, <3>4
    <3>6. 1 \in 1..Len(order)
      BY <1>4, <3>1
    <3>7. /\ Len(order) \in Nat /\ DOMAIN order = 1..Len(order)
          /\ DOMAIN chain = 1..(Len(order) + 1)
          /\ \A j \in 1..Len(order) : chain[j] = order[j]
      BY <1>4, <2>1, <3>2
    <3>8. chain # <<>>
      BY <3>7
    <3> QED
      BY <3>5, <3>6, <3>7, <3>8
  <2>3. Elements(chain) = Elements(order) \cup {Hicolor}
    BY <1>4, <1>6, <1>8, Appended
  <2>4. \A k \in DOMAIN chain : chain[k] = Hicolor => \A j \in DOMAIN chain : j <= k
    <3>1. \A k \in 1..Len(order) : chain[k] # Hicolor
      BY <1>8, <2>2 DEF Elements
    <3>2. \A k \in 1..(Len(order) + 1) : k \notin 1..Len(order) =>
            \A j \in 1..(Len(order) + 1) : j <= k
      BY <2>2
    <3> QED
      BY <2>2, <3>1, <3>2
  <2>5. IsSequence(chain) /\ chain[1] = theme
    BY <1>4, <2>2, SequenceIs
  <2> QED
    BY <1>1, <1>4, <1>5, <2>2, <2>3, <2>4, <2>5 DEF IsChain
<1> QED
  BY <1>7, <1>8

-----------------------------------------------------------------------------
(* The icon that is served.                                                 *)

\* Files in the order of a walk over the base directories.
AreIcons(files) ==
    /\ IsSequence(files)
    /\ \A i \in DOMAIN files :
         /\ files[i].base \in Nat \ {0}
         /\ files[i].dirs \in Seq(Nat \cup {Scalable, Symbolic})
         /\ \A j \in 1..i : files[j].base <= files[i].base

\* A size is that of a directory, or none.
LEMMA SizeIs ==
    ASSUME NEW dirs \in Seq(Nat \cup {Scalable, Symbolic})
    PROVE  sizeFromParts(dirs) \in Nat \cup {Scalable}
<1> DEFINE sized == {i \in DOMAIN dirs : dirs[i] = Scalable \/ dirs[i] > 0}
<1>1. sizeFromParts(dirs) = IF Symbolic \in Elements(dirs) \/ sized = {} THEN 0
                            ELSE dirs[Least(sized)]
  BY DEF sizeFromParts
<1>2. CASE sized = {}
  BY <1>1, <1>2
<1>3. CASE sized # {}
  <2>1. sized \in SUBSET Nat
    OBVIOUS
  <2>2. Least(sized) \in sized
    <3> HIDE DEF sized
    <3> QED
      BY <1>3, <2>1, LeastIs
  <2>3. dirs[Least(sized)] \in Nat \cup {Scalable}
    BY <2>2 DEF Scalable, Symbolic
  <2> QED
    BY <1>1, <2>3
<1> QED
  BY <1>2, <1>3

\* The first file of those at some places.
LEMMA FirstIs ==
    ASSUME NEW files, AreIcons(files), NEW places \in SUBSET DOMAIN files, places # {}
    PROVE  \E k \in places : /\ first(files, places) = files[k] /\ files[k] # NotFound
                             /\ \A j \in places : files[k].base <= files[j].base
<1>1. DOMAIN files \in SUBSET Nat /\ \A j, k \in DOMAIN files : k <= j => k \in 1..j
  <2>1. \A T : \A q \in Seq(T) : Len(q) \in Nat /\ DOMAIN q = 1..Len(q)
    OBVIOUS
  <2>2. Len(files) \in Nat /\ DOMAIN files = 1..Len(files)
    BY <2>1 DEF AreIcons, IsSequence
  <2> QED
    BY <2>2
<1>2. PICK k : k = Least(places)
  OBVIOUS
<1>3. k \in places /\ \A j \in places : k <= j
  BY <1>1, <1>2, LeastIs
<1>4. first(files, places) = files[k]
  BY <1>2 DEF first
<1>5. files[k] # NotFound
  <2>1. files[k].base # 0
    BY <1>3 DEF AreIcons
  <2>2. NotFound.base = 0
    BY DEF NotFound
  <2> QED
    BY <2>1, <2>2
<1>6. \A j \in places : files[k].base <= files[j].base
  BY <1>1, <1>3 DEF AreIcons
<1> QED
  BY <1>3, <1>4, <1>5, <1>6

\* Of sizes that there are, the one that is looked for.
Wanted(sizes, preferred) ==
    LET bigger == {s \in sizes : s > preferred}
        smaller == {s \in sizes : 0 < s /\ s < preferred}
    IN IF preferred \in sizes THEN preferred
       ELSE IF Scalable \in sizes THEN Scalable
       ELSE IF bigger # {} THEN Least(bigger)
       ELSE IF smaller # {} THEN Greatest(smaller)
       ELSE 0

\* None of the others is better, as the comment on Find ranks them.
LEMMA WantedIsBest ==
    ASSUME NEW sizes \in SUBSET (Nat \cup {Scalable}), 0 \notin sizes, sizes # {},
           NEW preferred \in Nat \ {0}
    PROVE  /\ Wanted(sizes, preferred) \in sizes
           /\ \A s \in sizes : ~Better(s, Wanted(sizes, preferred), preferred)
<1> DEFINE bigger == {s \in sizes : s > preferred}
           smaller == {s \in sizes : 0 < s /\ s < preferred}
           wanted == Wanted(sizes, preferred)
<1>0. Scalable = -1
  BY DEF Scalable
<1>1. wanted = IF preferred \in sizes THEN preferred
               ELSE IF Scalable \in sizes THEN Scalable
               ELSE IF bigger # {} THEN Least(bigger)
               ELSE IF smaller # {} THEN Greatest(smaller)
               ELSE 0
  BY DEF Wanted
<1> HIDE DEF wanted
<1>2. CASE preferred \in sizes
  <2>1. wanted = preferred
    BY <1>1, <1>2
  <2> QED
    BY <1>0, <1>2, <2>1 DEF Better, wanted
<1>3. CASE preferred \notin sizes /\ Scalable \in sizes
  <2>1. wanted = Scalable
    BY <1>1, <1>3
  <2> QED
    BY <1>0, <1>3, <2>1 DEF Better, wanted
<1>4. CASE preferred \notin sizes /\ Scalable \notin sizes /\ bigger # {}
  <2>1. wanted = Least(bigger)
    BY <1>1, <1>4
  <2>2. bigger \in SUBSET Nat
    <3>1. \A s \in sizes : s \in Nat
      BY <1>4
    <3> QED
      BY <3>1
  <2>3. wanted \in bigger /\ \A s \in bigger : wanted <= s
    <3> HIDE DEF bigger
    <3> QED
      BY <1>4, <2>1, <2>2, LeastIs
  <2>4. wanted \in sizes /\ wanted \in Nat /\ wanted > preferred
    BY <2>2, <2>3
  <2>5. \A s \in sizes : s # preferred /\ s # Scalable /\ (s > preferred => wanted <= s)
    BY <1>4, <2>3
  <2> QED
    BY <1>0, <2>4, <2>5 DEF Better, wanted
<1>5. CASE preferred \notin sizes /\ Scalable \notin sizes /\ bigger = {}
  <2>1. \A s \in sizes : s \in Nat /\ 0 < s /\ s < preferred
    BY <1>0, <1>5
  <2>2. smaller = sizes
    BY <2>1
  <2>3. wanted = Greatest(sizes)
    BY <1>1, <1>5, <2>2
  <2>4. sizes \in SUBSET (0..preferred)
    BY <2>1
  <2>5. wanted \in sizes /\ \A s \in sizes : s <= wanted
    BY <2>3, <2>4, GreatestIs
  <2> QED
    BY <1>0, <2>1, <2>5 DEF Better, wanted
<1> QED
  BY <1>2, <1>3, <1>4, <1>5

\* Of the files of a theme the one that pickCandidate takes.
LEMMA CandidateIsBest ==
    ASSUME NEW files, AreIcons(files), NEW theme, NEW preferred \in Nat \ {0},
           NEW cands, cands = collectCandidates(files, theme), cands # {}
    PROVE  \E k \in cands :
             /\ pickCandidate(files, cands, preferred) = files[k] /\ files[k] # NotFound
             /\ \A j \in cands :
                  /\ ~Better(sizeFromParts(files[j].dirs), sizeFromParts(files[k].dirs), preferred)
                  /\ sizeFromParts(files[j].dirs) = sizeFromParts(files[k].dirs) =>
                         files[k].base <= files[j].base
<1> DEFINE size(i) == sizeFromParts(files[i].dirs)
           sizes == {size(i) : i \in cands}
           places(w) == {i \in cands : size(i) = w}
<1>1. cands \subseteq DOMAIN files /\ \A i \in cands : size(i) # 0
  BY DEF collectCandidates
<1>2. \A i \in cands : size(i) \in Nat \cup {Scalable}
  BY <1>1, SizeIs DEF AreIcons
<1>3. pickCandidate(files, cands, preferred) = first(files, places(Wanted(sizes, preferred)))
  BY DEF pickCandidate, Wanted
<1> HIDE DEF size
<1>4. sizes \in SUBSET (Nat \cup {Scalable}) /\ 0 \notin sizes /\ sizes # {}
  BY <1>1, <1>2
<1>5. PICK w : w = Wanted(sizes, preferred)
  OBVIOUS
<1>6. w \in sizes /\ \A s \in sizes : ~Better(s, w, preferred)
  <2> HIDE DEF sizes
  <2> QED
    BY <1>4, <1>5, WantedIsBest
<1>7. places(w) \in SUBSET DOMAIN files /\ places(w) # {}
  BY <1>1, <1>6
<1>8. PICK k \in places(w) : /\ first(files, places(w)) = files[k] /\ files[k] # NotFound
                             /\ \A j \in places(w) : files[k].base <= files[j].base
  <2> HIDE DEF places
  <2> QED
    BY <1>7, FirstIs
<1>9. k \in cands /\ size(k) = w
  OBVIOUS
<1>10. \A j \in cands : ~Better(size(j), size(k), preferred)
  BY <1>6, <1>9
<1>11. \A j \in cands : size(j) = size(k) => files[k].base <= files[j].base
  BY <1>8, <1>9
<1> QED
  BY <1>3, <1>5, <1>8, <1>9, <1>10, <1>11 DEF size

\* The bounds on the size that a request may ask for.
LEMMA SizeIsClamped ==
    ASSUME NEW n \in Int
    PROVE  /\ clampInt(n) \in Nat \ {0}
           /\ Greatest({16, Least({512, n})}) = clampInt(n)
<1>1. Least({512, n}) = IF n < 512 THEN n ELSE 512
  <2>1. CASE n < 512
    <3>1. \A x \in {512, n} : (\A y \in {512, n} : x <= y) <=> x = n
      BY <2>1
    <3> QED
      BY <2>1, <3>1 DEF Least
  <2>2. CASE ~(n < 512)
    <3>1. \A x \in {512, n} : (\A y \in {512, n} : x <= y) <=> x = 512
      BY <2>2
    <3> QED
      BY <2>2, <3>1 DEF Least
  <2> QED
    BY <2>1, <2>2
<1>2. PICK m : m = Least({512, n})
  OBVIOUS
<1>3. m \in Int /\ m = IF n < 512 THEN n ELSE 512
  BY <1>1, <1>2
<1>4. Greatest({16, m}) = IF m < 16 THEN 16 ELSE m
  <2>1. CASE m < 16
    <3>1. \A x \in {16, m} : (\A y \in {16, m} : y <= x) <=> x = 16
      BY <1>3, <2>1
    <3> QED
      BY <2>1, <3>1 DEF Greatest
  <2>2. CASE ~(m < 16)
    <3>1. \A x \in {16, m} : (\A y \in {16, m} : y <= x) <=> x = m
      BY <1>3, <2>2
    <3> QED
      BY <2>2, <3>1 DEF Greatest
  <2> QED
    BY <2>1, <2>2
<1> QED
  BY <1>2, <1>3, <1>4 DEF clampInt

\* What Promised asks of an answer, with the sizes and the files named.
Usable(f) == f.theme \notin {"", "/"} /\ sizeFromParts(f.dirs) # 0

FromPixmaps(answer, files) ==
    IF \E f \in Elements(files) : f.theme = ""
    THEN answer.status = 200 /\ answer.file \in Elements(files) /\ answer.file.theme = ""
    ELSE answer.status = 404

FromTheme(answer, wanted, files, theme, reachable) ==
    LET r == answer.file
    IN /\ answer.status = 200
       /\ r \in Elements(files) /\ Usable(r) /\ r.theme \in reachable \cup {Hicolor}
       /\ (\E f \in Elements(files) : Usable(f) /\ f.theme = theme) => r.theme = theme
       /\ r.theme = Hicolor /\ Hicolor \notin reachable =>
              \A f \in Elements(files) : Usable(f) => f.theme \notin reachable
       /\ \A f \in Elements(files) : Usable(f) /\ f.theme = r.theme =>
              /\ ~Better(sizeFromParts(f.dirs), sizeFromParts(r.dirs), wanted)
              /\ sizeFromParts(f.dirs) = sizeFromParts(r.dirs) => r.base <= f.base

\* An answer of one of the two kinds is one that is promised.
LEMMA PromisedIs ==
    ASSUME NEW answer, NEW query \in Int, NEW files, NEW theme, NEW reachable,
           IF \A f \in Elements(files) : Usable(f) => f.theme \notin reachable \cup {Hicolor}
           THEN FromPixmaps(answer, files)
           ELSE FromTheme(answer, clampInt(query), files, theme, reachable)
    PROVE  Promised(answer, query, files, theme, reachable)
<1>1. Greatest({16, Least({512, query})}) = clampInt(query)
  BY SizeIsClamped
<1> DEFINE usable == {f \in Elements(files) :
                        f.theme \notin {"", "/"} /\ sizeFromParts(f.dirs) # 0}
           most == Greatest({16, Least({512, query})})
<1>2. \A f : f \in usable <=> f \in Elements(files) /\ Usable(f)
  BY DEF Usable
<1>3. Promised(answer, query, files, theme, reachable) <=>
        LET size(f) == sizeFromParts(f.dirs)
            wanted == most
            r == answer.file
        IN IF \A f \in usable : f.theme \notin reachable \cup {Hicolor}
           THEN IF \E f \in Elements(files) : f.theme = ""
                THEN answer.status = 200 /\ r \in Elements(files) /\ r.theme = ""
                ELSE answer.status = 404
           ELSE /\ answer.status = 200
                /\ r \in usable /\ r.theme \in reachable \cup {Hicolor}
                /\ (\E f \in usable : f.theme = theme) => r.theme = theme
                /\ r.theme = Hicolor /\ Hicolor \notin reachable =>
                       \A f \in usable : f.theme \notin reachable
                /\ \A f \in usable : f.theme = r.theme =>
                       /\ ~Better(size(f), size(r), wanted)
                       /\ size(f) = size(r) => r.base <= f.base
  BY DEF Promised
<1>4. most = clampInt(query)
  BY <1>1
<1> HIDE DEF usable, most
<1>5. CASE \A f \in Elements(files) : Usable(f) => f.theme \notin reachable \cup {Hicolor}
  <2>1. FromPixmaps(answer, files)
    BY <1>5
  <2>2. \A f \in usable : f.theme \notin reachable \cup {Hicolor}
    BY <1>2, <1>5
  <2> QED
    BY <1>3, <2>1, <2>2 DEF FromPixmaps
<1>6. CASE ~\A f \in Elements(files) : Usable(f) => f.theme \notin reachable \cup {Hicolor}
  <2>1. FromTheme(answer, clampInt(query), files, theme, reachable)
    BY <1>6
  <2>2. ~\A f \in usable : f.theme \notin reachable \cup {Hicolor}
    BY <1>2, <1>6
  <2> QED
    BY <1>2, <1>3, <1>4, <2>1, <2>2 DEF FromTheme
<1> QED
  BY <1>5, <1>6

\* A request says what the lemmas ask for; none of the themes is that of the
\* pixmaps, nor of a path.
IsThemeName(t) == t \notin {"", "/"}
AreThemes(reachable) == \A t \in reachable \cup {Hicolor} : IsThemeName(t)

\* Neither is a theme that can be reached from that of a request.
LEMMA RequestIs ==
    ASSUME NEW r, IsIconRequest(r)
    PROVE  /\ AreIcons(r.files) /\ AreIndexFiles(r.themes) /\ Nonempty(ThemeOf(r.theme))
           /\ r.query \in Int
           /\ AreThemes(Reachable(r.themes, ThemeOf(r.theme)))
<1>1. AreIcons(r.files) /\ AreIndexFiles(r.themes) /\ r.query \in Int
  BY DEF IsIconRequest, AreIcons, AreIndexFiles
<1>2. ThemeOf(r.theme) \notin {"", "/"} /\ Hicolor \notin {"", "/"}
  BY DEF IsIconRequest, ThemeOf, Hicolor
<1>3. ASSUME NEW i \in DOMAIN r.themes
      PROVE  /\ "" \notin Elements(Declared(r.themes[i].lines).Inherits)
             /\ "/" \notin Elements(Declared(r.themes[i].lines).Inherits)
  BY DeclaredIs DEF IsIconRequest
<1>4. Reachable(r.themes, ThemeOf(r.theme)) \subseteq
        {ThemeOf(r.theme)} \cup UNION {Elements(Declared(r.themes[i].lines).Inherits) :
                                         i \in DOMAIN r.themes}
  BY DEF Reachable
<1>5. \A t \in Reachable(r.themes, ThemeOf(r.theme)) : t \notin {"", "/"}
  BY <1>2, <1>3, <1>4
<1> QED
  BY <1>1, <1>2, <1>5 DEF Nonempty, IsThemeName, AreThemes

\* Where a theme of the chain has files, and where it has none.
LEMMA FoundInTheme ==
    ASSUME NEW files, AreIcons(files), NEW theme, NEW preferred \in Nat \ {0},
           IsThemeName(theme), NEW r,
           r = pickCandidate(files, collectCandidates(files, theme), preferred)
    PROVE  /\ r = NotFound => \A f \in Elements(files) : Usable(f) => f.theme # theme
           /\ r # NotFound =>
                /\ r \in Elements(files) /\ Usable(r) /\ r.theme = theme
                /\ \A f \in Elements(files) : Usable(f) /\ f.theme = theme =>
                     /\ ~Better(sizeFromParts(f.dirs), sizeFromParts(r.dirs), preferred)
                     /\ sizeFromParts(f.dirs) = sizeFromParts(r.dirs) => r.base <= f.base
<1>1. PICK cands : cands = collectCandidates(files, theme)
  OBVIOUS
<1>2. \A i : i \in cands <=> i \in DOMAIN files /\ Usable(files[i]) /\ files[i].theme = theme
  BY <1>1 DEF collectCandidates, Usable, IsThemeName
<1>3. CASE cands = {}
  <2>1. r = NotFound
    <3>1. r = pickCandidate(files, {}, preferred)
      BY <1>1, <1>3
    <3> QED
      BY <3>1 DEF pickCandidate, first
  <2>2. \A f \in Elements(files) : Usable(f) => f.theme # theme
    BY <1>2, <1>3 DEF Elements
  <2> QED
    BY <2>1, <2>2
<1>4. CASE cands # {}
  <2>1. PICK k \in cands :
             /\ pickCandidate(files, cands, preferred) = files[k] /\ files[k] # NotFound
             /\ \A j \in cands :
                  /\ ~Better(sizeFromParts(files[j].dirs), sizeFromParts(files[k].dirs), preferred)
                  /\ sizeFromParts(files[j].dirs) = sizeFromParts(files[k].dirs) =>
                         files[k].base <= files[j].base
    BY <1>1, <1>4, CandidateIsBest
  <2>2. r = files[k]
    BY <1>1, <2>1
  <2>3. r # NotFound /\ r \in Elements(files) /\ Usable(r) /\ r.theme = theme
    BY <1>2, <2>1, <2>2 DEF Elements
  <2>4. ASSUME NEW f \in Elements(files), Usable(f), f.theme = theme
        PROVE  /\ ~Better(sizeFromParts(f.dirs), sizeFromParts(r.dirs), preferred)
               /\ sizeFromParts(f.dirs) = sizeFromParts(r.dirs) => r.base <= f.base
    <3>1. PICK j \in DOMAIN files : f = files[j]
      BY DEF Elements
    <3>2. j \in cands
      BY <1>2, <2>4, <3>1
    <3> QED
      BY <2>1, <2>2, <3>1, <3>2
  <2> QED
    BY <2>3, <2>4
<1> QED
  BY <1>3, <1>4

\* What ServeIcon makes of a file that it finds, or not.
IsAnswer(answer, file) ==
    answer.file = file /\ answer.status = IF file = NotFound THEN 404 ELSE 200

\* Where no theme has the icon.
LEMMA PixmapsAreServed ==
    ASSUME NEW files, AreIcons(files), NEW answer, IsAnswer(answer, pixmapsFallback(files))
    PROVE  FromPixmaps(answer, files)
<1>1. PICK places : places = {i \in DOMAIN files : files[i].theme = ""}
  OBVIOUS
<1>2. PICK file : file = pixmapsFallback(files)
  OBVIOUS
<1>3. file = first(files, places)
  BY <1>1, <1>2 DEF pixmapsFallback
<1>4. CASE places = {}
  <2>1. file = NotFound
    BY <1>3, <1>4 DEF first
  <2>2. answer.status = 404
    BY <1>2, <2>1 DEF IsAnswer
  <2>3. ~\E f \in Elements(files) : f.theme = ""
    BY <1>1, <1>4 DEF Elements
  <2> QED
    BY <2>2, <2>3 DEF FromPixmaps
<1>5. CASE places # {}
  <2>1. places \in SUBSET DOMAIN files
    BY <1>1
  <2>2. PICK k \in places : file = files[k] /\ file # NotFound
    BY <1>3, <1>5, <2>1, FirstIs
  <2>3. answer.status = 200 /\ answer.file = file
    BY <1>2, <2>2 DEF IsAnswer
  <2>4. file \in Elements(files) /\ file.theme = ""
    BY <1>1, <2>2 DEF Elements
  <2>5. answer.file \in Elements(files) /\ answer.file.theme = ""
    BY <2>3, <2>4
  <2>6. answer.status = 200
    BY <2>3
  <2>7. \E f \in Elements(files) : f.theme = ""
    BY <2>4
  <2> QED
    BY <2>5, <2>6, <2>7 DEF FromPixmaps
<1> QED
  BY <1>4, <1>5

\* The order of the search: the chain, then the pixmaps.
Searched(file, files, chain, wanted, picked, hits) ==
    /\ \A k \in DOMAIN chain :
         picked[k] = pickCandidate(files, collectCandidates(files, chain[k]), wanted)
    /\ hits = {k \in DOMAIN chain : picked[k] # NotFound}
    /\ file = IF hits = {} THEN pixmapsFallback(files) ELSE picked[Least(hits)]

\* It yields an answer as promised.
LEMMA SearchIs ==
    ASSUME NEW files, AreIcons(files), NEW query \in Int, NEW picked, NEW theme,
           NEW reachable, NEW chain, IsChain(chain, theme, reachable), AreThemes(reachable),
           NEW hits, NEW file, Searched(file, files, chain, clampInt(query), picked, hits),
           NEW answer, IsAnswer(answer, file)
    PROVE  Promised(answer, query, files, theme, reachable)
<1>1. clampInt(query) \in Nat \ {0}
  BY SizeIsClamped
<1>2. /\ DOMAIN chain \in SUBSET Nat /\ 1 \in DOMAIN chain
      /\ \A j \in DOMAIN chain : 1 <= j /\ chain[j] \in reachable \cup {Hicolor}
  <2>1. \A T : \A q \in Seq(T) : Len(q) \in Nat /\ DOMAIN q = 1..Len(q)
    OBVIOUS
  <2>2. \A T : \A q \in Seq(T) : q # <<>> => 1 \in 1..Len(q)
    OBVIOUS
  <2>3. Len(chain) \in Nat /\ DOMAIN chain = 1..Len(chain) /\ 1 \in 1..Len(chain)
    BY <2>1, <2>2 DEF IsChain, IsSequence
  <2>4. \A j \in DOMAIN chain : chain[j] \in reachable \cup {Hicolor}
    BY DEF IsChain, Elements
  <2> QED
    BY <2>3, <2>4
<1>3. ASSUME NEW k \in DOMAIN chain
      PROVE  /\ k \notin hits => \A f \in Elements(files) : Usable(f) => f.theme # chain[k]
             /\ k \in hits =>
                  /\ picked[k] \in Elements(files) /\ Usable(picked[k]) /\ picked[k].theme = chain[k]
                  /\ \A f \in Elements(files) : Usable(f) /\ f.theme = chain[k] =>
                       /\ ~Better(sizeFromParts(f.dirs), sizeFromParts(picked[k].dirs),
                                  clampInt(query))
                       /\ sizeFromParts(f.dirs) = sizeFromParts(picked[k].dirs) =>
                            picked[k].base <= f.base
  <2>1. IsThemeName(chain[k])
    BY <1>2 DEF AreThemes
  <2>2. picked[k] = pickCandidate(files, collectCandidates(files, chain[k]), clampInt(query))
    BY DEF Searched
  <2>3. k \in hits <=> picked[k] # NotFound
    BY DEF Searched
  <2> QED
    BY <1>1, <2>1, <2>2, <2>3, FoundInTheme
<1>4. \A t \in reachable \cup {Hicolor} : \E k \in DOMAIN chain : chain[k] = t
  BY DEF IsChain, Elements
<1>5. CASE hits = {}
  <2>1. \A f \in Elements(files) : Usable(f) => f.theme \notin reachable \cup {Hicolor}
    BY <1>3, <1>4, <1>5
  <2>2. FromPixmaps(answer, files)
    <3>1. file = pixmapsFallback(files)
      BY <1>5 DEF Searched
    <3> QED
      BY <3>1, PixmapsAreServed
  <2> QED
    BY <2>1, <2>2, PromisedIs
<1>6. CASE hits # {}
  <2>1. PICK k : k = Least(hits)
    OBVIOUS
  <2>2. k \in hits /\ \A j \in hits : k <= j
    <3>1. hits \in SUBSET Nat
      BY <1>2 DEF Searched
    <3> QED
      BY <1>6, <2>1, <3>1, LeastIs
  <2>3. k \in DOMAIN chain /\ file = picked[k] /\ file # NotFound
    BY <1>6, <2>1, <2>2 DEF Searched
  <2>4. answer.status = 200 /\ answer.file = file
    BY <2>3 DEF IsAnswer
  <2>5. /\ file \in Elements(files) /\ Usable(file) /\ file.theme = chain[k]
        /\ file.theme \in reachable \cup {Hicolor}
        /\ \A f \in Elements(files) : Usable(f) /\ f.theme = file.theme =>
             /\ ~Better(sizeFromParts(f.dirs), sizeFromParts(file.dirs), clampInt(query))
             /\ sizeFromParts(f.dirs) = sizeFromParts(file.dirs) => file.base <= f.base
    BY <1>2, <1>3, <2>2, <2>3
  <2>6. ASSUME NEW j \in DOMAIN chain, NEW f \in Elements(files), Usable(f), f.theme = chain[j]
        PROVE  k <= j
    BY <1>3, <2>2, <2>6
  <2>7. (\E f \in Elements(files) : Usable(f) /\ f.theme = theme) => file.theme = theme
    <3> SUFFICES ASSUME NEW f \in Elements(files), Usable(f), f.theme = theme
                 PROVE  file.theme = theme
      OBVIOUS
    <3>1. chain[1] = theme
      BY DEF IsChain
    <3>2. k <= 1
      BY <1>2, <2>6, <3>1
    <3>3. k = 1
      BY <1>2, <2>3, <3>2
    <3> QED
      BY <2>5, <3>1, <3>3
  <2>8. file.theme = Hicolor /\ Hicolor \notin reachable =>
            \A f \in Elements(files) : Usable(f) => f.theme \notin reachable
    <3> SUFFICES ASSUME file.theme = Hicolor, Hicolor \notin reachable,
                        NEW f \in Elements(files), Usable(f), f.theme \in reachable
                 PROVE  FALSE
      OBVIOUS
    <3>1. PICK j \in DOMAIN chain : chain[j] = f.theme
      BY <1>4
    <3>2. k <= j
      BY <2>6, <3>1
    <3>3. j <= k
      BY <2>3, <2>5 DEF IsChain
    <3>4. j = k
      BY <1>2, <2>3, <3>2, <3>3
    <3> QED
      BY <2>5, <3>1, <3>4
  <2>9. ~\A f \in Elements(files) : Usable(f) => f.theme \notin reachable \cup {Hicolor}
    BY <2>5
  <2>10. FromTheme(answer, clampInt(query), files, theme, reachable)
    BY <2>4, <2>5, <2>7, <2>8 DEF FromTheme
  <2> QED
    BY <2>9, <2>10, PromisedIs
<1> QED
  BY <1>5, <1>6

\* Whatever is installed: the walk over the parents ends, and the icon that is
\* served is of the theme that comes first, and there the best for the size.
THEOREM BestIconIsServed ==
    \A r : IsIconRequest(r) => FindsTheBest(r.query, r.files, r.themes, r.theme)
<1> SUFFICES ASSUME NEW r, IsIconRequest(r)
             PROVE  FindsTheBest(r.query, r.files, r.themes, r.theme)
  OBVIOUS
<1>1. PICK query : query = r.query
  OBVIOUS
<1>2. PICK files : files = r.files
  OBVIOUS
<1>3. PICK themes : themes = r.themes
  OBVIOUS
<1>4. PICK theme : theme = ThemeOf(r.theme)
  OBVIOUS
<1>5. PICK reachable : reachable = Reachable(themes, theme)
  OBVIOUS
<1>6. PICK chain : chain = resolveThemeChain(loadThemesOnce(themes), theme)
  OBVIOUS
<1>7. /\ AreIcons(files) /\ query \in Int /\ IsChain(chain, theme, reachable)
      /\ AreThemes(reachable)
  <2>1. /\ AreIcons(files) /\ AreIndexFiles(themes) /\ Nonempty(theme) /\ query \in Int
        /\ AreThemes(Reachable(themes, theme))
    BY <1>1, <1>2, <1>3, <1>4, RequestIs
  <2> QED
    BY <1>5, <1>6, <2>1, ChainOfThemes
<1>8. PICK wanted : wanted = clampInt(query)
  OBVIOUS
<1> DEFINE best(t) == pickCandidate(files, collectCandidates(files, t), wanted)
           matching == {k \in DOMAIN chain : best(chain[k]) # NotFound}
<1>9. PICK picked : picked = [k \in DOMAIN chain |-> best(chain[k])]
  OBVIOUS
<1>10. \A k \in DOMAIN chain : picked[k] = best(chain[k])
  BY <1>9
<1>11. PICK hits : hits = matching
  OBVIOUS
<1>12. PICK file : file = IF hits = {} THEN pixmapsFallback(files) ELSE best(chain[Least(hits)])
  OBVIOUS
<1>13. hits \in SUBSET DOMAIN chain /\ hits = {k \in DOMAIN chain : picked[k] # NotFound}
  BY <1>10, <1>11
<1>14. Searched(file, files, chain, wanted, picked, hits)
  <2>1. hits # {} => Least(hits) \in DOMAIN chain
    <3>1. DOMAIN chain \in SUBSET Nat
      <4>1. \A T : \A q \in Seq(T) : Len(q) \in Nat /\ DOMAIN q = 1..Len(q)
        OBVIOUS
      <4>2. Len(chain) \in Nat /\ DOMAIN chain = 1..Len(chain)
        BY <1>7, <4>1 DEF IsChain, IsSequence
      <4> QED
        BY <4>2
    <3>2. hits \in SUBSET Nat
      BY <1>13, <3>1
    <3> QED
      BY <1>13, <3>2, LeastIs
  <2>2. file = IF hits = {} THEN pixmapsFallback(files) ELSE picked[Least(hits)]
    <3> HIDE DEF best
    <3> QED
      BY <1>10, <1>12, <2>1
  <2> QED
    BY <1>10, <1>13, <2>2 DEF Searched
<1>15. Find("name", files, themes, r.theme, wanted) = file
  <2>1. Find("name", files, themes, r.theme, wanted) =
          CASE "name" = "path" -> lookupExplicit(files)
            [] "name" = "name" /\ matching = {} -> pixmapsFallback(files)
            [] "name" = "name" /\ matching # {} -> best(chain[Least(matching)])
            [] OTHER -> NotFound
    BY <1>4, <1>6 DEF Find
  <2> HIDE DEF best, matching
  <2> QED
    BY <1>11, <1>12, <2>1
<1>16. IsAnswer(ServeIcon("name", <<query>>, files, themes, r.theme), file)
  <2>1. <<query>> # NoNumber /\ <<query>>[1] = query
    BY DEF NoNumber
  <2>2. ServeIcon("name", <<query>>, files, themes, r.theme) =
          IF file = NotFound THEN [status |-> 404, file |-> NotFound]
          ELSE [status |-> 200, file |-> file]
    BY <1>8, <1>15, <2>1 DEF ServeIcon
  <2> QED
    BY <2>2 DEF IsAnswer
<1>17. Promised(ServeIcon("name", <<query>>, files, themes, r.theme),
                query, files, theme, reachable)
  <2> HIDE DEF best, matching
  <2>1. PICK answer : answer = ServeIcon("name", <<query>>, files, themes, r.theme)
    OBVIOUS
  <2> QED
    BY <1>7, <1>8, <1>14, <1>16, <2>1, SearchIs
<1> QED
  BY <1>1, <1>2, <1>3, <1>4, <1>5, <1>17 DEF FindsTheBest

\* The requests of the runs are some of them, in every state.
THEOREM IconsServed == Spec => []IconsAreFound
<1>1. IconsAreFound
  BY BestIconIsServed, IconRequestsAssumption DEF IconsAreFound, IconLaw
<1> QED
  BY <1>1, PTL

-----------------------------------------------------------------------------
(* The catalog.                                                             *)

\* A file of the walk has a content.
LEMMA FileType ==
    ASSUME CatalogTypeOK, NEW f \in Walk
    PROVE  /\ disk[Dir(f)][Name(f)] \in Contents
           /\ IdOf[Name(f)] \in Ids
<1>1. f[1] \in DOMAIN Paths /\ f[2] \in DOMAIN Names /\ disk[Dir(f)][Name(f)] # None
  BY DEF Walk, dedupe
<1>2. Dir(f) \in Dirs /\ Name(f) \in Files
  BY <1>1 DEF Dir, Name, Dirs, Files
<1> QED
  BY <1>1, <1>2 DEF CatalogTypeOK, Ids

\* What a scan installs for it.
LEMMA EntryType ==
    ASSUME CatalogTypeOK, NEW f \in Walk, Launchable(Entry(f))
    PROVE  Entry(f) \in EntryOrNone
BY FileType DEF EntryOrNone, Entry, Launchable

LEMMA NoAppsType == NoApps \in [Ids -> EntryOrNone]
BY DEF NoApps, EntryOrNone

LEMMA CatalogStartType ==
    ASSUME disk \in Disks, server = "scanning", left = Walk,
           found = NoApps, byID = NoApps
    PROVE  CatalogTypeOK
BY NoAppsType, DisksAssumption DEF CatalogTypeOK

LEMMA CatalogType ==
    ASSUME CatalogTypeOK, CatalogNext \/ CatalogRestarts \/ UNCHANGED catalogVars
    PROVE  CatalogTypeOK'
<1>1. CASE ScanFile
  <2>1. PICK f \in left :
            /\ left' = left \ {f}
            /\ found' = IF Launchable(Entry(f))
                        THEN [found EXCEPT ![IdOf[Name(f)]] = Entry(f)] ELSE found
    BY <1>1 DEF ScanFile
  <2>2. f \in Walk
    BY DEF CatalogTypeOK
  <2>3. found' \in [Ids -> EntryOrNone]
    <3>1. CASE Launchable(Entry(f))
      BY <2>1, <2>2, <3>1, EntryType DEF CatalogTypeOK
    <3>2. CASE ~Launchable(Entry(f))
      BY <2>1, <3>2 DEF CatalogTypeOK
    <3> QED
      BY <3>1, <3>2
  <2>4. UNCHANGED <<disk, server, byID>>
    BY <1>1 DEF ScanFile
  <2>5. Walk' = Walk
    BY <2>4 DEF Walk
  <2> QED
    BY <2>1, <2>3, <2>4, <2>5 DEF CatalogTypeOK
<1>2. CASE Reload
  <2>1. NoFiles \in [Dirs -> [Files -> Contents \cup {None}]]
    BY DEF NoFiles
  <2> QED
    BY <1>2, <2>1, NoAppsType DEF Reload, CatalogTypeOK
<1>3. CASE CatalogRestarts
  BY <1>3, NoAppsType, DisksAssumption DEF CatalogRestarts, CatalogTypeOK
<1>4. CASE UNCHANGED catalogVars
  BY <1>4 DEF catalogVars, CatalogTypeOK, Walk
<1> QED
  BY <1>1, <1>2, <1>3, <1>4 DEF CatalogNext

\* The scan has met the files in order, and holds for each id the last one of
\* those met that is to be listed.
Best(i, seen) ==
    LET listed == {f \in seen : IdOf[Name(f)] = i /\ Launchable(Entry(f))}
    IN \/ listed = {} /\ found[i] = None
       \/ \E f \in listed : /\ \A g \in listed \ {f} : Before(g, f)
                            /\ found[i] = Entry(f)

MergeInv ==
    server = "scanning" =>
        /\ \A f \in Walk \ left, g \in left : Before(f, g)
        /\ \A i \in Ids : Best(i, Walk \ left)

\* Nothing has been read yet.
LEMMA MergeStarts ==
    ASSUME left = Walk, found = NoApps
    PROVE  MergeInv
BY DEF MergeInv, Best, NoApps

LEMMA MergeStep ==
    ASSUME CatalogTypeOK, MergeInv,
           CatalogNext \/ CatalogRestarts \/ UNCHANGED catalogVars
    PROVE  MergeInv'
<1>1. CASE ScanFile
  <2>1. PICK f \in left :
            /\ \A g \in left \ {f} : Before(f, g)
            /\ left' = left \ {f}
            /\ found' = IF Launchable(Entry(f))
                        THEN [found EXCEPT ![IdOf[Name(f)]] = Entry(f)] ELSE found
    BY <1>1 DEF ScanFile
  <2>2. UNCHANGED <<disk, server, byID>> /\ server = "scanning"
    BY <1>1 DEF ScanFile
  <2>3. Walk' = Walk /\ \A g : Entry(g)' = Entry(g)
    BY <2>2 DEF Walk, Entry
  <2>4. f \in Walk /\ left \subseteq Walk /\ DOMAIN found = Ids
    BY DEF CatalogTypeOK
  <2> DEFINE seen == Walk \ left
  <2>5. Walk \ left' = seen \cup {f} /\ f \notin seen
    BY <2>1, <2>4
  <2>6. \A g \in seen : Before(g, f)
    BY <2>2 DEF MergeInv
  <2>7. \A g \in Walk \ left', h \in left' : Before(g, h)
    BY <2>1, <2>2, <2>5 DEF MergeInv
  <2>8. ASSUME NEW i \in Ids PROVE Best(i, Walk \ left)'
    <3> DEFINE listed == {g \in seen : IdOf[Name(g)] = i /\ Launchable(Entry(g))}
               more == {g \in seen \cup {f} : IdOf[Name(g)] = i /\ Launchable(Entry(g))}
    <3>1. \/ listed = {} /\ found[i] = None
          \/ \E g \in listed : /\ \A h \in listed \ {g} : Before(h, g)
                               /\ found[i] = Entry(g)
      BY <2>2 DEF MergeInv, Best
    <3>2. \/ more = {} /\ found'[i] = None
          \/ \E g \in more : /\ \A h \in more \ {g} : Before(h, g)
                             /\ found'[i] = Entry(g)
      <4>1. CASE Launchable(Entry(f)) /\ IdOf[Name(f)] = i
        <5>1. found'[i] = Entry(f) /\ f \in more
          BY <2>1, <2>4, <4>1
        <5>2. \A h \in more \ {f} : Before(h, f)
          BY <2>6
        <5> QED
          BY <5>1, <5>2
      <4>2. CASE ~(Launchable(Entry(f)) /\ IdOf[Name(f)] = i)
        <5>1. more = listed
          BY <4>2
        <5>2. found'[i] = found[i]
          BY <2>1, <2>4, <4>2
        <5> QED
          BY <3>1, <5>1, <5>2
      <4> QED
        BY <4>1, <4>2
    <3>3. more = {g \in (Walk \ left)' : IdOf[Name(g)] = i /\ Launchable(Entry(g)')}
      BY <2>3, <2>5
    <3> HIDE DEF more
    <3> QED
      BY <2>3, <3>2, <3>3 DEF Best
  <2> QED
    BY <2>2, <2>3, <2>7, <2>8 DEF MergeInv
<1>2. CASE Reload
  BY <1>2 DEF Reload, MergeInv
<1>3. CASE CatalogRestarts
  BY <1>3 DEF CatalogRestarts, MergeInv, Best, NoApps
<1>4. CASE UNCHANGED catalogVars
  BY <1>4 DEF catalogVars, MergeInv, Best, Walk, Entry
<1> QED
  BY <1>1, <1>2, <1>3, <1>4 DEF CatalogNext

-----------------------------------------------------------------------------
(* Types.                                                                   *)

Gets == [pc : {"idle", "sent", "merge", "filter", "reply"}, token : Nat,
         code : {0, 200, 401}, list : SUBSET AppIds, todo : SUBSET AppIds,
         always : SUBSET AppIds, known : SUBSET AppIds, visible : SUBSET AppIds,
         removed : SUBSET AppIds]

Taps == [pc : {"idle", "sent", "reply"}, token : Nat,
         code : {0, 200, 400, 401, 404, 500}, app : AppIds \cup {App(None)},
         whole : BOOLEAN, excused : BOOLEAN]

\* A refresh: what is left to be filtered is in the list, and so is what was
\* removed from the shortcuts since.
GetOK(r) ==
    /\ r \in Gets
    /\ r.todo \subseteq r.list
    /\ r.pc = "sent" => r.todo = {}
    /\ r.pc = "reply" => r.removed \subseteq r.list

AdminOK ==
    /\ hidden \subseteq AppIds /\ shortcuts \subseteq ShortcutIds
    /\ minted \in 1..MaxTokens /\ valid \subseteq 1..minted

PhoneOK ==
    /\ held \in 0..minted /\ screen \in {"apps", "pairing", "connect"}
    /\ ui \in {"Loading", "Loaded", "Empty", "Error", "Unauthorized"}
    /\ shown \subseteq AppIds /\ suspect \subseteq shown
    /\ (ui = "Loaded") = (shown # {})
    /\ launchInFlight \in BOOLEAN

\* A request is in the handler only while the server is up, and the table is
\* empty while it scans.
Handling ==
    /\ \A s \in Refreshes : get[s].pc \in {"merge", "filter"} => server = "up"
    /\ server = "scanning" => byID = NoApps

StateInv ==
    /\ CatalogTypeOK /\ AdminOK /\ PhoneOK
    /\ tap \in Taps
    /\ DOMAIN get = Refreshes /\ \A s \in Refreshes : GetOK(get[s])
    /\ Handling

LEMMA StateInvType == StateInv => TypeOK
BY DEF StateInv, TypeOK, AdminOK, PhoneOK, Taps, Gets, GetOK

\* What there is, is an application.
LEMMA KnownType ==
    ASSUME NEW sc \in SUBSET ShortcutIds
    PROVE  Listed \subseteq AppIds /\ Known(sc) \subseteq AppIds
BY DEF Listed, Known, AppIds, PrefixedID, App

LEMMA Records ==
    /\ GetOK(Idle)
    /\ \A token \in Nat : GetOK(Sent(token))
    /\ \A code \in {0, 200, 401}, list, removed \in SUBSET AppIds :
          removed \subseteq list => GetOK(Replied(code, list, removed))
    /\ NoTap \in Taps
<1>1. Idle \in Gets /\ Idle.todo = {} /\ Idle.list = {} /\ Idle.pc = "idle"
  BY DEF Gets, Idle, NoToken
<1>2. GetOK(Idle)
  BY <1>1 DEF GetOK
<1>3. ASSUME NEW token \in Nat PROVE GetOK(Sent(token))
  <2>1. Sent(token) \in Gets /\ Sent(token).todo = {} /\ Sent(token).pc = "sent"
    BY DEF Gets, Idle, Sent
  <2> QED
    BY <2>1 DEF GetOK
<1>4. ASSUME NEW code \in {0, 200, 401}, NEW list \in SUBSET AppIds,
             NEW removed \in SUBSET AppIds, removed \subseteq list
      PROVE  GetOK(Replied(code, list, removed))
  <2> DEFINE r == Replied(code, list, removed)
  <2>1. r \in Gets /\ r.todo = {} /\ r.list = list /\ r.removed = removed
    BY DEF Gets, Idle, Replied, NoToken
  <2> QED
    BY <1>4, <2>1 DEF GetOK
<1>5. NoTap \in Taps
  BY DEF Taps, NoTap, NoToken
<1> QED
  BY <1>2, <1>3, <1>4, <1>5

\* A step that writes one refresh.
OneGet(s, r) == get' = [get EXCEPT ![s] = r]

LEMMA OneGetKept ==
    ASSUME StateInv, NEW s \in Refreshes, NEW r, OneGet(s, r)
    PROVE  /\ DOMAIN get' = Refreshes /\ get'[s] = r
           /\ \A q \in Refreshes \ {s} : get'[q] = get[q]
BY DEF StateInv, OneGet

\* The handler of GET /api/apps, field by field.
LEMMA ListAppsFields ==
    ASSUME StateInv, NEW s \in Refreshes, ListApps(s)
    PROVE  \E r : /\ OneGet(s, r) /\ GetOK(r) /\ get[s].pc = "sent"
                  /\ \/ /\ get[s].token \in valid
                        /\ r.pc = "merge" /\ r.list = Listed
                        /\ r.known = Known(shortcuts)
                        /\ r.visible = AppIds \ hidden
                        /\ r.always = Known(shortcuts) \ hidden
                     \/ /\ get[s].token \notin valid
                        /\ r = Replied(401, {}, {})
<1>1. CASE get[s].token \in valid
  <2> DEFINE r == [get[s] EXCEPT !.pc = "merge", !.list = Listed,
                       !.known = Known(shortcuts), !.visible = AppIds \ hidden,
                       !.always = Known(shortcuts) \ hidden]
  <2>1. OneGet(s, r) /\ get[s].pc = "sent"
    BY <1>1 DEF ListApps, OneGet, StateInv
  <2>2. Listed \subseteq AppIds /\ Known(shortcuts) \subseteq AppIds
    BY KnownType DEF StateInv, AdminOK
  <2>3. GetOK(get[s])
    BY DEF StateInv
  <2>4. /\ r \in Gets /\ r.todo \subseteq r.list
        /\ r.pc = "merge" /\ r.list = Listed /\ r.known = Known(shortcuts)
        /\ r.visible = AppIds \ hidden /\ r.always = Known(shortcuts) \ hidden
    <3>1. Known(shortcuts) \ hidden \subseteq AppIds /\ AppIds \ hidden \subseteq AppIds
      BY <2>2
    <3>2. get[s].todo = {}
      BY <2>1, <2>3 DEF GetOK
    <3> QED
      BY <2>2, <2>3, <3>1, <3>2 DEF GetOK, Gets
  <2>5. GetOK(r)
    BY <2>4 DEF GetOK
  <2> HIDE DEF r
  <2> QED
    BY <1>1, <2>1, <2>4, <2>5
<1>2. CASE get[s].token \notin valid
  <2>1. OneGet(s, Replied(401, {}, {})) /\ get[s].pc = "sent"
    BY <1>2 DEF ListApps, OneGet
  <2>2. GetOK(Replied(401, {}, {}))
    BY Records
  <2> QED
    BY <1>2, <2>1, <2>2
<1> QED
  BY <1>1, <1>2

LEMMA MergeFields ==
    ASSUME StateInv, NEW s \in Refreshes, Merge(s)
    PROVE  \E r : /\ OneGet(s, r) /\ GetOK(r) /\ get[s].pc = "merge"
                  /\ r.pc = "filter" /\ r.removed = {}
                  /\ r.list = get[s].list \cup {PrefixedID(c) : c \in shortcuts}
                  /\ r.todo = r.list /\ r.always = get[s].always
                  /\ r.known = get[s].known /\ r.visible = get[s].visible
<1> DEFINE all == get[s].list \cup {PrefixedID(c) : c \in shortcuts}
           r == [get[s] EXCEPT !.pc = "filter", !.removed = {}, !.todo = all, !.list = all]
<1>1. OneGet(s, r) /\ get[s].pc = "merge"
  BY DEF Merge, OneGet, StateInv
<1>2. GetOK(get[s]) /\ {PrefixedID(c) : c \in shortcuts} \subseteq AppIds
  BY KnownType DEF StateInv, AdminOK, Known
<1>3. /\ r \in Gets /\ r.pc = "filter" /\ r.removed = {} /\ r.list = all /\ r.todo = all
      /\ r.always = get[s].always /\ r.known = get[s].known /\ r.visible = get[s].visible
  BY <1>2 DEF GetOK, Gets
<1>4. GetOK(r)
  BY <1>3 DEF GetOK
<1> HIDE DEF r
<1> QED
  BY <1>1, <1>3, <1>4

LEMMA FilterFields ==
    ASSUME StateInv, NEW s \in Refreshes, NEW a \in AppIds, Filter(s, a)
    PROVE  \E r : /\ OneGet(s, r) /\ GetOK(r) /\ get[s].pc = "filter" /\ r.pc = "filter"
                  /\ r.todo = get[s].todo \ {a}
                  /\ r.list = IF a \in hidden THEN get[s].list \ {a} ELSE get[s].list
                  /\ a \in get[s].todo
                  /\ r.always = get[s].always /\ r.known = get[s].known
                  /\ r.visible = get[s].visible /\ r.removed = get[s].removed
<1> DEFINE kept == IF a \in hidden THEN get[s].list \ {a} ELSE get[s].list
           rest == get[s].todo \ {a}
           r == [get[s] EXCEPT !.todo = rest, !.list = kept]
<1>1. OneGet(s, r) /\ get[s].pc = "filter" /\ a \in get[s].todo
  BY DEF Filter, OneGet, StateInv
<1>2. GetOK(get[s])
  BY DEF StateInv
<1>3. kept \in SUBSET AppIds /\ rest \in SUBSET AppIds /\ rest \subseteq kept
  BY <1>1, <1>2 DEF GetOK, Gets
<1> HIDE DEF kept, rest
<1>4. /\ r \in Gets /\ r.pc = "filter" /\ r.todo = rest /\ r.list = kept
      /\ r.always = get[s].always /\ r.known = get[s].known
      /\ r.visible = get[s].visible /\ r.removed = get[s].removed
  BY <1>1, <1>2, <1>3 DEF GetOK, Gets
<1>5. GetOK(r)
  BY <1>4, <1>3 DEF GetOK
<1> HIDE DEF r
<1> QED
  BY <1>1, <1>4, <1>5 DEF kept, rest

LEMMA AnswerFields ==
    ASSUME StateInv, NEW s \in Refreshes, Answer(s)
    PROVE  LET r == Replied(200, get[s].list, get[s].removed \cap get[s].list)
           IN /\ OneGet(s, r) /\ GetOK(r)
              /\ get[s].pc = "filter" /\ get[s].todo = {}
<1>1. GetOK(get[s])
  BY DEF StateInv
<1>2. get[s].list \in SUBSET AppIds
  BY <1>1 DEF GetOK, Gets
<1> QED
  BY <1>2, Records DEF Answer, OneGet

\* The shortcuts that a change by the operator takes away.
Removed(sc) == {PrefixedID(c) : c \in shortcuts \ sc}

\* What a change by the operator does to a refresh.
LEMMA BecomesFields ==
    ASSUME StateInv, NEW h \in SUBSET AppIds, NEW sc \in SUBSET ShortcutIds,
           Becomes(h, sc), NEW s \in Refreshes
    PROVE  /\ GetOK(get'[s])
           /\ get'[s].pc = get[s].pc /\ get'[s].token = get[s].token
           /\ get'[s].code = get[s].code
           /\ get'[s].list = get[s].list /\ get'[s].todo = get[s].todo
           /\ get'[s].removed = get[s].removed \cup (Removed(sc) \cap get[s].list)
           /\ get[s].pc \in {"merge", "filter"} =>
                 /\ get'[s].always = get[s].always \cap (Known(sc) \ h)
                 /\ get'[s].known = get[s].known \cup Known(sc)
                 /\ get'[s].visible = get[s].visible \cup (AppIds \ h)
<1> DEFINE removed == get[s].removed \cup (Removed(sc) \cap get[s].list)
           always == get[s].always \cap (Known(sc) \ h)
           known == get[s].known \cup Known(sc)
           visible == get[s].visible \cup (AppIds \ h)
<1>1. GetOK(get[s]) /\ get[s] \in Gets
  BY DEF StateInv, GetOK
<1>2. /\ removed \in SUBSET AppIds /\ always \in SUBSET AppIds
      /\ known \in SUBSET AppIds /\ visible \in SUBSET AppIds
      /\ get[s].removed \subseteq get[s].list => removed \subseteq get[s].list
  BY <1>1, KnownType DEF Gets
<1>3. get'[s] = IF get[s].pc \in {"merge", "filter"}
                THEN [get[s] EXCEPT !.always = always, !.known = known,
                                    !.visible = visible, !.removed = removed]
                ELSE [get[s] EXCEPT !.removed = removed]
  BY DEF Becomes, Removed
<1> HIDE DEF removed, always, known, visible
<1>4. CASE get[s].pc \in {"merge", "filter"}
  <2> DEFINE r == [get[s] EXCEPT !.always = always, !.known = known,
                                 !.visible = visible, !.removed = removed]
  <2>1. /\ r \in Gets /\ r.pc = get[s].pc /\ r.token = get[s].token
        /\ r.code = get[s].code /\ r.list = get[s].list /\ r.todo = get[s].todo
        /\ r.removed = removed /\ r.always = always /\ r.known = known
        /\ r.visible = visible
    BY <1>1, <1>2 DEF Gets
  <2>2. GetOK(r)
    BY <1>1, <1>2, <2>1 DEF GetOK
  <2>3. get'[s] = r
    BY <1>3, <1>4
  <2> HIDE DEF r
  <2> QED
    BY <1>4, <2>1, <2>2, <2>3 DEF removed, always, known, visible
<1>5. CASE get[s].pc \notin {"merge", "filter"}
  <2> DEFINE r == [get[s] EXCEPT !.removed = removed]
  <2>1. /\ r \in Gets /\ r.pc = get[s].pc /\ r.token = get[s].token
        /\ r.code = get[s].code /\ r.list = get[s].list /\ r.todo = get[s].todo
        /\ r.removed = removed
    BY <1>1, <1>2 DEF Gets
  <2>2. GetOK(r)
    BY <1>1, <1>2, <2>1 DEF GetOK
  <2>3. get'[s] = r
    BY <1>3, <1>5
  <2> HIDE DEF r
  <2> QED
    BY <1>5, <2>1, <2>2, <2>3 DEF removed
<1> QED
  BY <1>4, <1>5

\* What a restart of the server does to a refresh.
LEMMA RestartFields ==
    ASSUME StateInv, Restart, NEW s \in Refreshes
    PROVE  LET q == get[s]
               r == get'[s]
           IN /\ GetOK(r)
              /\ r.pc = IF q.pc = "idle" THEN "idle" ELSE "reply"
              /\ r.pc = "reply" => r.removed = r.list
              /\ r.pc = "idle" => r.list = {}
              /\ r.code = 401 => q.pc = "reply" /\ q.code = 401
<1>1. GetOK(get[s]) /\ get[s] \in Gets
  BY DEF StateInv, GetOK
<1>2. CASE get[s].pc = "idle"
  <2>1. get'[s] = Idle
    BY <1>2 DEF Restart
  <2> QED
    BY <1>2, <2>1, Records DEF Idle
<1>3. CASE get[s].pc = "reply"
  <2> DEFINE r == [get[s] EXCEPT !.removed = get[s].list]
  <2>1. get'[s] = r
    BY <1>3 DEF Restart
  <2>2. /\ r \in Gets /\ r.pc = "reply" /\ r.list = get[s].list /\ r.todo = get[s].todo
        /\ r.removed = get[s].list /\ r.code = get[s].code
    BY <1>1, <1>3 DEF Gets
  <2>3. GetOK(r)
    BY <1>1, <2>2 DEF GetOK
  <2> HIDE DEF r
  <2> QED
    BY <1>3, <2>1, <2>2, <2>3
<1>4. CASE get[s].pc \notin {"idle", "reply"}
  <2>1. get'[s] = Replied(NetworkError, {}, {})
    BY <1>4 DEF Restart
  <2>2. GetOK(Replied(NetworkError, {}, {}))
    BY Records DEF NetworkError
  <2>3. /\ get'[s].pc = "reply" /\ get'[s].list = {} /\ get'[s].removed = {}
        /\ get'[s].code = 0
    BY <2>1 DEF Replied, Idle, NetworkError
  <2> QED
    BY <1>4, <2>1, <2>2, <2>3
<1> QED
  BY <1>2, <1>3, <1>4

\* The steps of the phone that end a refresh, or begin one.
RefreshStep(s) == Refresh(s) \/ Receive(s) \/ TimeOut(s)

LEMMA RefreshFields ==
    ASSUME StateInv, NEW s \in Refreshes, RefreshStep(s)
    PROVE  /\ \/ get' = get /\ ui' = "Unauthorized" /\ held = NoToken
              \/ OneGet(s, Sent(held)) /\ ui' = "Loading" /\ held # NoToken
              \/ OneGet(s, Idle) /\ ui' # "Loading"
           /\ UNCHANGED <<catalogVars, adminVars, tap, launchInFlight, screen, held>>
           /\ PhoneOK'
<1>1. CASE Refresh(s)
  BY <1>1 DEF Refresh, Becoming, OneGet, StateInv, PhoneOK, adminVars
<1>2. CASE Receive(s)
  <2>1. GetOK(get[s])
    BY DEF StateInv
  <2>2. /\ get[s].list \subseteq AppIds /\ get[s].removed \subseteq get[s].list
    BY <1>2, <2>1 DEF Receive, GetOK, Gets
  <2>3. /\ OneGet(s, Idle)
        /\ UNCHANGED <<catalogVars, adminVars, tap, launchInFlight, screen, held>>
    BY <1>2 DEF Receive, OneGet
  <2>4. \/ /\ ui' = "Loaded" /\ shown' = get[s].list /\ suspect' = get[s].removed
           /\ get[s].list # {}
        \/ /\ ui' \in {"Empty", "Unauthorized", "Error"} /\ shown' = {} /\ suspect' = {}
    <3>1. CASE get[s].code = 200 /\ get[s].list # {}
      BY <1>2, <3>1 DEF Receive, Becoming
    <3>2. CASE get[s].code = 200 /\ get[s].list = {}
      BY <1>2, <3>2 DEF Receive, Becoming
    <3>3. CASE get[s].code = 401
      BY <1>2, <3>3 DEF Receive, Becoming
    <3>4. CASE get[s].code \notin {200, 401}
      BY <1>2, <3>4 DEF Receive, Becoming
    <3> QED
      BY <3>1, <3>2, <3>3, <3>4
  <2>5. PhoneOK'
    BY <2>2, <2>3, <2>4 DEF StateInv, PhoneOK, adminVars
  <2> QED
    BY <2>3, <2>4, <2>5
<1>3. CASE TimeOut(s)
  BY <1>3 DEF TimeOut, Becoming, OneGet, StateInv, PhoneOK, adminVars
<1> QED
  BY <1>1, <1>2, <1>3 DEF RefreshStep

\* The other steps of the phone, but for a new pairing.
PhoneRest ==
    \/ \E a \in AppIds : OnTap(a)
    \/ TapAnswered \/ TapTimesOut
    \/ OnUnauthorized \/ OnDisconnect \/ OnConnected \/ Back

LEMMA PhoneFields ==
    ASSUME StateInv, PhoneRest
    PROVE  /\ UNCHANGED <<catalogVars, adminVars, get>> /\ tap' \in Taps /\ PhoneOK'
<1>0. PhoneOK /\ AdminOK /\ tap \in Taps /\ NoTap \in Taps
  BY Records DEF StateInv
<1>1. ASSUME NEW a \in AppIds, OnTap(a)
      PROVE  UNCHANGED <<catalogVars, adminVars, get>> /\ tap' \in Taps /\ PhoneOK'
  <2>1. CASE held = NoToken
    BY <1>0, <1>1, <2>1 DEF OnTap, Becoming, PhoneOK, adminVars
  <2>2. CASE held # NoToken
    <3>1. tap' = [NoTap EXCEPT !.pc = "sent", !.token = held, !.app = a,
                               !.whole = Whole(a), !.excused = a \in suspect]
      BY <1>1, <2>2 DEF OnTap
    <3>2. tap' \in Taps
      <4>1. held \in Nat /\ (a \in suspect) \in BOOLEAN
        BY <1>0 DEF PhoneOK, AdminOK
      <4>2. Whole(a) \in BOOLEAN
        BY DEF Whole
      <4>3. tap' = [pc |-> "sent", token |-> held, code |-> 0, app |-> a,
                    whole |-> Whole(a), excused |-> a \in suspect]
        BY <3>1 DEF NoTap
      <4> QED
        BY <4>1, <4>2, <4>3 DEF Taps
    <3>3. PhoneOK'
      BY <1>0, <1>1, <2>2 DEF OnTap, PhoneOK, adminVars
    <3> QED
      BY <1>1, <3>2, <3>3 DEF OnTap
  <2> QED
    BY <2>1, <2>2
<1>2. CASE TapAnswered
  <2>1. UNCHANGED <<catalogVars, adminVars, get>> /\ tap' \in Taps
    BY <1>0, <1>2 DEF TapAnswered
  <2>2. UNCHANGED <<minted, screen, held>> /\ launchInFlight' = FALSE
    BY <1>2 DEF TapAnswered, adminVars
  <2>3. CASE tap.code = 401
    BY <1>0, <1>2, <2>1, <2>2, <2>3 DEF TapAnswered, Becoming, PhoneOK
  <2>4. CASE tap.code # 401
    <3>1. UNCHANGED <<ui, shown, suspect>>
      BY <1>2, <2>4 DEF TapAnswered
    <3> QED
      BY <1>0, <2>1, <2>2, <3>1 DEF PhoneOK
  <2> QED
    BY <2>3, <2>4
<1>3. CASE TapTimesOut
  BY <1>0, <1>3 DEF TapTimesOut, PhoneOK, adminVars
<1>4. CASE OnUnauthorized \/ OnDisconnect
  BY <1>0, <1>4 DEF OnUnauthorized, OnDisconnect, PhoneOK, AdminOK, adminVars, NoToken
<1>5. CASE OnConnected \/ Back
  BY <1>0, <1>5 DEF OnConnected, Back, PhoneOK, adminVars
<1> QED
  BY <1>1, <1>2, <1>3, <1>4, <1>5 DEF PhoneRest

\* The answer to a tap.
LEMMA LaunchFields ==
    ASSUME StateInv, LaunchApp
    PROVE  /\ UNCHANGED <<catalogVars, adminVars, get, phoneVars>>
           /\ tap' \in Taps /\ tap'.pc = "reply"
           /\ tap'.whole = tap.whole /\ tap'.excused = tap.excused
           /\ tap.pc = "sent" /\ server = "up"
           /\ tap'.code = 401 => tap.token \notin valid
           /\ tap'.code = 404 /\ Whole(tap.app) => tap.app \notin Known(shortcuts)
<1>0. tap \in Taps /\ NoTap \in Taps
  BY Records DEF StateInv
<1>1. UNCHANGED <<catalogVars, adminVars, get, phoneVars>> /\ tap.pc = "sent" /\ server = "up"
  BY DEF LaunchApp
<1>2. ASSUME NEW entry PROVE Launch(entry) \subseteq {200, 400, 500}
  BY DEF Launch
<1>3. ASSUME NEW app
      PROVE  /\ Handled(app) \subseteq {200, 400, 404, 500}
             /\ app \in Known(shortcuts) => 404 \notin Handled(app)
  <2>1. Handled(app) \subseteq {200, 400, 404, 500}
    BY <1>2 DEF Handled, LaunchCommand
  <2>2. ASSUME app \in Listed PROVE 404 \notin Handled(app)
    <3>1. PICK i \in Ids : app = App(i)
      BY <2>2 DEF Listed
    <3>2. ~IsCustom(app)
      BY <3>1 DEF App, IsCustom, IDPrefix
    <3> QED
      BY <1>2, <2>2, <3>2 DEF Handled
  <2>3. ASSUME NEW c \in shortcuts, app = PrefixedID(c) PROVE 404 \notin Handled(app)
    <3>1. IsCustom(app) /\ Bare(app) = c
      BY <2>3 DEF PrefixedID, IsCustom, Bare
    <3> QED
      BY <3>1 DEF Handled, LaunchCommand
  <2> QED
    BY <2>1, <2>2, <2>3 DEF Known
<1>4. PICK code \in Answers(InPath[tap.app]) :
        tap' = [NoTap EXCEPT !.pc = "reply", !.code = code, !.whole = tap.whole,
                             !.excused = tap.excused]
  BY DEF LaunchApp
<1>5. /\ code \in {0, 200, 400, 401, 404, 500}
      /\ code = 401 => tap.token \notin valid
  BY <1>3, <1>4 DEF Answers, NetworkError
<1>6. ASSUME code = 404, Whole(tap.app), tap.app \in Known(shortcuts) PROVE FALSE
  <2>1. tap.app \in AppIds
    BY <1>6, KnownType DEF StateInv, AdminOK
  <2>2. tap.app \notin {Cut, Malformed} /\ InPath[tap.app] = tap.app
    BY <1>6, <2>1, InPathAssumption DEF Whole
  <2>3. code \in {401} \cup Handled(tap.app)
    BY <1>4, <2>2 DEF Answers
  <2> QED
    BY <1>3, <1>6, <2>3
<1>7. /\ tap' \in Taps /\ tap'.pc = "reply" /\ tap'.code = code
      /\ tap'.whole = tap.whole /\ tap'.excused = tap.excused
  <2>1. tap' = [pc |-> "reply", token |-> NoToken, code |-> code, app |-> App(None),
                whole |-> tap.whole, excused |-> tap.excused]
    BY <1>4 DEF NoTap
  <2>2. tap.whole \in BOOLEAN /\ tap.excused \in BOOLEAN
    BY <1>0 DEF Taps
  <2> QED
    BY <1>5, <2>1, <2>2 DEF Taps, NoToken
<1> QED
  BY <1>1, <1>5, <1>6, <1>7

\* The operator changes either set.
LEMMA OperatorFields ==
    ASSUME StateInv, Operator
    PROVE  /\ \E h \in SUBSET AppIds, sc \in SUBSET ShortcutIds : Becomes(h, sc)
           /\ UNCHANGED <<catalogVars, valid, minted, launchInFlight, ui, shown, screen,
                          held>>
           /\ server = "up"
BY HideableAssumption DEF Operator, StateInv, AdminOK

\* The handler of GET /api/apps.
ListStep(s) ==
    \/ ListApps(s) \/ Merge(s) \/ Answer(s)
    \/ \E a \in AppIds : Filter(s, a)

LEMMA ListFields ==
    ASSUME StateInv, NEW s \in Refreshes, ListStep(s)
    PROVE  /\ \E r : OneGet(s, r) /\ GetOK(r)
                     /\ (r.pc \in {"merge", "filter"} => server = "up")
           /\ UNCHANGED <<catalogVars, adminVars, tap, phoneVars>>
<1>1. CASE ListApps(s)
  BY <1>1, ListAppsFields DEF ListApps
<1>2. CASE Merge(s)
  BY <1>2, MergeFields DEF Merge, StateInv, Handling
<1>3. CASE Answer(s)
  <2> DEFINE r == Replied(200, get[s].list, get[s].removed \cap get[s].list)
  <2>1. OneGet(s, r) /\ GetOK(r)
    BY <1>3, AnswerFields
  <2>2. r.pc = "reply"
    BY DEF Replied, Idle
  <2> HIDE DEF r
  <2> QED
    BY <1>3, <2>1, <2>2 DEF Answer
<1>4. ASSUME NEW a \in AppIds, Filter(s, a)
      PROVE  /\ \E r : OneGet(s, r) /\ GetOK(r)
                       /\ (r.pc \in {"merge", "filter"} => server = "up")
             /\ UNCHANGED <<catalogVars, adminVars, tap, phoneVars>>
  BY <1>4, FilterFields DEF Filter, StateInv, Handling
<1> QED
  BY <1>1, <1>2, <1>3, <1>4 DEF ListStep

LEMMA Steps ==
    ASSUME Next
    PROVE  \/ \E s \in Refreshes : ListStep(s) \/ RefreshStep(s)
           \/ LaunchApp \/ Operator \/ Restart \/ Server \/ PhoneRest \/ Pair
BY DEF Next, Handlers, Phone, ListStep, RefreshStep, PhoneRest

\* A new view model.
LEMMA PairFields ==
    ASSUME StateInv, Pair
    PROVE  /\ minted' = minted + 1 /\ valid' = valid \cup {minted + 1}
           /\ held' = minted + 1 /\ minted \in Nat /\ minted < MaxTokens
           /\ DOMAIN get' = Refreshes /\ 1 \in Refreshes
           /\ \A s \in Refreshes : get'[s] = IF s = 1 THEN Sent(minted + 1) ELSE Idle
           /\ tap' = NoTap /\ launchInFlight' = FALSE
           /\ ui' = "Loading" /\ shown' = {} /\ suspect' = {}
           /\ screen' = "apps"
           /\ UNCHANGED <<catalogVars, hidden, shortcuts>>
BY BoundsAssumption DEF Pair, NewModel, Becoming, StateInv, AdminOK, Refreshes

LEMMA StateStep ==
    ASSUME StateInv, [Next]_vars
    PROVE  StateInv'
<1>0. /\ CatalogTypeOK /\ AdminOK /\ PhoneOK /\ tap \in Taps /\ Handling
      /\ DOMAIN get = Refreshes /\ \A s \in Refreshes : GetOK(get[s])
  BY DEF StateInv
<1>1. ASSUME NEW s \in Refreshes, NEW r, OneGet(s, r), GetOK(r),
             r.pc \in {"merge", "filter"} => server = "up",
             UNCHANGED <<catalogVars, adminVars>>, PhoneOK', tap' \in Taps
      PROVE  StateInv'
  <2>1. CatalogTypeOK'
    BY <1>0, <1>1, CatalogType
  <2>2. AdminOK'
    BY <1>0, <1>1 DEF AdminOK, adminVars
  <2>3. DOMAIN get' = Refreshes /\ \A q \in Refreshes : GetOK(get[q])'
    BY <1>0, <1>1, OneGetKept DEF GetOK
  <2>4. Handling'
    BY <1>0, <1>1, OneGetKept DEF Handling, catalogVars, NoApps
  <2> QED
    BY <1>1, <2>1, <2>2, <2>3, <2>4 DEF StateInv
<1>2. ASSUME get' = get, UNCHANGED <<catalogVars, adminVars>>, PhoneOK', tap' \in Taps
      PROVE  StateInv'
  <2>1. CatalogTypeOK'
    BY <1>0, <1>2, CatalogType
  <2>2. AdminOK'
    BY <1>0, <1>2 DEF AdminOK, adminVars
  <2>3. DOMAIN get' = Refreshes /\ \A q \in Refreshes : GetOK(get[q])'
    BY <1>0, <1>2 DEF GetOK
  <2>4. Handling'
    BY <1>0, <1>2 DEF Handling, catalogVars, NoApps
  <2> QED
    BY <1>2, <2>1, <2>2, <2>3, <2>4 DEF StateInv
<1>3. ASSUME NEW s \in Refreshes, ListStep(s) PROVE StateInv'
  <2>1. UNCHANGED <<catalogVars, adminVars, tap, phoneVars>>
    BY <1>3, ListFields
  <2>2. PhoneOK' /\ tap' \in Taps
    BY <1>0, <2>1 DEF PhoneOK, phoneVars, adminVars
  <2> QED
    BY <1>1, <1>3, <2>1, <2>2, ListFields
<1>4. ASSUME NEW s \in Refreshes, RefreshStep(s) PROVE StateInv'
  <2>1. PhoneOK' /\ UNCHANGED <<catalogVars, adminVars, tap>>
    BY <1>4, RefreshFields
  <2>2. held \in Nat
    BY <1>0 DEF PhoneOK, AdminOK
  <2>3. /\ GetOK(Sent(held)) /\ GetOK(Idle)
        /\ Sent(held).pc = "sent" /\ Idle.pc = "idle"
    BY <2>2, Records DEF Sent, Idle
  <2> QED
    BY <1>0, <1>1, <1>2, <1>4, <2>1, <2>3, RefreshFields
<1>5. CASE LaunchApp
  <2>1. UNCHANGED <<catalogVars, adminVars, get, phoneVars>> /\ tap' \in Taps
    BY <1>5, LaunchFields
  <2>2. PhoneOK'
    BY <1>0, <2>1 DEF PhoneOK, phoneVars, adminVars
  <2> QED
    BY <1>2, <2>1, <2>2
<1>6. CASE Operator
  <2>1. PICK h \in SUBSET AppIds, sc \in SUBSET ShortcutIds : Becomes(h, sc)
    BY <1>6, OperatorFields
  <2>2. UNCHANGED <<catalogVars, valid, minted, launchInFlight, ui, shown, screen, held>>
    BY <1>6, OperatorFields
  <2>3. CatalogTypeOK'
    BY <1>0, <2>2, CatalogType
  <2>4. AdminOK'
    BY <1>0, <2>1, <2>2 DEF AdminOK, Becomes
  <2>5. PhoneOK'
    <3>1. suspect' \subseteq shown
      BY <1>0, <2>1 DEF Becomes, PhoneOK
    <3> QED
      BY <1>0, <2>2, <3>1 DEF PhoneOK
  <2>6. tap' \in Taps
    <3>1. PICK yes \in BOOLEAN : tap' = [tap EXCEPT !.excused = yes]
      <4>1. (tap.excused \/ tap.app \in {PrefixedID(c) : c \in shortcuts \ sc}) \in BOOLEAN
        OBVIOUS
      <4> QED
        BY <2>1, <4>1 DEF Becomes
    <3> QED
      BY <1>0, <3>1 DEF Taps
  <2>7. DOMAIN get' = Refreshes
    BY <2>1 DEF Becomes
  <2>8. \A s \in Refreshes : GetOK(get[s])' /\ get'[s].pc = get[s].pc
    BY <2>1, BecomesFields DEF GetOK
  <2>9. Handling'
    BY <1>0, <2>2, <2>8 DEF Handling, catalogVars, NoApps
  <2> QED
    BY <2>3, <2>4, <2>5, <2>6, <2>7, <2>8, <2>9 DEF StateInv
<1>7. CASE Restart
  <2>1. /\ UNCHANGED <<hidden, shortcuts, minted, launchInFlight, ui, shown, screen, held>>
        /\ CatalogRestarts /\ valid' \in {valid, {}} /\ suspect' = shown
        /\ DOMAIN get' = Refreshes
    BY <1>7 DEF Restart
  <2>2. CatalogTypeOK'
    BY <1>0, <2>1, CatalogType
  <2>3. AdminOK' /\ PhoneOK'
    BY <1>0, <2>1 DEF AdminOK, PhoneOK
  <2>4. tap' \in Taps
    <3>1. [NoTap EXCEPT !.pc = "reply"] \in Taps
      BY Records DEF Taps
    <3> QED
      BY <1>0, <1>7, <3>1 DEF Restart
  <2>5. \A s \in Refreshes : GetOK(get[s])' /\ get'[s].pc \in {"idle", "reply"}
    BY <1>7, RestartFields DEF GetOK
  <2>6. Handling'
    BY <2>1, <2>5 DEF Handling, CatalogRestarts, NoApps
  <2> QED
    BY <2>1, <2>2, <2>3, <2>4, <2>5, <2>6 DEF StateInv
<1>8. CASE Server
  <2>1. CatalogNext /\ UNCHANGED <<adminVars, get, tap, phoneVars>>
    BY <1>8 DEF Server
  <2>2. CatalogTypeOK'
    BY <1>0, <2>1, CatalogType
  <2>3. AdminOK' /\ PhoneOK' /\ tap' \in Taps
    BY <1>0, <2>1 DEF AdminOK, PhoneOK, adminVars, phoneVars
  <2>4. DOMAIN get' = Refreshes /\ \A s \in Refreshes : GetOK(get[s])'
    BY <1>0, <2>1 DEF GetOK
  <2>5. Handling'
    BY <1>0, <2>1 DEF Handling, CatalogNext, ScanFile, Reload, NoApps
  <2> QED
    BY <2>2, <2>3, <2>4, <2>5 DEF StateInv
<1>9. CASE PhoneRest
  BY <1>2, <1>9, PhoneFields
<1>10. CASE Pair
  <2>1. CatalogTypeOK'
    BY <1>0, <1>10, PairFields, CatalogType
  <2>2. AdminOK'
    <3>1. minted + 1 \in 1..MaxTokens /\ minted' = minted + 1
      BY <1>10, PairFields, BoundsAssumption
    <3>2. valid \subseteq 1..minted /\ minted \in Nat
      BY <1>0, <1>10, PairFields DEF AdminOK
    <3>3. valid' \subseteq 1..(minted + 1)
      <4>1. 1..minted \subseteq 1..(minted + 1) /\ minted + 1 \in 1..(minted + 1)
        BY <3>2
      <4>2. valid' = valid \cup {minted + 1}
        BY <1>10, PairFields
      <4> QED
        BY <3>2, <4>1, <4>2
    <3>4. hidden' \subseteq AppIds /\ shortcuts' \subseteq ShortcutIds
      BY <1>0, <1>10, PairFields DEF AdminOK
    <3> QED
      BY <3>1, <3>3, <3>4 DEF AdminOK
  <2>3. PhoneOK'
    BY <1>10, PairFields DEF PhoneOK
  <2>4. tap' \in Taps
    BY <1>10, PairFields, Records
  <2>5. ASSUME NEW s \in Refreshes
        PROVE  GetOK(get[s])' /\ get'[s].pc \in {"idle", "sent"}
    <3>1. GetOK(Sent(minted + 1)) /\ GetOK(Idle) /\ minted + 1 \in Nat
      BY <1>10, PairFields, Records
    <3>2. Sent(minted + 1).pc = "sent" /\ Idle.pc = "idle"
      BY DEF Sent, Idle
    <3> QED
      BY <1>10, <3>1, <3>2, PairFields DEF GetOK
  <2>6. Handling'
    BY <1>0, <1>10, <2>5, PairFields DEF Handling, catalogVars, NoApps
  <2> QED
    BY <1>10, <2>1, <2>2, <2>3, <2>4, <2>5, <2>6, PairFields DEF StateInv
<1>11. CASE UNCHANGED vars
  <2>1. UNCHANGED <<catalogVars, adminVars, get, tap, phoneVars>>
    BY <1>11 DEF vars
  <2>2. PhoneOK' /\ tap' \in Taps
    BY <1>0, <2>1 DEF PhoneOK, phoneVars, adminVars
  <2> QED
    BY <1>2, <2>1, <2>2
<1> QED
  BY <1>3, <1>4, <1>5, <1>6, <1>7, <1>8, <1>9, <1>10, <1>11, Steps

LEMMA StateStarts == Init => StateInv
<1> SUFFICES ASSUME Init PROVE StateInv
  OBVIOUS
<1>1. CatalogTypeOK
  BY CatalogStartType DEF Init, CatalogInit
<1>2. AdminOK /\ PhoneOK
  <2>1. minted = 1 /\ 1 \in 1..MaxTokens /\ {1} \subseteq 1..1 /\ 1 \in 0..1
    BY BoundsAssumption DEF Init
  <2>2. AdminOK
    BY <2>1, HideableAssumption DEF Init, AdminOK
  <2>3. PhoneOK
    BY <2>1 DEF Init, PhoneOK
  <2> QED
    BY <2>2, <2>3
<1>3. tap \in Taps
  BY Records DEF Init
<1>4. ASSUME NEW s \in Refreshes PROVE GetOK(get[s]) /\ get[s].pc \in {"idle", "sent"}
  BY Records DEF Init, Sent, Idle
<1>5. DOMAIN get = Refreshes /\ Handling
  BY <1>4 DEF Init, CatalogInit, Handling
<1> QED
  BY <1>1, <1>2, <1>3, <1>4, <1>5 DEF StateInv

\* Types of the catalog, the handlers and the phone.
THEOREM TypeCorrect == Spec => []TypeOK
<1>1. Spec => []StateInv
  BY StateStarts, StateStep, PTL DEF Spec
<1> QED
  BY <1>1, StateInvType, PTL

-----------------------------------------------------------------------------
(* Waiting.                                                                 *)

LEMMA WaitsStep ==
    ASSUME StateInv, WaitsForRequestsOnly, [Next]_vars
    PROVE  WaitsForRequestsOnly'
<1>0. /\ ui = "Loading" => \E s \in Refreshes : get[s].pc # "idle"
      /\ launchInFlight => tap.pc # "idle"
  BY DEF WaitsForRequestsOnly
<1>1. ASSUME \A s \in Refreshes : get[s].pc # "idle" => get'[s].pc # "idle",
             UNCHANGED <<ui, launchInFlight>>, tap.pc # "idle" => tap'.pc # "idle"
      PROVE  WaitsForRequestsOnly'
  BY <1>0, <1>1 DEF WaitsForRequestsOnly, Refreshes
<1>2. ASSUME NEW s \in Refreshes, ListStep(s) PROVE WaitsForRequestsOnly'
  <2>1. UNCHANGED <<tap, ui, launchInFlight>>
    BY <1>2, ListFields DEF phoneVars
  <2>2. PICK r : OneGet(s, r) /\ r.pc # "idle"
    <3>1. CASE ListApps(s)
      <4>1. Replied(401, {}, {}).pc = "reply"
        BY DEF Replied, Idle
      <4> QED
        BY <3>1, <4>1, ListAppsFields
    <3>2. CASE Merge(s)
      BY <3>2, MergeFields
    <3>3. CASE Answer(s)
      <4> DEFINE r == Replied(200, get[s].list, get[s].removed \cap get[s].list)
      <4>1. OneGet(s, r)
        BY <3>3, AnswerFields
      <4>2. r.pc = "reply"
        BY DEF Replied, Idle
      <4> QED
        BY <4>1, <4>2
    <3>4. ASSUME NEW a \in AppIds, Filter(s, a) PROVE \E r : OneGet(s, r) /\ r.pc # "idle"
      BY <3>4, FilterFields
    <3> QED
      BY <1>2, <3>1, <3>2, <3>3, <3>4 DEF ListStep
  <2>3. \A q \in Refreshes : get[q].pc # "idle" => get'[q].pc # "idle"
    BY <2>2, OneGetKept
  <2> QED
    BY <1>1, <2>1, <2>3
<1>3. ASSUME NEW s \in Refreshes, RefreshStep(s) PROVE WaitsForRequestsOnly'
  <2>1. UNCHANGED <<tap, launchInFlight>>
    BY <1>3, RefreshFields
  <2>2. ui' = "Loading" => get'[s].pc = "sent"
    <3>1. Sent(held).pc = "sent"
      BY DEF Sent, Idle
    <3> QED
      BY <1>3, <3>1, RefreshFields, OneGetKept
  <2> QED
    BY <1>0, <2>1, <2>2 DEF WaitsForRequestsOnly, Refreshes
<1>4. CASE LaunchApp
  BY <1>1, <1>4, LaunchFields DEF phoneVars
<1>5. CASE Operator
  <2>1. PICK h \in SUBSET AppIds, sc \in SUBSET ShortcutIds : Becomes(h, sc)
    BY <1>5, OperatorFields
  <2>2. \A s \in Refreshes : get'[s].pc = get[s].pc
    BY <2>1, BecomesFields
  <2>3. tap'.pc = tap.pc
    BY <2>1 DEF Becomes, StateInv, Taps
  <2> QED
    BY <1>1, <1>5, <2>2, <2>3, OperatorFields
<1>6. CASE Restart
  <2>1. \A s \in Refreshes : get[s].pc # "idle" => get'[s].pc # "idle"
    BY <1>6, RestartFields
  <2>2. tap.pc # "idle" => tap'.pc # "idle"
    BY <1>6 DEF Restart, NoTap, StateInv, Taps
  <2> QED
    BY <1>1, <1>6, <2>1, <2>2 DEF Restart
<1>7. CASE Server \/ UNCHANGED vars
  BY <1>1, <1>7 DEF Server, vars, phoneVars
<1>8. CASE PhoneRest
  <2>1. ASSUME NEW a \in AppIds, OnTap(a) PROVE WaitsForRequestsOnly'
    <3>1. CASE held = NoToken
      BY <1>0, <2>1, <3>1 DEF OnTap, Becoming, WaitsForRequestsOnly
    <3>2. CASE held # NoToken
      BY <1>0, <2>1, <3>2 DEF OnTap, NoTap, WaitsForRequestsOnly
    <3> QED
      BY <3>1, <3>2
  <2>2. CASE TapAnswered
    BY <1>0, <2>2 DEF TapAnswered, Becoming, WaitsForRequestsOnly
  <2>3. CASE TapTimesOut
    BY <1>0, <2>3 DEF TapTimesOut, WaitsForRequestsOnly
  <2>4. CASE OnUnauthorized \/ OnDisconnect \/ OnConnected \/ Back
    BY <1>1, <2>4 DEF OnUnauthorized, OnDisconnect, OnConnected, Back
  <2> QED
    BY <1>8, <2>1, <2>2, <2>3, <2>4 DEF PhoneRest
<1>9. CASE Pair
  <2>1. get'[1].pc = "sent" /\ 1 \in Refreshes /\ launchInFlight' = FALSE
    BY <1>9, PairFields DEF Sent, Idle
  <2> QED
    BY <2>1 DEF WaitsForRequestsOnly, Refreshes
<1> QED
  BY <1>2, <1>3, <1>4, <1>5, <1>6, <1>7, <1>8, <1>9, Steps

LEMMA WaitsInvariant == Spec => [](StateInv /\ WaitsForRequestsOnly)
<1>1. Init => WaitsForRequestsOnly
  <2> SUFFICES ASSUME Init PROVE WaitsForRequestsOnly
    OBVIOUS
  <2>1. 1 \in Refreshes /\ get[1].pc = "sent"
    BY BoundsAssumption DEF Init, Refreshes, Sent, Idle
  <2> QED
    BY <2>1 DEF Init, WaitsForRequestsOnly
<1> QED
  BY <1>1, StateStarts, StateStep, WaitsStep, PTL DEF Spec

\* The phone waits only while a request is under way, whatever overlaps.
THEOREM Waits == Spec => []WaitsForRequestsOnly
BY WaitsInvariant, PTL

-----------------------------------------------------------------------------
(* Tokens.                                                                  *)

\* A request carries the token that the phone has, and a refusal under way is
\* a refusal of that one.
Useless == held = NoToken \/ held \notin valid
Carries(token) == held = NoToken \/ token = held

TokenInv ==
    /\ ui = "Unauthorized" => Useless
    /\ \A s \in Refreshes : /\ get[s].pc = "sent" => Carries(get[s].token)
                            /\ get[s].pc = "reply" /\ get[s].code = 401 => Useless
    /\ tap.pc = "sent" => Carries(tap.token)
    /\ tap.pc = "reply" /\ tap.code = 401 => Useless

LEMMA TokenStep ==
    ASSUME StateInv, TokenInv, [Next]_vars
    PROVE  TokenInv'
<1>0. DOMAIN get = Refreshes
  BY DEF StateInv
<1>1. ASSUME valid' \subseteq valid, held' \in {held, NoToken},
             ui' = "Unauthorized" => Useless',
             \A s \in Refreshes : /\ get'[s].pc = "sent" => Carries(get'[s].token)
                                  /\ get'[s].pc = "reply" /\ get'[s].code = 401 => Useless,
             tap'.pc = "sent" => Carries(tap'.token),
             tap'.pc = "reply" /\ tap'.code = 401 => Useless
      PROVE  TokenInv'
  <2>1. Useless => Useless'
    BY <1>1 DEF Useless
  <2>2. \A token : Carries(token) => Carries(token)'
    BY <1>1 DEF Carries
  <2> QED
    BY <1>1, <2>1, <2>2 DEF TokenInv, Refreshes
<1>2. ASSUME NEW s \in Refreshes, NEW r, OneGet(s, r),
             r.pc = "sent" => Carries(r.token),
             r.pc = "reply" /\ r.code = 401 => Useless,
             ui' = "Unauthorized" => Useless,
             UNCHANGED <<tap, held, valid>>
      PROVE  TokenInv'
  <2>1. get'[s] = r /\ \A q \in Refreshes \ {s} : get'[q] = get[q]
    BY <1>2, OneGetKept
  <2>2. Useless' = Useless
    BY <1>2 DEF Useless
  <2>3. \A q \in Refreshes : /\ get'[q].pc = "sent" => Carries(get'[q].token)
                             /\ get'[q].pc = "reply" /\ get'[q].code = 401 => Useless
    BY <1>2, <2>1 DEF TokenInv
  <2> QED
    BY <1>1, <1>2, <2>2, <2>3 DEF TokenInv
<1>3. ASSUME NEW s \in Refreshes, ListStep(s) PROVE TokenInv'
  <2>1. UNCHANGED <<tap, held, valid, ui>>
    BY <1>3, ListFields DEF phoneVars, adminVars
  <2>2. \E r : /\ OneGet(s, r)
               /\ r.pc # "sent"
               /\ r.pc = "reply" /\ r.code = 401 => Useless
    <3>1. CASE ListApps(s)
      <4>1. PICK r : /\ OneGet(s, r) /\ get[s].pc = "sent"
                     /\ \/ r.pc = "merge"
                        \/ get[s].token \notin valid /\ r = Replied(401, {}, {})
        BY <3>1, ListAppsFields
      <4>2. Replied(401, {}, {}).pc = "reply"
        BY DEF Replied, Idle
      <4>3. Carries(get[s].token)
        BY <4>1 DEF TokenInv
      <4> QED
        BY <4>1, <4>2, <4>3 DEF Carries, Useless
    <3>2. CASE Merge(s)
      BY <3>2, MergeFields
    <3>3. CASE Answer(s)
      <4> DEFINE r == Replied(200, get[s].list, get[s].removed \cap get[s].list)
      <4>1. OneGet(s, r)
        BY <3>3, AnswerFields
      <4>2. r.pc = "reply" /\ r.code = 200
        BY DEF Replied, Idle
      <4> HIDE DEF r
      <4> QED
        BY <4>1, <4>2
    <3>4. ASSUME NEW a \in AppIds, Filter(s, a)
          PROVE  \E r : OneGet(s, r) /\ r.pc = "filter"
      BY <3>4, FilterFields
    <3> QED
      BY <1>3, <3>1, <3>2, <3>3, <3>4 DEF ListStep
  <2>3. ui' = "Unauthorized" => Useless
    BY <2>1 DEF TokenInv
  <2> QED
    BY <1>2, <2>1, <2>2, <2>3
<1>4. ASSUME NEW s \in Refreshes, RefreshStep(s) PROVE TokenInv'
  <2>1. UNCHANGED <<tap, held, valid>>
    BY <1>4, RefreshFields DEF adminVars
  <2>2. ui' = "Unauthorized" => Useless
    <3>1. CASE Refresh(s)
      BY <3>1 DEF Refresh, Becoming, Useless
    <3>2. CASE Receive(s)
      <4>1. CASE get[s].code = 401
        BY <3>2, <4>1 DEF Receive, TokenInv
      <4>2. CASE get[s].code # 401
        BY <3>2, <4>2 DEF Receive, Becoming
      <4> QED
        BY <4>1, <4>2
    <3>3. CASE TimeOut(s)
      BY <3>3 DEF TimeOut, Becoming
    <3> QED
      BY <1>4, <3>1, <3>2, <3>3 DEF RefreshStep
  <2>3. CASE get' = get
    BY <1>1, <2>1, <2>2, <2>3 DEF TokenInv, Useless
  <2>4. CASE OneGet(s, Sent(held))
    <3>1. Sent(held).pc = "sent" /\ Sent(held).token = held
      BY DEF Sent, Idle
    <3> QED
      BY <1>2, <2>1, <2>2, <2>4, <3>1 DEF Carries
  <2>5. CASE OneGet(s, Idle)
    <3>1. Idle.pc = "idle"
      BY DEF Idle
    <3> QED
      BY <1>2, <2>1, <2>2, <2>5, <3>1
  <2> QED
    BY <1>4, <2>3, <2>4, <2>5, RefreshFields
<1>5. CASE LaunchApp
  <2>1. UNCHANGED <<get, held, valid, ui>>
    BY <1>5, LaunchFields DEF phoneVars, adminVars
  <2>2. tap'.pc = "reply" /\ (tap'.code = 401 => Useless)
    BY <1>5, LaunchFields DEF TokenInv, Carries, Useless
  <2> QED
    BY <1>1, <2>1, <2>2 DEF TokenInv, Useless
<1>6. CASE Operator
  <2>1. PICK h \in SUBSET AppIds, sc \in SUBSET ShortcutIds : Becomes(h, sc)
    BY <1>6, OperatorFields
  <2>2. \A s \in Refreshes : /\ get'[s].pc = get[s].pc /\ get'[s].token = get[s].token
                             /\ get'[s].code = get[s].code
    BY <2>1, BecomesFields
  <2>3. tap'.pc = tap.pc /\ tap'.token = tap.token /\ tap'.code = tap.code
    BY <2>1 DEF Becomes, StateInv, Taps
  <2>4. UNCHANGED <<valid, held, ui>>
    BY <1>6, OperatorFields
  <2> QED
    BY <1>1, <2>2, <2>3, <2>4 DEF TokenInv, Useless
<1>7. CASE Restart
  <2>1. UNCHANGED <<held, ui>> /\ valid' \subseteq valid
    BY <1>7 DEF Restart
  <2>2. \A s \in Refreshes : /\ get'[s].pc # "sent"
                             /\ get'[s].code = 401 => get[s].pc = "reply" /\ get[s].code = 401
    BY <1>7, RestartFields
  <2>3. tap'.pc # "sent" /\ (tap'.code = 401 => tap.code = 401 /\ tap.pc = tap'.pc)
    BY <1>7 DEF Restart, NoTap, StateInv, Taps
  <2>4. ui' = "Unauthorized" => Useless'
    BY <2>1 DEF TokenInv, Useless
  <2> QED
    BY <1>1, <2>1, <2>2, <2>3, <2>4 DEF TokenInv
<1>8. CASE Server \/ UNCHANGED vars
  <2>1. UNCHANGED <<get, tap, held, valid, ui>>
    BY <1>8 DEF Server, vars, phoneVars, adminVars
  <2> QED
    BY <1>1, <2>1 DEF TokenInv, Useless
<1>9. CASE PhoneRest
  <2>0. UNCHANGED <<valid, get>>
    BY <1>9, PhoneFields DEF adminVars
  <2>1. ASSUME NEW a \in AppIds, OnTap(a) PROVE TokenInv'
    <3>1. CASE held = NoToken
      <4>1. UNCHANGED <<tap, held>> /\ Useless'
        BY <2>1, <3>1 DEF OnTap, Useless
      <4> QED
        BY <1>1, <2>0, <4>1 DEF TokenInv
    <3>2. CASE held # NoToken
      <4>1. UNCHANGED <<held, ui>>
        BY <2>1, <3>2 DEF OnTap
      <4>2. tap'.pc = "sent" /\ tap'.token = held
        BY <2>1, <3>2 DEF OnTap, NoTap
      <4> QED
        BY <1>1, <2>0, <4>1, <4>2 DEF TokenInv, Useless, Carries
    <3> QED
      BY <3>1, <3>2
  <2>2. CASE TapAnswered
    <3>1. UNCHANGED held /\ tap'.pc = "idle"
      BY <2>2 DEF TapAnswered, NoTap
    <3>2. ui' = "Unauthorized" => Useless
      <4>1. CASE tap.code = 401
        BY <2>2, <4>1 DEF TapAnswered, TokenInv
      <4>2. CASE tap.code # 401
        BY <2>2, <4>2 DEF TapAnswered, TokenInv
      <4> QED
        BY <4>1, <4>2
    <3> QED
      BY <1>1, <2>0, <3>1, <3>2 DEF TokenInv, Useless
  <2>3. CASE TapTimesOut
    <3>1. UNCHANGED <<held, ui>> /\ tap'.pc = "idle"
      BY <2>3 DEF TapTimesOut, NoTap
    <3> QED
      BY <1>1, <2>0, <3>1 DEF TokenInv, Useless
  <2>4. CASE OnUnauthorized \/ OnDisconnect
    <3>1. UNCHANGED <<tap, ui>> /\ held' = NoToken
      BY <2>4 DEF OnUnauthorized, OnDisconnect
    <3> QED
      BY <1>1, <2>0, <3>1 DEF TokenInv, Useless
  <2>5. CASE OnConnected \/ Back
    <3>1. UNCHANGED <<tap, ui, held>>
      BY <2>5 DEF OnConnected, Back
    <3> QED
      BY <1>1, <2>0, <3>1 DEF TokenInv, Useless
  <2> QED
    BY <1>9, <2>1, <2>2, <2>3, <2>4, <2>5 DEF PhoneRest
<1>10. CASE Pair
  <2>1. ASSUME NEW s \in Refreshes
        PROVE  /\ get'[s].pc # "reply"
               /\ get'[s].pc = "sent" => get'[s].token = held'
    <3>1. Sent(minted + 1).pc = "sent" /\ Sent(minted + 1).token = minted + 1
      BY DEF Sent, Idle
    <3>2. Idle.pc = "idle"
      BY DEF Idle
    <3>3. get'[s] = Sent(minted + 1) \/ get'[s] = Idle
      BY <1>10, PairFields
    <3>4. held' = minted + 1
      BY <1>10, PairFields
    <3> QED
      BY ONLY <3>1, <3>2, <3>3, <3>4
  <2>2. tap'.pc = "idle" /\ ui' = "Loading"
    BY <1>10, PairFields DEF NoTap
  <2> QED
    BY <2>1, <2>2 DEF TokenInv, Carries, Refreshes
<1> QED
  BY <1>3, <1>4, <1>5, <1>6, <1>7, <1>8, <1>9, <1>10, Steps

\* The phone drops by itself no token that the server accepts.
THEOREM Kept == Spec => TokenKept
<1>1. Init => TokenInv
  <2> SUFFICES ASSUME Init PROVE TokenInv
    OBVIOUS
  <2>1. \A s \in Refreshes : get[s].pc # "reply" /\ (get[s].pc = "sent" => get[s].token = held)
    BY DEF Init, Sent, Idle
  <2> QED
    BY <2>1 DEF Init, TokenInv, Carries, NoTap
<1>2. Spec => [](StateInv /\ TokenInv)
  BY <1>1, StateStarts, StateStep, TokenStep, PTL DEF Spec
<1>3. ASSUME StateInv, TokenInv, Next, held # NoToken, held' = NoToken, screen' = "pairing"
      PROVE  held \notin valid
  <2>1. CASE OnUnauthorized
    BY <1>3, <2>1 DEF OnUnauthorized, TokenInv, Useless
  <2>2. CASE Pair
    BY <1>3, <2>2, PairFields DEF NoToken
  <2>3. ASSUME NEW s \in Refreshes, ListStep(s) PROVE FALSE
    BY <1>3, <2>3, ListFields DEF phoneVars
  <2>4. ASSUME NEW s \in Refreshes, RefreshStep(s) PROVE FALSE
    BY <1>3, <2>4, RefreshFields
  <2>5. CASE LaunchApp \/ Operator \/ Restart \/ Server
    BY <1>3, <2>5, LaunchFields, OperatorFields DEF Restart, Server, phoneVars
  <2>6. CASE PhoneRest /\ ~OnUnauthorized
    BY <1>3, <2>6 DEF PhoneRest, OnTap, TapAnswered, TapTimesOut, OnDisconnect,
       OnConnected, Back
  <2> QED
    BY <1>3, <2>1, <2>2, <2>3, <2>4, <2>5, <2>6, Steps
<1> QED
  BY <1>2, <1>3, PTL DEF Spec, TokenKept

-----------------------------------------------------------------------------
(* The table that a scan installs.                                          *)

LEMMA CatalogSteps ==
    ASSUME StateInv, [Next]_vars
    PROVE  CatalogNext \/ CatalogRestarts \/ UNCHANGED catalogVars
<1>1. ASSUME NEW s \in Refreshes, ListStep(s) PROVE UNCHANGED catalogVars
  BY <1>1, ListFields
<1>2. ASSUME NEW s \in Refreshes, RefreshStep(s) PROVE UNCHANGED catalogVars
  BY <1>2, RefreshFields
<1>3. CASE LaunchApp \/ Operator \/ PhoneRest \/ Pair
  BY <1>3, LaunchFields, OperatorFields, PhoneFields, PairFields
<1>4. CASE Restart \/ Server \/ UNCHANGED vars
  BY <1>4 DEF Restart, Server, vars
<1> QED
  BY <1>1, <1>2, <1>3, <1>4, Steps

\* With no file left, the best of those that were met is the best of all.
LEMMA MergeDone ==
    ASSUME CatalogTypeOK, MergeInv
    PROVE  CatalogIsTheMerge
<1> SUFFICES ASSUME server = "scanning", left = {}, NEW i \in Ids
             PROVE  LET text(f) == Written(disk[Dir(f)][Name(f)])
                        listed == {f \in Walk : IdOf[Name(f)] = i /\ Launchable(text(f))}
                    IN \/ listed = {} /\ found[i] = None
                       \/ \E f \in listed : /\ \A g \in listed \ {f} : Before(g, f)
                                            /\ found[i] = text(f)
  BY DEF CatalogIsTheMerge
<1> DEFINE text(f) == Written(disk[Dir(f)][Name(f)])
           listed == {f \in Walk : IdOf[Name(f)] = i /\ Launchable(text(f))}
           met == {f \in Walk : IdOf[Name(f)] = i /\ Launchable(Entry(f))}
<1>1. \A f \in Walk : Entry(f) = text(f)
  BY FileType, ContentsAssumption, ReadsWhatIsWritten DEF Entry
<1>2. listed = met
  BY <1>1
<1>3. \/ met = {} /\ found[i] = None
      \/ \E f \in met : /\ \A g \in met \ {f} : Before(g, f)
                        /\ found[i] = Entry(f)
  <2>1. Best(i, Walk \ left) /\ Walk \ left = Walk
    BY DEF MergeInv
  <2> QED
    BY <2>1 DEF Best
<1>4. \A f \in met : Entry(f) = text(f)
  BY <1>1
<1>5. \/ listed = {} /\ found[i] = None
      \/ \E f \in listed : /\ \A g \in listed \ {f} : Before(g, f)
                           /\ found[i] = text(f)
  <2> HIDE DEF met, listed, text
  <2> QED
    BY <1>2, <1>3, <1>4
<1> QED
  BY <1>5

\* Whatever the directories hold, a scan installs the merge of what is written
\* in them.
THEOREM Merged == Spec => []CatalogIsTheMerge
<1>1. Init => MergeInv
  BY MergeStarts DEF Init, CatalogInit
<1>2. ASSUME StateInv, MergeInv, [Next]_vars PROVE MergeInv'
  <2>1. CatalogTypeOK
    BY <1>2 DEF StateInv
  <2> QED
    BY <1>2, <2>1, CatalogSteps, MergeStep
<1>3. Spec => [](StateInv /\ MergeInv)
  BY <1>1, <1>2, StateStarts, StateStep, PTL DEF Spec
<1>4. StateInv /\ MergeInv => CatalogIsTheMerge
  BY MergeDone DEF StateInv
<1> QED
  BY <1>3, <1>4, PTL

-----------------------------------------------------------------------------
(* Lists.                                                                   *)

Present == Known(shortcuts)

\* What is on the screen, in an answer or in a tap, and was not removed since,
\* is what the launch handler knows.
KnownInv ==
    /\ shown \ suspect \subseteq Present
    /\ \A s \in Refreshes : get[s].list \ get[s].removed \subseteq Present
    /\ tap.pc = "sent" /\ ~tap.excused => tap.app \in Present
    /\ tap.pc = "sent" /\ tap.whole => Whole(tap.app)
    /\ ShownIsLaunchable

\* What a request under way has noted.
AnswerInv ==
    \A s \in Refreshes : get[s].pc \in {"merge", "filter"} =>
        /\ get[s].always \subseteq (Present \ hidden)
        /\ AppIds \ hidden \subseteq get[s].visible
        /\ Present \subseteq get[s].known
        /\ get[s].list \subseteq get[s].known
        /\ get[s].pc = "merge" => get[s].list = Listed
        /\ get[s].pc = "filter" => /\ get[s].always \subseteq get[s].list
                                   /\ get[s].list \ get[s].todo \subseteq get[s].visible

\* Reload only adds to what there is; nothing is removed but by the operator.
LEMMA PresentGrows ==
    ASSUME StateInv, UNCHANGED shortcuts, CatalogNext \/ UNCHANGED catalogVars
    PROVE  /\ Present \subseteq Present'
           /\ server = "up" => Present' = Present /\ Listed' = Listed
<1>1. CASE UNCHANGED byID
  BY <1>1 DEF Present, Known, Listed
<1>2. CASE Reload
  <2>1. Listed = {}
    BY <1>2 DEF Reload, StateInv, Handling, Listed, NoApps
  <2> QED
    BY <1>2, <2>1 DEF Reload, Present, Known
<1> QED
  BY <1>1, <1>2 DEF CatalogNext, ScanFile, catalogVars

\* No request has been handled yet.
LEMMA AnswerStarts == Init => AnswerInv
<1> SUFFICES ASSUME Init PROVE AnswerInv
  OBVIOUS
<1>1. \A s \in Refreshes : get[s].pc \notin {"merge", "filter"}
  BY DEF Init, Sent, Idle
<1> QED
  BY <1>1 DEF AnswerInv

\* What is noted holds of a refresh: AnswerInv, for one of them.
Noted(r) ==
    r.pc \in {"merge", "filter"} =>
        /\ r.always \subseteq (Present \ hidden)
        /\ AppIds \ hidden \subseteq r.visible
        /\ Present \subseteq r.known
        /\ r.list \subseteq r.known
        /\ r.pc = "merge" => r.list = Listed
        /\ r.pc = "filter" => /\ r.always \subseteq r.list
                              /\ r.list \ r.todo \subseteq r.visible

LEMMA AnswerStep ==
    ASSUME StateInv, AnswerInv, [Next]_vars
    PROVE  AnswerInv'
<1>1. \A s \in Refreshes : Noted(get[s])
  BY DEF AnswerInv, Noted
<1>2. ASSUME UNCHANGED <<hidden, shortcuts, byID>>, \A s \in Refreshes : Noted(get'[s])
      PROVE  AnswerInv'
  BY <1>2 DEF AnswerInv, Noted, Present, Known, Listed, Refreshes
<1>3. ASSUME NEW s \in Refreshes, ListStep(s) PROVE AnswerInv'
  <2>1. UNCHANGED <<hidden, shortcuts, byID>>
    BY <1>3, ListFields DEF adminVars, catalogVars
  <2>2. PICK r : OneGet(s, r) /\ Noted(r)
    <3>1. CASE ListApps(s)
      <4>1. PICK r : /\ OneGet(s, r)
                     /\ \/ /\ r.pc = "merge" /\ r.list = Listed
                           /\ r.known = Known(shortcuts)
                           /\ r.visible = AppIds \ hidden
                           /\ r.always = Known(shortcuts) \ hidden
                        \/ r = Replied(401, {}, {})
        BY <3>1, ListAppsFields
      <4>2. Replied(401, {}, {}).pc = "reply"
        BY DEF Replied, Idle
      <4>3. Noted(r)
        BY <4>1, <4>2 DEF Noted, Present, Known
      <4> QED
        BY <4>1, <4>3
    <3>2. CASE Merge(s)
      <4>1. PICK r : /\ OneGet(s, r) /\ get[s].pc = "merge" /\ r.pc = "filter"
                     /\ r.list = get[s].list \cup {PrefixedID(c) : c \in shortcuts}
                     /\ r.todo = r.list /\ r.always = get[s].always
                     /\ r.known = get[s].known /\ r.visible = get[s].visible
        BY <3>2, MergeFields
      <4>2. get[s].list = Listed /\ r.list = Present
        BY <1>1, <4>1 DEF Noted, Present, Known
      <4>3. Noted(r)
        BY <1>1, <4>1, <4>2 DEF Noted
      <4> QED
        BY <4>1, <4>3
    <3>3. CASE Answer(s)
      <4>1. Replied(200, get[s].list, get[s].removed \cap get[s].list).pc = "reply"
        BY DEF Replied, Idle
      <4> QED
        BY <3>3, <4>1, AnswerFields DEF Noted
    <3>4. ASSUME NEW a \in AppIds, Filter(s, a) PROVE \E r : OneGet(s, r) /\ Noted(r)
      <4>1. PICK r : /\ OneGet(s, r) /\ get[s].pc = "filter" /\ r.pc = "filter"
                     /\ r.todo = get[s].todo \ {a}
                     /\ r.list = IF a \in hidden THEN get[s].list \ {a} ELSE get[s].list
                     /\ r.always = get[s].always /\ r.known = get[s].known
                     /\ r.visible = get[s].visible
        BY <3>4, FilterFields
      <4>2. r.always \subseteq r.list
        BY <1>1, <4>1 DEF Noted
      <4>3. r.list \ r.todo \subseteq r.visible
        BY <1>1, <4>1 DEF Noted
      <4>4. Noted(r)
        BY <1>1, <4>1, <4>2, <4>3 DEF Noted
      <4> QED
        BY <4>1, <4>4
    <3> QED
      BY <1>3, <3>1, <3>2, <3>3, <3>4 DEF ListStep
  <2>3. \A q \in Refreshes : Noted(get'[q])
    BY <1>1, <2>2, OneGetKept
  <2> QED
    BY <1>2, <2>1, <2>3
<1>4. ASSUME NEW s \in Refreshes, RefreshStep(s) PROVE AnswerInv'
  <2>1. UNCHANGED <<hidden, shortcuts, byID>>
    BY <1>4, RefreshFields DEF adminVars, catalogVars
  <2>2. Noted(Sent(held)) /\ Noted(Idle)
    BY DEF Noted, Sent, Idle
  <2>3. \A q \in Refreshes : Noted(get'[q])
    BY <1>1, <1>4, <2>2, RefreshFields, OneGetKept
  <2> QED
    BY <1>2, <2>1, <2>3
<1>5. CASE LaunchApp \/ PhoneRest
  <2>1. UNCHANGED <<get, hidden, shortcuts, byID>>
    BY <1>5, LaunchFields, PhoneFields DEF adminVars, catalogVars, phoneVars
  <2> QED
    BY <1>1, <1>2, <2>1
<1>6. CASE Operator
  <2>1. PICK h \in SUBSET AppIds, sc \in SUBSET ShortcutIds : Becomes(h, sc)
    BY <1>6, OperatorFields
  <2>2. hidden' = h /\ shortcuts' = sc
    BY <2>1 DEF Becomes
  <2>3. Present' = Known(sc) /\ Listed' = Listed
    BY <1>6, <2>2, OperatorFields DEF catalogVars, Present, Known, Listed
  <2>4. ASSUME NEW s \in Refreshes, get'[s].pc \in {"merge", "filter"}
        PROVE  /\ get[s].pc = get'[s].pc /\ get'[s].list = get[s].list
               /\ get'[s].todo = get[s].todo
               /\ get'[s].always = get[s].always \cap (Known(sc) \ h)
               /\ get'[s].known = get[s].known \cup Known(sc)
               /\ get'[s].visible = get[s].visible \cup (AppIds \ h)
    <3>1. get'[s].pc = get[s].pc
      BY <2>1, BecomesFields
    <3>2. get[s].pc \in {"merge", "filter"}
      BY <2>4, <3>1
    <3>3. get'[s].list = get[s].list /\ get'[s].todo = get[s].todo
      BY <2>1, BecomesFields
    <3>4. /\ get'[s].always = get[s].always \cap (Known(sc) \ h)
          /\ get'[s].known = get[s].known \cup Known(sc)
          /\ get'[s].visible = get[s].visible \cup (AppIds \ h)
      BY <2>1, <3>2, BecomesFields
    <3> QED
      BY <3>1, <3>3, <3>4
  <2>5. ASSUME NEW s \in Refreshes, get'[s].pc \in {"merge", "filter"}
        PROVE  /\ get'[s].always \subseteq (Present' \ hidden')
               /\ AppIds \ hidden' \subseteq get'[s].visible
               /\ Present' \subseteq get'[s].known
               /\ get'[s].list \subseteq get'[s].known
               /\ get'[s].pc = "merge" => get'[s].list = Listed'
               /\ get'[s].pc = "filter" =>
                     /\ get'[s].always \subseteq get'[s].list
                     /\ get'[s].list \ get'[s].todo \subseteq get'[s].visible
    BY <1>1, <2>2, <2>3, <2>4, <2>5 DEF Noted
  <2> QED
    BY <2>5 DEF AnswerInv, Refreshes, AppIds
<1>7. CASE Restart
  <2>1. \A s \in Refreshes : get'[s].pc \notin {"merge", "filter"}
    BY <1>7, RestartFields
  <2> QED
    BY <2>1 DEF AnswerInv, Refreshes
<1>8. CASE Server \/ UNCHANGED vars
  <2>1. UNCHANGED <<get, hidden, shortcuts>> /\ (CatalogNext \/ UNCHANGED catalogVars)
    BY <1>8 DEF Server, vars, adminVars
  <2>2. ASSUME NEW s \in Refreshes, get[s].pc \in {"merge", "filter"}
        PROVE  Present' = Present /\ Listed' = Listed
    <3>1. server = "up"
      BY <2>2 DEF StateInv, Handling
    <3> QED
      BY <2>1, <3>1, PresentGrows
  <2> QED
    BY <2>1, <2>2 DEF AnswerInv, Refreshes, AppIds
<1>9. CASE Pair
  <2>1. Sent(minted + 1).pc = "sent" /\ Idle.pc = "idle"
    BY DEF Sent, Idle
  <2>2. \A s \in Refreshes : get'[s].pc \notin {"merge", "filter"}
    <3> TAKE s \in Refreshes
    <3>1. get'[s] = Sent(minted + 1) \/ get'[s] = Idle
      BY <1>9, PairFields
    <3> QED
      BY <2>1, <3>1
  <2> QED
    BY <2>2 DEF AnswerInv, Refreshes
<1> QED
  BY <1>3, <1>4, <1>5, <1>6, <1>7, <1>8, <1>9, Steps

\* An answer is right about some moment of its request, application by
\* application, for any number of requests under way and changes meanwhile.
THEOREM Within == Spec => []AnswerWithinHistory
<1>1. Spec => [](StateInv /\ AnswerInv)
  BY StateStarts, StateStep, AnswerStarts, AnswerStep, PTL DEF Spec
<1>2. AnswerInv => AnswerWithinHistory
  BY DEF AnswerInv, AnswerWithinHistory
<1> QED
  BY <1>1, <1>2, PTL

LEMMA KnownStep ==
    ASSUME StateInv, AnswerInv, KnownInv, [Next]_vars
    PROVE  KnownInv'
<1>1. ASSUME Present \subseteq Present',
             shown' \ suspect' \subseteq Present,
             \A s \in Refreshes : get'[s].list \ get'[s].removed \subseteq Present,
             tap'.pc = "sent" /\ ~tap'.excused => tap'.app \in Present,
             tap'.pc = "sent" /\ tap'.whole => Whole(tap'.app),
             tap'.pc = "reply" /\ tap'.code = 404 /\ tap'.whole => tap'.excused
      PROVE  KnownInv'
  BY <1>1 DEF KnownInv, ShownIsLaunchable, Refreshes
<1>2. ASSUME NEW s \in Refreshes, ListStep(s) PROVE KnownInv'
  <2>1. UNCHANGED <<tap, shown, suspect>> /\ Present' = Present
    <3>1. UNCHANGED <<catalogVars, adminVars, tap, phoneVars>>
      BY <1>2, ListFields
    <3> QED
      BY <3>1 DEF phoneVars, adminVars, catalogVars, Present, Known, Listed
  <2>2. PICK r : OneGet(s, r) /\ r.list \ r.removed \subseteq Present
    <3>1. CASE ListApps(s)
      <4>1. Replied(401, {}, {}).list = {}
        BY DEF Replied, Idle
      <4>2. Listed \subseteq Present
        BY DEF Present, Known
      <4> QED
        BY <3>1, <4>1, <4>2, ListAppsFields
    <3>2. CASE Merge(s)
      <4>1. get[s].list \subseteq Present
        BY <3>2, MergeFields DEF AnswerInv, Present, Known
      <4>2. {PrefixedID(c) : c \in shortcuts} \subseteq Present
        BY DEF Present, Known
      <4> QED
        BY <3>2, <4>1, <4>2, MergeFields
    <3>3. CASE Answer(s)
      <4> DEFINE r == Replied(200, get[s].list, get[s].removed \cap get[s].list)
      <4>1. OneGet(s, r)
        BY <3>3, AnswerFields
      <4>2. r.list = get[s].list /\ r.removed = get[s].removed \cap get[s].list
        BY DEF Replied, Idle
      <4> HIDE DEF r
      <4> QED
        BY <4>1, <4>2 DEF KnownInv
    <3>4. ASSUME NEW a \in AppIds, Filter(s, a)
          PROVE  \E r : OneGet(s, r) /\ r.list \ r.removed \subseteq Present
      <4>1. PICK r : /\ OneGet(s, r) /\ r.list \subseteq get[s].list
                     /\ r.removed = get[s].removed
        BY <3>4, FilterFields
      <4> QED
        BY <4>1 DEF KnownInv
    <3> QED
      BY <1>2, <3>1, <3>2, <3>3, <3>4 DEF ListStep
  <2>3. \A q \in Refreshes : get'[q].list \ get'[q].removed \subseteq Present
    BY <2>2, OneGetKept DEF KnownInv
  <2> QED
    BY <1>1, <2>1, <2>3 DEF KnownInv, ShownIsLaunchable
<1>3. ASSUME NEW s \in Refreshes, RefreshStep(s) PROVE KnownInv'
  <2>1. UNCHANGED tap /\ Present' = Present
    BY <1>3, RefreshFields DEF adminVars, catalogVars, Present, Known, Listed
  <2>2. shown' \ suspect' \subseteq Present
    <3>1. CASE Refresh(s)
      BY <3>1 DEF Refresh, Becoming
    <3>2. CASE TimeOut(s)
      BY <3>2 DEF TimeOut, Becoming
    <3>3. CASE Receive(s)
      <4>1. \/ shown' = get[s].list /\ suspect' = get[s].removed
            \/ shown' = {}
        <5>1. CASE get[s].code = 200 /\ get[s].list # {}
          BY <3>3, <5>1 DEF Receive, Becoming
        <5>2. CASE get[s].code = 200 /\ get[s].list = {}
          BY <3>3, <5>2 DEF Receive, Becoming
        <5>3. CASE get[s].code = 401
          BY <3>3, <5>3 DEF Receive, Becoming
        <5>4. CASE get[s].code \notin {200, 401}
          BY <3>3, <5>4 DEF Receive, Becoming
        <5> QED
          BY <5>1, <5>2, <5>3, <5>4
      <4> QED
        BY <4>1 DEF KnownInv
    <3> QED
      BY <1>3, <3>1, <3>2, <3>3 DEF RefreshStep
  <2>3. Sent(held).list = {} /\ Idle.list = {}
    BY DEF Sent, Idle
  <2>4. \A q \in Refreshes : get'[q].list \ get'[q].removed \subseteq Present
    BY <1>3, <2>3, RefreshFields, OneGetKept DEF KnownInv
  <2> QED
    BY <1>1, <2>1, <2>2, <2>4 DEF KnownInv, ShownIsLaunchable
<1>4. CASE LaunchApp
  <2>1. UNCHANGED <<get, shown, suspect>> /\ Present' = Present
    BY <1>4, LaunchFields DEF phoneVars, adminVars, catalogVars, Present, Known, Listed
  <2>2. tap'.pc = "reply" /\ (tap'.code = 404 /\ tap'.whole => tap'.excused)
    BY <1>4, LaunchFields DEF KnownInv, StateInv, Taps, Present
  <2> QED
    BY <1>1, <2>1, <2>2 DEF KnownInv
<1>5. CASE Operator
  <2>1. PICK h \in SUBSET AppIds, sc \in SUBSET ShortcutIds : Becomes(h, sc)
    BY <1>5, OperatorFields
  <2>2. UNCHANGED <<byID, shown>> /\ shortcuts' = sc /\ suspect' = suspect \cup (Removed(sc) \cap shown)
    BY <1>5, <2>1, OperatorFields DEF Becomes, catalogVars, Removed
  <2>3. Present \ Removed(sc) \subseteq Present'
    BY <2>2 DEF Present, Known, Listed, Removed
  <2>4. \A s \in Refreshes : /\ get'[s].list = get[s].list
                             /\ get'[s].removed = get[s].removed \cup (Removed(sc) \cap get[s].list)
    BY <2>1, BecomesFields
  <2>5. /\ tap'.pc = tap.pc /\ tap'.code = tap.code /\ tap'.app = tap.app
        /\ tap'.whole = tap.whole
        /\ tap.excused => tap'.excused
        /\ tap.app \in Removed(sc) => tap'.excused
    BY <2>1 DEF Becomes, StateInv, Taps, Removed
  <2>6. shown' \ suspect' \subseteq Present'
    BY <2>2, <2>3 DEF KnownInv
  <2>7. \A s \in Refreshes : get'[s].list \ get'[s].removed \subseteq Present'
    BY <2>3, <2>4 DEF KnownInv
  <2>8. tap'.pc = "sent" /\ ~tap'.excused => tap'.app \in Present'
    BY <2>3, <2>5 DEF KnownInv
  <2>9. ShownIsLaunchable'
    BY <2>5 DEF KnownInv, ShownIsLaunchable
  <2>10. tap'.pc = "sent" /\ tap'.whole => Whole(tap'.app)
    BY <2>5 DEF KnownInv
  <2> QED
    BY <2>6, <2>7, <2>8, <2>9, <2>10 DEF KnownInv, Refreshes, Whole
<1>6. CASE Restart
  <2>1. shown' = shown /\ suspect' = shown
    BY <1>6 DEF Restart
  <2>2. \A s \in Refreshes : get'[s].list \ get'[s].removed = {}
    <3> TAKE s \in Refreshes
    <3>1. get'[s].list = {} \/ get'[s].removed = get'[s].list
      BY <1>6, RestartFields
    <3> QED
      BY <3>1
  <2>3. tap'.pc # "sent" /\ (tap'.code = 404 => tap' = tap)
    BY <1>6 DEF Restart, NoTap, StateInv, Taps
  <2> QED
    BY <2>1, <2>2, <2>3 DEF KnownInv, ShownIsLaunchable, Refreshes
<1>7. CASE Server \/ UNCHANGED vars
  <2>1. UNCHANGED <<get, tap, shown, suspect>> /\ Present \subseteq Present'
    BY <1>7, PresentGrows DEF Server, vars, phoneVars, adminVars
  <2> QED
    BY <1>1, <2>1 DEF KnownInv, ShownIsLaunchable
<1>8. CASE PhoneRest
  <2>1. UNCHANGED get /\ Present' = Present
    BY <1>8, PhoneFields DEF adminVars, catalogVars, Present, Known, Listed
  <2>2. shown' \ suspect' \subseteq Present
    <3>1. \/ UNCHANGED <<shown, suspect>>
          \/ shown' = {}
      BY <1>8 DEF PhoneRest, OnTap, TapAnswered, TapTimesOut, OnUnauthorized,
         OnDisconnect, OnConnected, Back, Becoming
    <3> QED
      BY <3>1 DEF KnownInv
  <2>3. \/ tap' = tap \/ tap' = NoTap
        \/ \E a \in AppIds : OnTap(a) /\ held # NoToken
    BY <1>8 DEF PhoneRest, OnTap, TapAnswered, TapTimesOut, OnUnauthorized,
       OnDisconnect, OnConnected, Back
  <2>4. ASSUME NEW a \in AppIds, OnTap(a), held # NoToken
        PROVE  /\ tap'.pc = "sent" /\ (~tap'.excused => tap'.app \in Present)
               /\ tap'.whole => Whole(tap'.app)
    <3>1. /\ tap' = [NoTap EXCEPT !.pc = "sent", !.token = held, !.app = a,
                                  !.whole = Whole(a), !.excused = a \in suspect]
          /\ a \in shown
      BY <2>4 DEF OnTap
    <3>2. /\ tap'.pc = "sent" /\ tap'.app = a /\ tap'.excused = (a \in suspect)
          /\ tap'.whole = Whole(a)
      BY <3>1 DEF NoTap
    <3> QED
      BY <3>1, <3>2 DEF KnownInv
  <2>5. NoTap.pc = "idle"
    BY DEF NoTap
  <2> QED
    BY <1>1, <2>1, <2>2, <2>3, <2>4, <2>5 DEF KnownInv, ShownIsLaunchable
<1>9. CASE Pair
  <2>1. Sent(minted + 1).list = {} /\ Idle.list = {} /\ NoTap.pc = "idle"
    BY DEF Sent, Idle, NoTap
  <2>2. \A s \in Refreshes : get'[s].list = {}
    BY <1>9, <2>1, PairFields
  <2>3. tap'.pc = "idle" /\ shown' = {}
    BY <1>9, <2>1, PairFields
  <2> QED
    BY <2>2, <2>3 DEF KnownInv, ShownIsLaunchable, Refreshes
<1> QED
  BY <1>2, <1>3, <1>4, <1>5, <1>6, <1>7, <1>8, <1>9, Steps

\* A tap on what is shown finds its application if its URL carries the id, for
\* any overlap of refreshes, taps, changes by the operator and restarts, and
\* whatever URLs make of ids.
THEOREM Found == Spec => []ShownIsLaunchable
<1>1. Init => KnownInv
  <2> SUFFICES ASSUME Init PROVE KnownInv
    OBVIOUS
  <2>1. \A s \in Refreshes : get[s].list = {}
    BY DEF Init, Sent, Idle
  <2>2. tap.pc = "idle" /\ shown = {}
    BY DEF Init, NoTap
  <2> QED
    BY <2>1, <2>2 DEF KnownInv, ShownIsLaunchable
<1>2. Spec => [](StateInv /\ AnswerInv /\ KnownInv)
  BY <1>1, StateStarts, StateStep, AnswerStarts, AnswerStep, KnownStep, PTL DEF Spec
<1>3. KnownInv => ShownIsLaunchable
  BY DEF KnownInv
<1> QED
  BY <1>2, <1>3, PTL

=============================================================================
