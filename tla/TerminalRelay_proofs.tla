------------------------ MODULE TerminalRelay_proofs ------------------------
(***************************************************************************)
(* Proofs about TerminalRelay, for any number of keys.                     *)
(***************************************************************************)
EXTENDS TerminalRelay, TLAPS

\* Nothing is read for a handler that has not started.
FreshInv == handler = "idle" => in = "none"

LEMMA FreshInvariant == Spec => []FreshInv
<1>1. Init => FreshInv
  BY DEF Init, FreshInv
<1>2. FreshInv /\ [Next]_vars => FreshInv'
  BY DEF FreshInv, Next, vars, Handler, Refuse, Accept, StartFails, CloseSession, Reap,
         Bye, Die, OutRelay, OutReads, OutEnds, OutWrites, OutWriteFails, InRelay,
         InReads, InReadFails, InWrites, InWriteFails, Terminal, ShellExits, IgnoreHup,
         JobStarts, JobEnds, Bridge, PageReady, Boot, Opened, Ended, Type, Disconnect,
         SendFrame, Lose, Notice
<1> QED
  BY <1>1, <1>2, PTL DEF Spec

\* Types of both ends, of the session and of the keys between them.
THEOREM TypeCorrect == Spec => []TypeOK
<1>1. Init => TypeOK
  <2>1. <<>> \in Seq(Keys) /\ 0 \in 0..MaxKeys
    BY ConstantsAssumption
  <2> QED
    BY <2>1 DEF Init, TypeOK
<1>2. TypeOK /\ FreshInv /\ [Next]_vars => TypeOK'
  <2> SUFFICES ASSUME TypeOK, FreshInv, [Next]_vars PROVE TypeOK'
    OBVIOUS
  <2> USE ConstantsAssumption
  <2>1. CASE Handler
    <3>1. CASE Accept
      BY <3>1 DEF Accept, TypeOK, FreshInv, phone, keys
    <3>2. CASE Die
      BY <3>2 DEF Die, TypeOK, phone, keys
    <3>3. CASE Refuse \/ StartFails \/ CloseSession \/ Bye
      BY <3>3 DEF Refuse, StartFails, CloseSession, Bye, TypeOK, phone, keys, shells
    <3>4. CASE Reap
      BY <3>4 DEF Reap, TypeOK, phone, keys
    <3> QED
      BY <2>1, <3>1, <3>2, <3>3, <3>4 DEF Handler
  <2>2. CASE OutRelay
    BY <2>2 DEF OutRelay, OutReads, OutEnds, OutWrites, OutWriteFails, TypeOK, Keys,
                phone, keys, shells
  <2>3. CASE InRelay
    <3>1. CASE InReads
      <4>1. Head(wire) \in Keys /\ Tail(wire) \in Seq(Keys)
        BY <3>1 DEF InReads, TypeOK
      <4>2. Head(wire) # 0
        BY <4>1 DEF Keys
      <4> QED
        BY <3>1, <4>1, <4>2 DEF InReads, TypeOK, phone, shells
    <3>2. CASE InWrites
      <4>1. Append(input, holds) \in Seq(Keys)
        BY <3>2 DEF InWrites, TypeOK
      <4> QED
        BY <3>2, <4>1 DEF InWrites, TypeOK, phone, shells
    <3>3. CASE InReadFails \/ InWriteFails
      BY <3>3 DEF InReadFails, InWriteFails, TypeOK, phone, keys, shells
    <3> QED
      BY <2>3, <3>1, <3>2, <3>3 DEF InRelay
  <2>4. CASE Terminal
    BY <2>4 DEF Terminal, ShellExits, IgnoreHup, JobStarts, JobEnds, TypeOK, Keys,
                phone, keys, shells
  <2>5. CASE Bridge
    <3>1. CASE Type
      BY <3>1 DEF Type, TypeOK, Keys, phone, shells
    <3>2. ASSUME NEW k \in Keys, SendFrame(k) PROVE TypeOK'
      <4>1. Append(wire, k) \in Seq(Keys)
        BY <3>2 DEF TypeOK
      <4> QED
        BY <3>2, <4>1 DEF SendFrame, TypeOK, phone, shells
    <3>3. CASE Disconnect
      BY <3>3 DEF Disconnect, TypeOK, Keys, shells
    <3>4. CASE PageReady \/ Boot \/ Opened \/ Ended
      BY <3>4 DEF PageReady, Boot, Opened, Ended, TypeOK, keys, shells
    <3> QED
      BY <2>5, <3>1, <3>2, <3>3, <3>4 DEF Bridge
  <2>6. CASE Lose \/ Notice
    BY <2>6 DEF Lose, Notice, TypeOK, phone, keys, shells
  <2>7. CASE UNCHANGED vars
    BY <2>7 DEF vars, phone, keys, shells, TypeOK
  <2> QED
    BY <2>1, <2>2, <2>3, <2>4, <2>5, <2>6, <2>7 DEF Next
<1> QED
  BY <1>1, <1>2, FreshInvariant, PTL DEF Spec

-----------------------------------------------------------------------------
(* Why a session ends.                                                      *)

\* The PTY is closed only once the context is cancelled, or by the death of
\* the server, which ends both goroutines.
ClosedInv ==
    ptmx = "closed" =>
        ctx \/ (handler = "dead" /\ out = "done" /\ in = "done")

LEMMA ClosedInvariant == Spec => []ClosedInv
<1>1. Init => ClosedInv
  BY DEF Init, ClosedInv
<1>2. ClosedInv /\ [Next]_vars => ClosedInv'
  <2> SUFFICES ASSUME ClosedInv, [Next]_vars PROVE ClosedInv'
    OBVIOUS
  <2>1. CASE Handler
    BY <2>1 DEF Handler, Refuse, Accept, StartFails, CloseSession, Reap, Bye, Die,
                ClosedInv
  <2>2. CASE OutRelay
    BY <2>2 DEF OutRelay, OutReads, OutEnds, OutWrites, OutWriteFails, ClosedInv
  <2>3. CASE InRelay
    BY <2>3 DEF InRelay, InReads, InReadFails, InWrites, InWriteFails, ClosedInv
  <2>4. CASE Terminal
    BY <2>4 DEF Terminal, ShellExits, IgnoreHup, JobStarts, JobEnds, ClosedInv
  <2>5. CASE Bridge
    BY <2>5 DEF Bridge, PageReady, Boot, Opened, Ended, Type, Disconnect, SendFrame,
                ClosedInv
  <2>6. CASE Lose \/ Notice \/ UNCHANGED vars
    BY <2>6 DEF Lose, Notice, vars, ClosedInv
  <2> QED
    BY <2>1, <2>2, <2>3, <2>4, <2>5, <2>6 DEF Next
<1> QED
  BY <1>1, <1>2, PTL DEF Spec

\* The relay cancels its context only when the connection is gone or nobody
\* uses the terminal any more.
THEOREM Reasons == Spec => EndsForAReason
<1>1. ClosedInv /\ [Next]_vars =>
        [~ctx /\ ctx' => conn \in {"lost", "closed"} \/ ~TerminalInUse]_vars
  <2> SUFFICES ASSUME ClosedInv, Next, ~ctx, ctx'
               PROVE  conn \in {"lost", "closed"} \/ ~TerminalInUse
    OBVIOUS
  <2>1. CASE Handler
    BY <2>1 DEF Handler, Refuse, Accept, StartFails, CloseSession, Reap, Bye, Die
  <2>2. CASE OutRelay
    BY <2>2 DEF OutRelay, OutReads, OutEnds, OutWrites, OutWriteFails, ClosedInv
  <2>3. CASE InRelay
    BY <2>3 DEF InRelay, InReads, InReadFails, InWrites, InWriteFails, ClosedInv
  <2>4. CASE Terminal
    BY <2>4 DEF Terminal, ShellExits, IgnoreHup, JobStarts, JobEnds
  <2>5. CASE Bridge
    BY <2>5 DEF Bridge, PageReady, Boot, Opened, Ended, Type, Disconnect, SendFrame
  <2>6. CASE Lose \/ Notice
    BY <2>6 DEF Lose, Notice
  <2> QED
    BY <2>1, <2>2, <2>3, <2>4, <2>5, <2>6 DEF Next
<1> QED
  BY ClosedInvariant, <1>1, PTL DEF Spec, EndsForAReason

-----------------------------------------------------------------------------
(* Keys.                                                                    *)

\* How many keys have left the phone and can still reach the terminal, or
\* have.
Held == IF holds = 0 THEN 0 ELSE 1
Sent == Len(input) + Held + Len(wire)

\* Nothing is typed calmly before the connection is open, and one that has
\* been asked for or lost is not open on the screen.
ScreenInv ==
    /\ calm /\ screen \in {"loading", "injected", "dialing"} =>
          typed = 0 /\ launched = {}
    /\ screen = "open" => conn \in {"open", "lost", "closed"}

\* While "in" reads, the keys on the terminal, the one in its hand and those on
\* the wire are the first ones that were typed, and all of them but the one
\* that waits to be sent, as long as both ends have the connection open.
KeysInv ==
    calm =>
      /\ launched \subseteq {typed}
      /\ \A i \in DOMAIN input : input[i] = i
      /\ in # "done" =>
           /\ holds # 0 => holds = Len(input) + 1
           /\ \A i \in DOMAIN wire : wire[i] = Len(input) + Held + i
           /\ Sent <= typed
           /\ screen = "open" /\ conn = "open" =>
                (launched = {} => typed = Sent) /\ (launched # {} => typed = Sent + 1)

\* What makes a key calm.
LEMMA CalmType ==
    ASSUME Type PROVE calm' => calm /\ screen = "open" /\ launched = {}
BY Zenon DEF Type

LEMMA ScreenInvariant == Spec => []ScreenInv
<1>1. Init => ScreenInv
  BY DEF Init, ScreenInv
<1>2. ScreenInv /\ [Next]_vars => ScreenInv'
  <2> SUFFICES ASSUME ScreenInv, [Next]_vars PROVE ScreenInv'
    OBVIOUS
  <2>1. CASE Handler
    BY <2>1 DEF Handler, Refuse, Accept, StartFails, CloseSession, Reap, Bye, Die,
                ScreenInv, phone, keys
  <2>2. CASE OutRelay
    BY <2>2 DEF OutRelay, OutReads, OutEnds, OutWrites, OutWriteFails, ScreenInv, phone,
                keys
  <2>3. CASE InRelay
    BY <2>3 DEF InRelay, InReads, InReadFails, InWrites, InWriteFails, ScreenInv, phone,
                keys
  <2>4. CASE Terminal
    BY <2>4 DEF Terminal, ShellExits, IgnoreHup, JobStarts, JobEnds, ScreenInv, phone,
                keys
  <2>5. CASE Bridge
    <3>1. CASE Type
      BY <3>1, CalmType DEF Type, ScreenInv, phone
    <3>2. CASE PageReady
      BY <3>2 DEF PageReady, ScreenInv, keys
    <3>3. CASE Boot
      BY <3>3 DEF Boot, ScreenInv, keys
    <3>4. CASE Opened \/ Ended
      BY <3>4 DEF Opened, Ended, ScreenInv, keys
    <3>5. CASE Disconnect
      BY <3>5 DEF Disconnect, ScreenInv
    <3>6. ASSUME NEW k \in Keys, SendFrame(k) PROVE ScreenInv'
      BY <3>6 DEF SendFrame, ScreenInv, phone
    <3> QED
      BY <2>5, <3>1, <3>2, <3>3, <3>4, <3>5, <3>6 DEF Bridge
  <2>6. CASE Lose \/ Notice \/ UNCHANGED vars
    BY <2>6 DEF Lose, Notice, vars, ScreenInv, phone, keys
  <2> QED
    BY <2>1, <2>2, <2>3, <2>4, <2>5, <2>6 DEF Next
<1> QED
  BY <1>1, <1>2, PTL DEF Spec

\* Steps that neither move a key nor open a connection.
LEMMA KeysKept ==
    ASSUME KeysInv, UNCHANGED keys, UNCHANGED screen,
           in' = "done" \/ (UNCHANGED holds /\ (in = "done" => in' = "done")),
           screen = "open" /\ conn' = "open" => conn = "open"
    PROVE  KeysInv'
BY DEF KeysInv, keys, Held, Sent

LEMMA KeysStep ==
    ASSUME TypeOK, TypeOK', FreshInv, ScreenInv, KeysInv, Next
    PROVE  KeysInv'
<1> USE DEF Sent
<1>0. /\ Len(input) \in Nat /\ Len(wire) \in Nat /\ typed \in Nat
      /\ Len(input') \in Nat /\ Len(wire') \in Nat /\ typed' \in Nat
      /\ holds \in Nat /\ holds' \in Nat
      /\ Held \in Nat /\ (holds = 0 => Held = 0) /\ (holds # 0 => Held = 1)
      /\ Held' \in Nat /\ (holds' = 0 => Held' = 0) /\ (holds' # 0 => Held' = 1)
  BY ConstantsAssumption DEF TypeOK, Keys, Held
<1>1. CASE Handler
  <2>1. CASE Accept
    BY <1>1, <2>1, KeysKept DEF Accept, FreshInv, ScreenInv, phone
  <2>2. CASE Refuse \/ StartFails \/ CloseSession \/ Reap \/ Bye \/ Die
    BY <2>2, KeysKept DEF Refuse, StartFails, CloseSession, Reap, Bye, Die, phone
  <2> QED
    BY <1>1, <2>1, <2>2 DEF Handler
<1>2. CASE OutRelay
  BY <1>2, KeysKept DEF OutRelay, OutReads, OutEnds, OutWrites, OutWriteFails, phone
<1>3. CASE InRelay
  <2>1. CASE InReads
    <3> SUFFICES ASSUME calm PROVE KeysInv'
      BY <2>1 DEF InReads, KeysInv
    <3>1. /\ holds = 0 /\ wire \in Seq(Keys) /\ wire # <<>> /\ Len(input) \in Nat
          /\ holds' = wire[1] /\ wire' = Tail(wire) /\ input' = input
          /\ Len(wire) \in Nat \ {0}
      BY <2>1 DEF InReads, TypeOK
    <3>2. wire[1] = Len(input) + 1
      BY <1>0, <2>1, <3>1 DEF InReads, KeysInv
    <3>3. Len(wire') = Len(wire) - 1
      BY <3>1
    <3>4. ASSUME NEW i \in DOMAIN wire' PROVE wire'[i] = Len(input) + 1 + i
      <4>1. i \in 1..(Len(wire) - 1) /\ i + 1 \in DOMAIN wire
        BY <3>1, <3>3, <3>4
      <4>2. wire'[i] = wire[i + 1]
        BY <3>1, <4>1
      <4>3. wire[i + 1] = Len(input) + 0 + (i + 1)
        BY <1>0, <2>1, <3>1, <4>1 DEF InReads, KeysInv
      <4> QED
        BY <4>1, <4>2, <4>3, <3>1
    <3>5. Sent' = Sent
      BY <1>0, <3>1, <3>2, <3>3
    <3>6. UNCHANGED <<typed, launched, screen, conn>> /\ in # "done"
      BY <2>1 DEF InReads, phone
    <3> QED
      BY <1>0, <3>1, <3>2, <3>4, <3>5, <3>6 DEF KeysInv
  <2>2. CASE InWrites
    <3> SUFFICES ASSUME calm PROVE KeysInv'
      BY <2>2 DEF InWrites, KeysInv
    <3>1. /\ holds \in Nat /\ holds # 0 /\ input \in Seq(Keys) /\ Len(input) \in Nat
          /\ holds' = 0 /\ input' = Append(input, holds) /\ wire' = wire
          /\ Len(wire) \in Nat
      BY <2>2, ConstantsAssumption DEF InWrites, TypeOK, Keys
    <3>2. holds = Len(input) + 1
      BY <2>2, <3>1 DEF InWrites, KeysInv
    <3>3. Len(input') = Len(input) + 1
      BY <3>1
    <3>4. ASSUME NEW i \in DOMAIN input' PROVE input'[i] = i
      <4>1. CASE i = Len(input) + 1
        BY <3>1, <3>2, <4>1
      <4>2. CASE i # Len(input) + 1
        <5>1. i \in DOMAIN input /\ input'[i] = input[i]
          BY <3>1, <3>3, <3>4, <4>2
        <5> QED
          BY <5>1 DEF KeysInv
      <4> QED
        BY <4>1, <4>2
    <3>5. Sent' = Sent
      BY <1>0, <3>1, <3>3
    <3>6. ASSUME NEW i \in DOMAIN wire PROVE wire[i] = Len(input') + 0 + i
      <4>1. wire[i] = Len(input) + 1 + i
        BY <1>0, <2>2, <3>1, <3>6 DEF InWrites, KeysInv
      <4> QED
        BY <4>1, <3>3
    <3> QED
      BY <1>0, <2>2, <3>1, <3>4, <3>5, <3>6 DEF InWrites, KeysInv, phone
  <2>3. CASE InReadFails \/ InWriteFails
    BY <2>3, KeysKept DEF InReadFails, InWriteFails, phone
  <2> QED
    BY <1>3, <2>1, <2>2, <2>3 DEF InRelay
<1>4. CASE Terminal
  BY <1>4, KeysKept DEF Terminal, ShellExits, IgnoreHup, JobStarts, JobEnds, phone
<1>5. CASE Bridge
  <2>1. CASE PageReady \/ Boot \/ Ended
    BY <2>1 DEF PageReady, Boot, Ended, KeysInv, keys, Held
  <2>2. CASE Opened
    <3> SUFFICES ASSUME calm, in # "done" PROVE typed = Sent /\ launched = {}
      <4>1. /\ UNCHANGED <<typed, launched, wire, input, calm, in, holds>>
            /\ screen = "dialing"
        BY <2>2 DEF Opened, keys
      <4> QED
        BY <1>0, <4>1 DEF KeysInv
    <3>1. typed = 0 /\ launched = {}
      BY <2>2 DEF Opened, ScreenInv
    <3>2. Sent <= 0 /\ Sent \in Nat
      BY <1>0, <3>1 DEF KeysInv, TypeOK
    <3> QED
      BY <3>1, <3>2
  <2>3. CASE Type
    <3>1. typed \in Nat /\ Sent \in Nat
      BY <1>0
    <3>2. /\ UNCHANGED <<screen, conn, in, holds, wire, input>>
          /\ typed' = typed + 1 /\ launched' = launched \cup {typed + 1}
      BY <2>3 DEF Type, phone
    <3>3. launched = {} => launched' = {typed'} /\ launched' # {}
      BY <3>2
    <3> QED
      BY <1>0, <2>3, <3>1, <3>2, <3>3, CalmType DEF KeysInv
  <2>4. ASSUME NEW k \in Keys, SendFrame(k) PROVE KeysInv'
    <3> SUFFICES ASSUME calm PROVE KeysInv'
      BY <2>4 DEF SendFrame, KeysInv
    <3>1. /\ k = typed /\ launched = {typed} /\ launched' = {}
          /\ wire \in Seq(Keys) /\ Len(input) \in Nat /\ Len(wire) \in Nat /\ typed \in Nat
      BY <2>4 DEF SendFrame, KeysInv, TypeOK
    <3>2. UNCHANGED <<screen, conn, in, holds, typed, input, calm>>
      BY <2>4 DEF SendFrame, phone
    <3>3. CASE screen = "open" /\ conn = "open" /\ in # "done"
      <4>1. typed = Sent + 1
        BY <3>1, <3>3 DEF KeysInv
      <4>2. wire' = Append(wire, typed) /\ Len(wire') = Len(wire) + 1
        BY <2>4, <3>1, <3>3 DEF SendFrame
      <4>3. ASSUME NEW i \in DOMAIN wire' PROVE wire'[i] = Len(input) + Held + i
        <5>1. CASE i = Len(wire) + 1
          <6>1. wire'[i] = typed
            BY <3>1, <4>2, <5>1
          <6> QED
            BY <1>0, <6>1, <3>1, <4>1, <5>1
        <5>2. CASE i # Len(wire) + 1
          <6>1. i \in DOMAIN wire /\ wire'[i] = wire[i]
            BY <3>1, <4>2, <4>3, <5>2
          <6> QED
            BY <6>1, <3>3 DEF KeysInv
        <5> QED
          BY <5>1, <5>2
      <4>4. Sent' = Sent + 1
        BY <1>0, <3>1, <3>2, <4>2
      <4> QED
        BY <1>0, <3>1, <3>3, <3>2, <4>1, <4>3, <4>4 DEF KeysInv
    <3>4. CASE ~(screen = "open" /\ conn = "open") \/ in = "done"
      BY <1>0, <2>4, <3>1, <3>4, <3>2 DEF SendFrame, KeysInv
    <3> QED
      BY <3>3, <3>4
  <2>5. CASE Disconnect
    BY <2>5 DEF Disconnect, KeysInv, Held
  <2> QED
    BY <1>5, <2>1, <2>2, <2>3, <2>4, <2>5 DEF Bridge
<1>6. CASE Lose \/ Notice
  BY <1>6, KeysKept DEF Lose, Notice, phone
<1> QED
  BY <1>1, <1>2, <1>3, <1>4, <1>5, <1>6 DEF Next

\* Calm typing arrives: what the terminal has is a prefix of what was typed.
THEOREM Arrive == Spec => []CalmKeysArrive
<1>1. Init => KeysInv
  BY DEF Init, KeysInv, Held, Sent
<1>2. KeysInv /\ UNCHANGED vars => KeysInv'
  BY KeysKept DEF vars, phone
<1>3. TypeOK /\ TypeOK' /\ FreshInv /\ ScreenInv /\ KeysInv /\ [Next]_vars => KeysInv'
  BY <1>2, KeysStep
<1>4. KeysInv => CalmKeysArrive
  BY DEF KeysInv, CalmKeysArrive
<1> QED
  BY <1>1, <1>3, <1>4, TypeCorrect, FreshInvariant, ScreenInvariant, PTL DEF Spec

=============================================================================
