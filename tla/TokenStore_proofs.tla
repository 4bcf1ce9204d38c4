-------------------------- MODULE TokenStore_proofs --------------------------
(***************************************************************************)
(* Proofs about TokenStore, for any sets of hashes and of callers.         *)
(***************************************************************************)
EXTENDS TokenStore, TLAPS

\* What holds between the steps of the writers.  While "alone" there is one
\* writer at most and its snapshot is the map; while the file is untainted a
\* writer is alone, and the file agrees with every answer in force.
WritersInv ==
    /\ status # "up" => Quiet
    /\ status = "up" => file # Torn
    /\ status = "refused" => file = Torn
    /\ \A c \in Callers : pc[c] = "rename" => tmp[c] = job[c].snap
    /\ alone => \A c \in Callers : ~Idle(c) => job[c].snap = tokens
    /\ alone => \A c, d \in Callers : ~Idle(c) /\ ~Idle(d) => c = d
    /\ taint = "none" /\ ~Quiet => alone

AnswersInv ==
    /\ status = "up" => \A h \in Hashes : StillTrue(verdict[h], h, tokens)
    /\ file = Torn => \A h \in Hashes : verdict[h] = "none"
    /\ AnswersDurable

IInv == TypeOK /\ WritersInv /\ AnswersInv /\ MirroredWhenQuiet

-----------------------------------------------------------------------------
(* Lemmas about the helpers.                                                *)

\* A torn file is not a set of hashes.
LEMMA TornIsNoSet == Torn \notin SUBSET Hashes
BY GarbageAssumption DEF Torn

\* A void answer contradicts nothing.
LEMMA NoneIsTrue == \A h, S : StillTrue("none", h, S)
BY DEF StillTrue

\* The answers a call leaves are of the right type and true of memory, if
\* those before it were.
LEMMA AnsweredType ==
    ASSUME TypeOK, NEW c \in Callers
    PROVE  Answered(c) \in [Hashes -> {"none", "held", "gone"}]
BY DEF TypeOK, Answered, Answer

LEMMA AnsweredTrue ==
    ASSUME TypeOK, NEW c \in Callers,
           \A h \in Hashes : StillTrue(verdict[h], h, tokens)
    PROVE  \A h \in Hashes : StillTrue(Answered(c)[h], h, tokens)
BY DEF Answered

-----------------------------------------------------------------------------
(* Type correctness.                                                        *)

\* Every variable stays in its range: TypeOK is inductive by itself.
THEOREM TypeCorrect == Spec => []TypeOK
<1>1. Init => TypeOK
  BY DEF Init, TypeOK, Contents, NoJob, Kinds
<1>2. TypeOK /\ [Next]_vars => TypeOK'
  <2> SUFFICES ASSUME TypeOK, [Next]_vars PROVE TypeOK'
    OBVIOUS
  <2> USE DEF TypeOK, memory, history
  <2>1. CASE Load
    BY <2>1 DEF Load, Contents
  <2>2. CASE LoadRefused
    BY <2>2 DEF LoadRefused
  <2>3. CASE RemoveFile
    BY <2>3 DEF RemoveFile, Contents
  <2>4. CASE Crash
    BY <2>4 DEF Crash, NoJob, Kinds, Contents
  <2>5. ASSUME NEW c \in Callers, Call(c) PROVE TypeOK'
    <3>1. PICK kind \in Kinds, hs \in SUBSET Hashes, S \in SUBSET Hashes :
            Begin(c, kind, hs, S)
      BY <2>5 DEF Call, Add, Revoke, Save, Kinds
    <3> QED
      BY <3>1 DEF Begin, Quiet
  <2>6. ASSUME NEW c \in Callers, FillTemp(c) PROVE TypeOK'
    BY <2>6 DEF FillTemp, Contents
  <2>7. ASSUME NEW c \in Callers, Rename(c) PROVE TypeOK'
    BY <2>7, AnsweredType DEF Rename, NoJob, Kinds, Contents
  <2>8. ASSUME NEW c \in Callers, WriteFails(c) PROVE TypeOK'
    BY <2>8, AnsweredType DEF WriteFails, NoJob, Kinds, Contents
  <2>9. CASE UNCHANGED vars
    BY <2>9 DEF vars
  <2> QED
    BY <2>1, <2>2, <2>3, <2>4, <2>5, <2>6, <2>7, <2>8, <2>9 DEF Next, Write
<1> QED
  BY <1>1, <1>2, PTL DEF Spec

-----------------------------------------------------------------------------
(* The inductive invariant: the writers.                                    *)

LEMMA InitInv == Init => IInv
BY TornIsNoSet DEF Init, IInv, TypeOK, WritersInv, AnswersInv, AnswersDurable,
   MirroredWhenQuiet, Quiet, Idle, StillTrue, NoJob, Kinds, Contents

\* Load: memory is the file, nobody is writing.
LEMMA LoadInv ==
    ASSUME IInv, TypeOK', Load
    PROVE  IInv'
BY TornIsNoSet DEF Load, IInv, TypeOK, WritersInv, AnswersInv,
   AnswersDurable, MirroredWhenQuiet, Quiet, Idle, StillTrue

LEMMA LoadRefusedInv ==
    ASSUME IInv, TypeOK', LoadRefused
    PROVE  IInv'
BY DEF LoadRefused, IInv, WritersInv, AnswersInv, AnswersDurable,
   MirroredWhenQuiet, Quiet, Idle, StillTrue, history

\* No answer is in force while the file is unreadable, so none is lost with it.
LEMMA RemoveFileInv ==
    ASSUME IInv, TypeOK', RemoveFile
    PROVE  IInv'
BY TornIsNoSet DEF RemoveFile, IInv, WritersInv, AnswersInv, AnswersDurable,
   MirroredWhenQuiet, Quiet, Idle, StillTrue, history

LEMMA CrashInv ==
    ASSUME IInv, TypeOK', Crash
    PROVE  IInv'
BY DEF Crash, IInv, TypeOK, WritersInv, AnswersInv, AnswersDurable,
   MirroredWhenQuiet, Quiet, Idle, StillTrue, history

\* A call that begins: its snapshot is the new map; if another writer is in
\* flight neither is alone any more, and the file is tainted.
LEMMA BeginInv ==
    ASSUME IInv, TypeOK', NEW c \in Callers, status = "up", Idle(c),
           NEW kind, NEW hs, NEW S, Begin(c, kind, hs, S),
           \A h \in Hashes \ hs : h \in S <=> h \in tokens
    PROVE  IInv'
<1>1. WritersInv'
  BY DEF Begin, IInv, TypeOK, WritersInv, Quiet, Idle
<1>2. AnswersInv'
  BY DEF Begin, IInv, TypeOK, WritersInv, AnswersInv, AnswersDurable, StillTrue
<1>3. MirroredWhenQuiet'
  BY DEF Begin, IInv, TypeOK, MirroredWhenQuiet, Quiet, Idle
<1> QED
  BY <1>1, <1>2, <1>3 DEF IInv

LEMMA CallInv ==
    ASSUME IInv, TypeOK', NEW c \in Callers, Call(c)
    PROVE  IInv'
<1>1. ASSUME NEW h \in Hashes, Add(c, h) PROVE IInv'
  BY <1>1, BeginInv, \A g \in Hashes \ {h} : g \in tokens \cup {h} <=> g \in tokens
  DEF Add
<1>2. ASSUME NEW h \in Hashes, Revoke(c, h) PROVE IInv'
  BY <1>2, BeginInv, \A g \in Hashes \ {h} : g \in tokens \ {h} <=> g \in tokens
  DEF Revoke
<1>3. ASSUME Save(c) PROVE IInv'
  BY <1>3, BeginInv DEF Save
<1> QED
  BY <1>1, <1>2, <1>3 DEF Call

LEMMA FillTempInv ==
    ASSUME IInv, TypeOK', NEW c \in Callers, FillTemp(c)
    PROVE  IInv'
<1>1. Quiet' = Quiet /\ UNCHANGED <<status, tokens, file, job, verdict, alone, taint>>
  BY DEF FillTemp, IInv, TypeOK, Quiet, Idle, memory, history
<1>2. WritersInv'
  BY <1>1 DEF FillTemp, IInv, TypeOK, WritersInv, Idle
<1> QED
  BY <1>1, <1>2 DEF IInv, AnswersInv, AnswersDurable, MirroredWhenQuiet

\* A rename: a lone writer leaves the file equal to the map and nobody
\* writing; any other leaves a file that was tainted before.
LEMMA RenameInv ==
    ASSUME IInv, TypeOK', NEW c \in Callers, Rename(c)
    PROVE  IInv'
<1>1. file' = job[c].snap /\ ~Idle(c) /\ ~Quiet
  BY DEF Rename, IInv, WritersInv, Quiet, Idle
<1>2. alone => Quiet' /\ file' = tokens
  BY <1>1 DEF Rename, IInv, TypeOK, WritersInv, Quiet, Idle
<1>3. ~alone => taint # "none" /\ taint' = taint
  BY <1>1 DEF Rename, IInv, WritersInv
<1>4. status = "up"
  BY <1>1 DEF IInv, WritersInv
<1>5. \A h \in Hashes : StillTrue(verdict'[h], h, tokens)
  BY <1>4, AnsweredTrue DEF Rename, IInv, AnswersInv
<1>6. file' # Torn
  BY <1>1, TornIsNoSet DEF IInv, TypeOK
<1>7. WritersInv'
  BY <1>1, <1>2, <1>3, <1>4, <1>6
  DEF Rename, IInv, TypeOK, WritersInv, Quiet, Idle, memory
<1>8. AnswersInv'
  BY <1>2, <1>3, <1>4, <1>5, <1>6
  DEF Rename, IInv, AnswersInv, AnswersDurable, memory
<1>9. MirroredWhenQuiet'
  BY <1>2, <1>3 DEF Rename, MirroredWhenQuiet, memory
<1> QED
  BY <1>7, <1>8, <1>9 DEF IInv

LEMMA WriteFailsInv ==
    ASSUME IInv, TypeOK', NEW c \in Callers, WriteFails(c)
    PROVE  IInv'
<1>1. status = "up" /\ file # Torn
  BY DEF WriteFails, IInv, WritersInv, Quiet
<1>2. \A h \in Hashes : StillTrue(verdict'[h], h, tokens)
  BY <1>1, AnsweredTrue DEF WriteFails, IInv, AnswersInv
<1>3. WritersInv'
  BY <1>1 DEF WriteFails, IInv, TypeOK, WritersInv, Quiet, Idle, memory
<1> QED
  BY <1>1, <1>2, <1>3 DEF WriteFails, IInv, AnswersInv, AnswersDurable,
     MirroredWhenQuiet, memory

-----------------------------------------------------------------------------
(* The theorems.                                                            *)

LEMMA InductiveInvariant == Spec => []IInv
<1>1. IInv /\ TypeOK' /\ [Next]_vars => IInv'
  <2> SUFFICES ASSUME IInv, TypeOK', [Next]_vars PROVE IInv'
    OBVIOUS
  <2>1. CASE Load \/ LoadRefused \/ RemoveFile \/ Crash
    BY <2>1, LoadInv, LoadRefusedInv, RemoveFileInv, CrashInv
  <2>2. ASSUME NEW c \in Callers, Call(c) \/ Write(c) PROVE IInv'
    BY <2>2, CallInv, FillTempInv, RenameInv, WriteFailsInv DEF Write
  <2>3. CASE UNCHANGED vars
    BY <2>3 DEF vars, IInv, TypeOK, WritersInv, AnswersInv, AnswersDurable,
       MirroredWhenQuiet, Quiet, Idle
  <2> QED
    BY <2>1, <2>2, <2>3 DEF Next
<1> QED
  BY <1>1, InitInv, TypeCorrect, PTL DEF Spec

\* After the calls have returned, tokens.json is the map, if the last write
\* met neither a rival nor an error.
THEOREM Mirrored == Spec => []MirroredWhenQuiet
BY InductiveInvariant, PTL DEF IInv

\* An answer given survives a crash at any instant, while the file is untainted.
THEOREM Durable == Spec => []AnswersDurable
BY InductiveInvariant, PTL DEF IInv, AnswersInv

\* No step of the server tears the file.
THEOREM NotTorn == Spec => NeverTears
<1>1. IInv /\ [Next]_vars => [file' = Torn => file = Torn]_vars
  <2> SUFFICES ASSUME IInv, Next, file' = Torn PROVE file = Torn
    BY DEF vars
  <2>1. ASSUME NEW c \in Callers, Rename(c) PROVE FALSE
    BY <2>1, TornIsNoSet DEF Rename, IInv, TypeOK, WritersInv
  <2>2. file' = file \/ file' = {}
    BY <2>1 DEF Next, Load, LoadRefused, RemoveFile, Crash, Call, Add, Revoke,
       Save, Begin, Write, FillTemp, WriteFails, memory, history
  <2> QED
    BY <2>2 DEF Torn
<1> QED
  BY <1>1, InductiveInvariant, PTL DEF Spec, NeverTears

-----------------------------------------------------------------------------
(* Refinement.                                                              *)

\* TokenStore implements SnapshotFile: Load is Start, a call changes memory,
\* a rename flushes a snapshot that was pending, a failed write drops one, a
\* crash is Stop; the rest stutters.
THEOREM Refinement == Spec => FileIsASnapshot
<1>1. Init => Abstract!Init
  BY DEF Init, Abstract!Init, Contents, Pending
<1>2. IInv /\ IInv' /\ [Next]_vars => [Abstract!Next]_(Abstract!vars)
  <2> SUFFICES ASSUME IInv, IInv', [Next]_vars
               PROVE  Abstract!Next \/ UNCHANGED Abstract!vars
    OBVIOUS
  <2> USE DEF memory, history
  <2>1. CASE Load
    <3>1. \A c \in Callers : Idle(c) /\ Idle(c)'
      BY <2>1 DEF Load, IInv, WritersInv, Quiet, Idle
    <3>2. Pending' = {file} /\ Pending = {}
      BY <2>1, <3>1 DEF Load, Pending
    <3> QED
      BY <2>1, <3>2 DEF Load, Abstract!Next, Abstract!Start
  <2>2. CASE LoadRefused
    <3>1. Pending' = {} /\ Pending = {}
      BY <2>2 DEF LoadRefused, Pending
    <3> QED
      BY <2>2, <3>1 DEF LoadRefused, Abstract!vars
  <2>3. CASE RemoveFile
    <3>1. Pending' = {} /\ Pending = {}
      BY <2>3 DEF RemoveFile, Pending
    <3> QED
      BY <2>3, <3>1 DEF RemoveFile, Abstract!Next, Abstract!Mend, IInv,
         WritersInv
  <2>4. CASE Crash
    <3>1. Pending' = {}
      BY <2>4 DEF Crash, Pending
    <3> QED
      BY <2>4, <3>1 DEF Crash, Abstract!Next, Abstract!Stop
  <2>5. ASSUME NEW c \in Callers, Call(c) PROVE Abstract!Next
    <3>1. PICK kind \in Kinds, hs \in SUBSET Hashes, S \in SUBSET Hashes :
            Begin(c, kind, hs, S)
      <4>1. tokens \in SUBSET Hashes
        BY DEF IInv, TypeOK
      <4> QED
        BY <2>5, <4>1 DEF Call, Add, Revoke, Save, Kinds
    <3>2. \A d \in Callers :
            pc'[d] # "idle" => \/ job'[d].snap = S
                               \/ pc[d] # "idle" /\ job'[d].snap = job[d].snap
      BY <3>1 DEF Begin, IInv, TypeOK
    <3>3. status = "up" /\ status' = "up" /\ tokens' = S /\ file' = file
      BY <2>5, <3>1 DEF Call, Add, Revoke, Save, Begin
    <3>4. Pending' \subseteq Pending \cup {S}
      BY <3>1, <3>2, <3>3 DEF Pending, Idle
    <3> QED
      BY <3>1, <3>3, <3>4 DEF Abstract!Next, Abstract!Change
  <2>6. ASSUME NEW c \in Callers, Write(c) PROVE Abstract!Next
    <3>1. status = "up" /\ status' = "up" /\ tokens' = tokens
      BY <2>6 DEF Write, FillTemp, Rename, WriteFails, IInv, WritersInv,
         Quiet, Idle
    <3>2. \A d \in Callers : ~Idle(d)' => ~Idle(d) /\ job'[d] = job[d]
      BY <2>6 DEF Write, FillTemp, Rename, WriteFails, Idle, IInv, TypeOK
    <3>3. Pending' \subseteq Pending
      BY <3>1, <3>2 DEF Pending
    <3>4. file' = file \/ file' \in Pending
      BY <2>6, <3>1 DEF Write, FillTemp, Rename, WriteFails, IInv, WritersInv,
         Idle, Pending
    <3>5. tokens \in SUBSET Hashes
      BY DEF IInv, TypeOK
    <3> QED
      BY <3>1, <3>3, <3>4, <3>5 DEF Abstract!Next, Abstract!Flush,
         Abstract!Change
  <2>7. CASE UNCHANGED vars
    BY <2>7 DEF vars, Pending, Idle, Abstract!vars
  <2> QED
    BY <2>1, <2>2, <2>3, <2>4, <2>5, <2>6, <2>7 DEF Next
<1> QED
  BY <1>1, <1>2, InductiveInvariant, PTL DEF Spec, FileIsASnapshot, Abstract!Spec

=============================================================================
