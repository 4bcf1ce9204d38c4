----------------------------- MODULE TokenStore -----------------------------
(***************************************************************************)
(* auth.Store (server/internal/auth/store.go): the set of issued tokens in *)
(* memory, keyed by hash, and tokens.json next to it.                      *)
(*                                                                         *)
(* Add and Revoke change the map and take a snapshot of it under s.mu,     *)
(* then unlock and write the snapshot: temp file, fsync, rename.  Each     *)
(* caller is a goroutine that walks through these steps; between them the  *)
(* other callers run, and the process may die.                             *)
(*                                                                         *)
(* A token is its hash.  Labels and timestamps are left out: nothing but a *)
(* listing reads them.  A missing and an empty file both load as "no       *)
(* tokens" and are the value {}.                                           *)
(***************************************************************************)
EXTENDS Naturals

CONSTANTS Hashes,       \* token hashes
          Callers,      \* goroutines that may be inside the store
          Garbage       \* stands for bytes that are not a token list

ASSUME GarbageAssumption == Garbage \notin Hashes

\* Content that does not parse: a file not, or not completely, written.
Torn == {Garbage}
Contents == (SUBSET Hashes) \cup {Torn}

VARIABLES
    status,     \* the process: "down", "up", or "refused" after a failed Load
    tokens,     \* s.tokens: the hashes held in memory
    file,       \* tokens.json
    pc,         \* where each caller stands in persistSnapshot
    job,        \* what each caller is doing, and the snapshot it took
    tmp,        \* each caller's temp file
    verdict,    \* history: the last answer given about a hash, still in force
    alone,      \* history: the running writer has had no rival
    taint       \* history: why the file may lag behind what was answered

vars == <<status, tokens, file, pc, job, tmp, verdict, alone, taint>>
memory == <<status, tokens>>
history == <<verdict, alone, taint>>

Kinds == {"add", "revoke", "save"}
Idle(c) == pc[c] = "idle"
Quiet == \A c \in Callers : Idle(c)
NoJob == [kind |-> "save", hashes |-> {}, snap |-> {}]

TypeOK ==
    /\ status \in {"down", "up", "refused"}
    /\ tokens \in SUBSET Hashes
    /\ file \in Contents
    /\ pc \in [Callers -> {"idle", "write", "rename"}]
    /\ job \in [Callers -> [kind : Kinds, hashes : SUBSET Hashes,
                            snap : SUBSET Hashes]]
    /\ tmp \in [Callers -> Contents]
    /\ verdict \in [Hashes -> {"none", "held", "gone"}]
    /\ alone \in BOOLEAN
    /\ taint \in {"none", "overlap", "fault"}

Init ==
    /\ status = "down"
    /\ tokens = {}
    /\ file \in Contents
    /\ pc = [c \in Callers |-> "idle"]
    /\ job = [c \in Callers |-> NoJob]
    /\ tmp = [c \in Callers |-> Torn]
    /\ verdict = [h \in Hashes |-> "none"]
    /\ alone = TRUE
    /\ taint = "none"

-----------------------------------------------------------------------------
(* Startup: main.run loads the file and attaches it for persistence before  *)
(* it serves a request.                                                      *)

\* An answer that the file contradicts is void: the phone gets 401 and pairs
\* again, or the operator finds the token back in the list.
StillTrue(v, h, S) ==
    /\ v = "held" => h \in S
    /\ v = "gone" => h \notin S

\* Mutant: Load parses the file and does not install what it read.
LoadForgets ==
    /\ status = "down"
    /\ file # Torn
    /\ status' = "up"
    /\ tokens' = {}
    /\ alone' = TRUE
    /\ taint' = "none"
    /\ UNCHANGED <<file, pc, job, tmp, verdict>>

Load ==
    /\ status = "down"
    /\ file # Torn
    /\ status' = "up"
    /\ tokens' = file
    /\ verdict' = [h \in Hashes |->
                     IF StillTrue(verdict[h], h, file) THEN verdict[h]
                     ELSE "none"]
    /\ alone' = TRUE
    /\ taint' = "none"
    /\ UNCHANGED <<file, pc, job, tmp>>

\* "parse tokens file": the server fails loudly instead of forgetting tokens.
LoadRefused ==
    /\ status = "down"
    /\ file = Torn
    /\ status' = "refused"
    /\ UNCHANGED <<tokens, file, pc, job, tmp, history>>

\* The operator removes the unreadable file (nothing in the program does).
RemoveFile ==
    /\ status = "refused"
    /\ file' = {}
    /\ status' = "down"
    /\ UNCHANGED <<tokens, pc, job, tmp, history>>

-----------------------------------------------------------------------------
(* The calls.  Begin is the part under s.mu: the new map, the snapshot.      *)

\* Mutant: the snapshot is taken before the map changes.
BeginSnapshotsEarly(c, kind, hs, S) ==
    /\ tokens' = S
    /\ job' = [job EXCEPT ![c] =
                 [kind |-> kind, hashes |-> hs, snap |-> tokens]]
    /\ pc' = [pc EXCEPT ![c] = "write"]
    /\ verdict' = [h \in Hashes |-> IF h \in hs THEN "none" ELSE verdict[h]]
    /\ alone' = Quiet
    /\ taint' = IF ~Quiet /\ taint = "none" THEN "overlap" ELSE taint
    /\ UNCHANGED <<status, file, tmp>>

\* Mutant: the call answers first and writes in the background.
BeginAnswersFirst(c, kind, hs, S) ==
    /\ tokens' = S
    /\ job' = [job EXCEPT ![c] = [kind |-> kind, hashes |-> hs, snap |-> S]]
    /\ pc' = [pc EXCEPT ![c] = "write"]
    /\ verdict' = [h \in Hashes |->
                     IF h \in hs THEN IF h \in S THEN "held" ELSE "gone"
                     ELSE verdict[h]]
    /\ alone' = Quiet
    /\ taint' = IF ~Quiet /\ taint = "none" THEN "overlap" ELSE taint
    /\ UNCHANGED <<status, file, tmp>>

Begin(c, kind, hs, S) ==
    /\ tokens' = S
    /\ job' = [job EXCEPT ![c] = [kind |-> kind, hashes |-> hs, snap |-> S]]
    /\ pc' = [pc EXCEPT ![c] = "write"]
    /\ verdict' = [h \in Hashes |-> IF h \in hs THEN "none" ELSE verdict[h]]
    /\ alone' = Quiet
    /\ taint' = IF ~Quiet /\ taint = "none" THEN "overlap" ELSE taint
    /\ UNCHANGED <<status, file, tmp>>

\* A hash already held is a no-op: Add never overwrites a live token.
Add(c, h) ==
    /\ status = "up"
    /\ Idle(c)
    /\ h \notin tokens
    /\ Begin(c, "add", {h}, tokens \cup {h})

\* A missing hash is ignored.
Revoke(c, h) ==
    /\ status = "up"
    /\ Idle(c)
    /\ h \in tokens
    /\ Begin(c, "revoke", {h}, tokens \ {h})

\* Save: the snapshot is taken under the read lock, nothing changes.
Save(c) ==
    /\ status = "up"
    /\ Idle(c)
    /\ Begin(c, "save", {}, tokens)

-----------------------------------------------------------------------------
(* writeTokensFile, without the lock.                                       *)

\* CreateTemp, Write, Chmod, Sync and Close: before this step the temp file
\* is missing or torn, after it the file is whole.
FillTemp(c) ==
    /\ pc[c] = "write"
    /\ pc' = [pc EXCEPT ![c] = "rename"]
    /\ tmp' = [tmp EXCEPT ![c] = job[c].snap]
    /\ UNCHANGED <<memory, file, job, history>>

\* What the return of a call tells about the hashes it was about.
Answer(kind) == CASE kind = "add" -> "held"
                  [] kind = "revoke" -> "gone"
                  [] OTHER -> "none"

\* The call returns.  An answer that a later call about the same hash has
\* already overtaken in memory no longer says anything.
Answered(c) ==
    LET said == Answer(job[c].kind)
    IN  [h \in Hashes |->
           IF h \in job[c].hashes /\ StillTrue(said, h, tokens)
           THEN said ELSE verdict[h]]

\* The rename, and the return of the call.
Rename(c) ==
    /\ pc[c] = "rename"
    /\ pc' = [pc EXCEPT ![c] = "idle"]
    /\ job' = [job EXCEPT ![c] = NoJob]
    /\ file' = tmp[c]
    /\ tmp' = [tmp EXCEPT ![c] = Torn]
    /\ verdict' = Answered(c)
    /\ taint' = IF alone THEN "none" ELSE taint
    /\ UNCHANGED <<memory, alone>>

\* Any step may fail: the temp file is removed, the error goes to errLog,
\* and the call returns as if nothing had happened.
WriteFails(c) ==
    /\ ~Idle(c)
    /\ pc' = [pc EXCEPT ![c] = "idle"]
    /\ job' = [job EXCEPT ![c] = NoJob]
    /\ tmp' = [tmp EXCEPT ![c] = Torn]
    /\ verdict' = Answered(c)
    /\ alone' = FALSE
    /\ taint' = "fault"
    /\ UNCHANGED <<memory, file>>

\* The process dies wherever its goroutines are.  Temp files of a dead
\* process have random names that nothing reads: they are forgotten.
Crash ==
    /\ status = "up"
    /\ status' = "down"
    /\ tokens' = {}
    /\ pc' = [c \in Callers |-> "idle"]
    /\ job' = [c \in Callers |-> NoJob]
    /\ tmp' = [c \in Callers |-> Torn]
    /\ UNCHANGED <<file, history>>

Call(c) ==
    \/ \E h \in Hashes : Add(c, h) \/ Revoke(c, h)
    \/ Save(c)

Write(c) == FillTemp(c) \/ Rename(c) \/ WriteFails(c)

Next ==
    \/ Load \/ LoadRefused \/ RemoveFile \/ Crash
    \/ \E c \in Callers : Call(c) \/ Write(c)

Spec == Init /\ [][Next]_vars

-----------------------------------------------------------------------------
(* Properties.                                                              *)

\* Once the calls have returned, if the last write had the file to itself,
\* tokens.json is the map in memory: Add and Revoke are mirrored to disk.
MirroredWhenQuiet ==
    status = "up" /\ Quiet /\ taint = "none" => file = tokens

\* What a completed call said survives a crash at ANY instant, also in the
\* middle of a later call: a token whose Add returned is in the file, one
\* whose Revoke returned is not - as long as no write failed and no two
\* writes overlapped since the file was last known to be in step.
AnswersDurable ==
    taint = "none" =>
        \A h \in Hashes : file # Torn => StillTrue(verdict[h], h, file)

\* No step of the server, a crash in mid-write included, leaves tokens.json
\* torn: only what came from outside can make Load refuse.
NeverTears == [][file' = Torn => file = Torn]_vars

\* What may still reach the file: the map, and the snapshots being written.
Pending == IF status = "up"
           THEN {tokens} \cup {job[c].snap : c \in {d \in Callers : ~Idle(d)}}
           ELSE {}

Abstract == INSTANCE SnapshotFile
    WITH Values <- SUBSET Hashes, Unreadable <- Torn,
         running <- (status = "up"), live <- tokens,
         durable <- file, past <- Pending

\* The store implements the promise of SnapshotFile: the file only ever moves
\* to a snapshot that memory held earlier in the same life of the server.
FileIsASnapshot == Abstract!Spec

\* What the doc comment of Store says ("mirrors every Add/Revoke to disk"):
\* once all calls have returned and no write has failed, file and memory
\* agree.  Two overlapping calls break it: each takes its snapshot under the
\* lock, and the older snapshot may be renamed last.
EveryCallMirrored ==
    status = "up" /\ Quiet /\ taint # "fault" => file = tokens

=============================================================================
