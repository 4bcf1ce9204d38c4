--------------------------- MODULE TerminalRelay ---------------------------
(***************************************************************************)
(* One terminal connection: NewWSHandler (server/internal/terminal/        *)
(* handler.go), Session (session.go), and on the phone TerminalScreen,     *)
(* terminal.html and TerminalBridge.                                       *)
(*                                                                         *)
(* The page of the screen boots and asks the bridge to connect.  The       *)
(* handler checks the token, starts a shell on a PTY and two goroutines,   *)
(* "out" from the PTY to the WebSocket and "in" back, and waits for one of *)
(* them to cancel their context.  Its deferred calls then cancel, close    *)
(* the session (SIGHUP, close of the PTY, wait for the shell) and close    *)
(* the socket, in this order.  The screen may be left at any moment.       *)
(*                                                                         *)
(* Output is left out but for the fact that there is some; resize messages *)
(* change nothing here.  Closing the PTY ends a Read or Write of it, and   *)
(* cancelling the context ends a Read or Write of the WebSocket and closes *)
(* that: this is what the two libraries do.                                *)
(***************************************************************************)
EXTENDS Naturals, Sequences

CONSTANTS MaxKeys,      \* bound: keys that are typed
          MayIgnoreHup  \* whether the shell may ignore SIGHUP

ASSUME ConstantsAssumption == MaxKeys \in Nat /\ MayIgnoreHup \in BOOLEAN

VARIABLES
    screen,     \* the phone's screen and its WebSocket call
    known,      \* the token of the screen is in the server's store
    handler,    \* where the handler stands
    ctx,        \* the context is cancelled
    out,        \* the goroutine that reads the PTY
    in,         \* the goroutine that reads the WebSocket
    holds,      \* the key that "in" has read and not yet written, or 0
    shell,      \* the shell process
    stubborn,   \* it ignores SIGHUP
    jobs,       \* another process has the terminal open
    ptmx,       \* s.ptmx
    conn,       \* the connection; "asked" is a request for the upgrade,
                \* "lost" one whose phone is gone unnoticed
    typed,      \* how many keys have been typed
    launched,   \* keys whose coroutine has not run yet
    wire,       \* keys under way to the server
    input,      \* keys that the PTY has received
    calm        \* each key was typed on an open connection, none before it
                \* still waiting to be sent

shells == <<shell, stubborn, jobs>>
phone == <<screen, known>>
keys == <<typed, launched, wire, input, calm>>
vars == <<phone, handler, ctx, out, in, holds, shells, ptmx, conn, keys>>

Keys == 1..MaxKeys

TypeOK ==
    /\ screen \in {"loading", "injected", "dialing", "open", "ended", "left"}
    /\ known \in BOOLEAN
    /\ calm \in BOOLEAN
    /\ handler \in {"idle", "relay", "wait", "bye", "done", "dead"}
    /\ ctx \in BOOLEAN
    /\ out \in {"none", "read", "write", "done"}
    /\ in \in {"none", "read", "write", "done"}
    /\ holds \in Keys \cup {0}
    /\ holds # 0 <=> in = "write"
    /\ shell \in {"none", "runs", "zombie", "reaped"}
    /\ stubborn \in BOOLEAN
    /\ jobs \in BOOLEAN
    /\ ptmx \in {"none", "open", "closed"}
    /\ conn \in {"none", "asked", "open", "lost", "closed"}
    /\ typed \in 0..MaxKeys
    /\ launched \subseteq Keys
    /\ wire \in Seq(Keys)
    /\ input \in Seq(Keys)

Init ==
    /\ screen = "loading"
    /\ known \in BOOLEAN
    /\ calm = TRUE
    /\ handler = "idle"
    /\ ctx = FALSE
    /\ out = "none" /\ in = "none"
    /\ holds = 0
    /\ shell = "none" /\ stubborn = FALSE /\ jobs = FALSE
    /\ ptmx = "none"
    /\ conn = "none"
    /\ typed = 0
    /\ launched = {}
    /\ wire = <<>> /\ input = <<>>

-----------------------------------------------------------------------------
(* The handler.                                                             *)

\* The server dies with the session open.  The kernel closes its descriptors,
\* which hangs the terminal up, and the shell passes to init, which reaps it.
Die ==
    /\ handler \in {"relay", "wait", "bye"}
    /\ handler' = "dead"
    /\ out' = "done" /\ in' = "done"
    /\ holds' = 0
    /\ ptmx' = "closed"
    /\ conn' = "closed"
    /\ shell' = IF shell = "zombie" THEN "reaped" ELSE shell
    /\ UNCHANGED <<phone, ctx, stubborn, jobs, keys>>

\* The query parameter "token" of the upgrade is not a token of the store.
Refuse ==
    /\ handler = "idle"
    /\ conn # "none" /\ ~known
    /\ handler' = "done"
    /\ conn' = "closed"
    /\ UNCHANGED <<phone, ctx, out, in, holds, shells, ptmx, keys>>

\* websocket.Accept, NewSession, and the two goroutines.  The phone that
\* asked may be gone, noticed or not.
Accept ==
    /\ handler = "idle"
    /\ conn # "none" /\ known
    /\ handler' = "relay"
    /\ conn' = IF conn = "asked" THEN "open" ELSE conn
    /\ shell' = "runs"
    /\ ptmx' = "open"
    /\ out' = "read"
    /\ in' = "read"
    /\ UNCHANGED <<phone, ctx, holds, stubborn, jobs, keys>>

\* The upgrade fails, or "start pty" after it.
StartFails ==
    /\ handler = "idle"
    /\ conn # "none" /\ known
    /\ handler' = "done"
    /\ conn' = "closed"
    /\ UNCHANGED <<phone, ctx, out, in, holds, shells, ptmx, keys>>

\* The context is cancelled: Session.Close sends SIGHUP and closes the PTY.
CloseSession ==
    /\ handler = "relay"
    /\ ctx
    /\ handler' = "wait"
    /\ ptmx' = "closed"
    /\ UNCHANGED <<phone, ctx, out, in, holds, shells, conn, keys>>

\* cmd.Wait, the rest of Session.Close.
Reap ==
    /\ handler = "wait"
    /\ shell = "zombie"
    /\ shell' = "reaped"
    /\ handler' = "bye"
    /\ UNCHANGED <<phone, ctx, out, in, holds, stubborn, jobs, ptmx, conn, keys>>

Bye ==
    /\ handler = "bye"
    /\ handler' = "done"
    /\ conn' = "closed"
    /\ UNCHANGED <<phone, ctx, out, in, holds, shells, ptmx, keys>>

-----------------------------------------------------------------------------
(* The goroutines.                                                          *)

TerminalInUse == shell = "runs" \/ jobs

OutReads ==
    /\ out = "read"
    /\ ptmx = "open"
    /\ TerminalInUse
    /\ out' = "write"
    /\ UNCHANGED <<phone, handler, ctx, in, holds, shells, ptmx, conn, keys>>

\* Mutant: the goroutine returns without cancelling the context.
OutEndsAlone ==
    /\ out = "read"
    /\ ptmx = "closed" \/ ~TerminalInUse
    /\ out' = "done"
    /\ UNCHANGED <<phone, handler, ctx, in, holds, shells, ptmx, conn, keys>>

\* Mutant: the end of the shell counts as the end of the terminal's output.
OutEndsWithShell ==
    /\ out = "read"
    /\ ptmx = "closed" \/ shell # "runs"
    /\ out' = "done"
    /\ ctx' = TRUE
    /\ UNCHANGED <<phone, handler, in, holds, shells, ptmx, conn, keys>>

\* The PTY reads as ended when nobody has the terminal open any more.
OutEnds ==
    /\ out = "read"
    /\ ptmx = "closed" \/ ~TerminalInUse
    /\ out' = "done"
    /\ ctx' = TRUE
    /\ UNCHANGED <<phone, handler, in, holds, shells, ptmx, conn, keys>>

OutWrites ==
    /\ out = "write"
    /\ conn \in {"open", "lost"} /\ ~ctx
    /\ out' = "read"
    /\ UNCHANGED <<phone, handler, ctx, in, holds, shells, ptmx, conn, keys>>

OutWriteFails ==
    /\ out = "write"
    /\ conn = "closed" \/ ctx
    /\ out' = "done"
    /\ ctx' = TRUE
    /\ conn' = "closed"
    /\ UNCHANGED <<phone, handler, in, holds, shells, ptmx, keys>>

InReads ==
    /\ in = "read"
    /\ conn # "closed" /\ ~ctx
    /\ wire # <<>>
    /\ in' = "write"
    /\ holds' = Head(wire)
    /\ wire' = Tail(wire)
    /\ UNCHANGED <<phone, handler, ctx, out, shells, ptmx, conn, typed, launched, input,
                   calm>>

InReadFails ==
    /\ in = "read"
    /\ conn = "closed" \/ ctx
    /\ in' = "done"
    /\ ctx' = TRUE
    /\ conn' = "closed"
    /\ UNCHANGED <<phone, handler, out, holds, shells, ptmx, keys>>

\* Mutant: the message is read once more after the write.
InWritesTwice ==
    /\ in = "write"
    /\ ptmx = "open"
    /\ in' = "read"
    /\ holds' = 0
    /\ input' = Append(input, holds)
    /\ wire' = IF wire = <<>> THEN <<holds>> ELSE wire
    /\ UNCHANGED <<phone, handler, ctx, out, shells, ptmx, conn, typed, launched,
                   calm>>

\* Blocks while the terminal's buffer is full.
InWrites ==
    /\ in = "write"
    /\ ptmx = "open"
    /\ in' = "read"
    /\ holds' = 0
    /\ input' = Append(input, holds)
    /\ UNCHANGED <<phone, handler, ctx, out, shells, ptmx, conn, typed, launched, wire,
                   calm>>

InWriteFails ==
    /\ in = "write"
    /\ ptmx = "closed"
    /\ in' = "done"
    /\ holds' = 0
    /\ ctx' = TRUE
    /\ UNCHANGED <<phone, handler, out, shells, ptmx, conn, keys>>

-----------------------------------------------------------------------------
(* Processes on the terminal.                                               *)

ShellExits ==
    /\ shell = "runs"
    /\ shell' = IF handler = "dead" THEN "reaped" ELSE "zombie"
    /\ UNCHANGED <<phone, handler, ctx, out, in, holds, stubborn, jobs, ptmx, conn, keys>>

\* SIGHUP ends a shell that does not ignore it.
HupEnds ==
    /\ handler \in {"wait", "dead"}
    /\ ~stubborn
    /\ ShellExits

IgnoreHup ==
    /\ MayIgnoreHup
    /\ shell = "runs" /\ ~stubborn /\ handler = "relay"
    /\ stubborn' = TRUE
    /\ UNCHANGED <<phone, handler, ctx, out, in, holds, shell, jobs, ptmx, conn, keys>>

\* A background job keeps the terminal open, also after the shell's exit.
JobStarts ==
    /\ shell = "runs" /\ ~jobs
    /\ jobs' = TRUE
    /\ UNCHANGED <<phone, handler, ctx, out, in, holds, shell, stubborn, ptmx, conn, keys>>

JobEnds ==
    /\ jobs
    /\ jobs' = FALSE
    /\ UNCHANGED <<phone, handler, ctx, out, in, holds, shell, stubborn, ptmx, conn, keys>>

-----------------------------------------------------------------------------
(* The phone and the network.                                               *)

\* onPageReady: a coroutine of the screen's scope injects xterm into the page.
\* If it fails, or if the screen is left first, _boot is never called.
PageReady ==
    /\ screen = "loading"
    /\ screen' \in {"injected", "ended"}
    /\ UNCHANGED <<known, handler, ctx, out, in, holds, shells, ptmx, conn, keys>>

\* _boot of terminal.html calls connect(), which launches the call of wss.
Boot ==
    /\ screen = "injected"
    /\ screen' = "dialing"
    /\ conn' = "asked"
    /\ UNCHANGED <<known, handler, ctx, out, in, holds, shells, ptmx, keys>>

\* The answer to the upgrade: sendFrame is set, _onOpen called.
Opened ==
    /\ screen = "dialing"
    /\ conn = "open"
    /\ screen' = "open"
    /\ UNCHANGED <<known, handler, ctx, out, in, holds, shells, ptmx, conn, keys>>

\* The call of wss returns or throws; nothing connects anew.
Ended ==
    /\ screen \in {"dialing", "open"}
    /\ conn = "closed"
    /\ screen' = "ended"
    /\ UNCHANGED <<known, handler, ctx, out, in, holds, shells, ptmx, conn, keys>>

\* sendInput, sendInputFromUI: a coroutine of its own on Dispatchers.IO.
Type ==
    /\ screen # "left"
    /\ typed < MaxKeys
    /\ typed' = typed + 1
    /\ launched' = launched \cup {typed + 1}
    /\ calm' = (calm /\ screen = "open" /\ launched = {})
    /\ UNCHANGED <<phone, handler, ctx, out, in, holds, shells, ptmx, conn, wire,
                   input>>

\* The pool runs the coroutines in any order.  Without a connection
\* sendFrame is null, and an error of it is swallowed: the key is lost.
SendFrame(k) ==
    /\ k \in launched
    /\ launched' = launched \ {k}
    /\ wire' = IF screen = "open" /\ conn = "open" THEN Append(wire, k) ELSE wire
    /\ UNCHANGED <<phone, handler, ctx, out, in, holds, shells, ptmx, conn, typed,
                   input, calm>>

\* Mutant: only an open connection is closed, the call that dials goes on.
DisconnectOpenOnly ==
    /\ screen # "left"
    /\ screen' = "left"
    /\ conn' = IF screen = "open" /\ conn = "open" THEN "closed" ELSE conn
    /\ launched' = {}
    /\ UNCHANGED <<known, handler, ctx, out, in, holds, shells, ptmx, typed, wire,
                   input, calm>>

\* The screen is left: disconnect cancels the call, wherever it stands, and
\* with the screen its scope is cancelled, so that a page that boots now
\* launches nothing and no waiting coroutine sends.
Disconnect ==
    /\ screen # "left"
    /\ screen' = "left"
    /\ conn' = IF conn \in {"asked", "open"} THEN "closed" ELSE conn
    /\ launched' = {}
    /\ UNCHANGED <<known, handler, ctx, out, in, holds, shells, ptmx, typed, wire,
                   input, calm>>

\* The phone is out of reach; TCP finds out after a while.
Lose ==
    /\ conn \in {"asked", "open"}
    /\ conn' = "lost"
    /\ UNCHANGED <<phone, handler, ctx, out, in, holds, shells, ptmx, keys>>

Notice ==
    /\ conn = "lost"
    /\ conn' = "closed"
    /\ UNCHANGED <<phone, handler, ctx, out, in, holds, shells, ptmx, keys>>

Handler == Refuse \/ Accept \/ StartFails \/ CloseSession \/ Reap \/ Bye \/ Die
OutRelay == OutReads \/ OutEnds \/ OutWrites \/ OutWriteFails
InRelay == InReads \/ InReadFails \/ InWrites \/ InWriteFails
Terminal == ShellExits \/ IgnoreHup \/ JobStarts \/ JobEnds
Bridge == PageReady \/ Boot \/ Opened \/ Ended \/ Type \/ Disconnect
          \/ \E k \in Keys : SendFrame(k)

Next == Handler \/ OutRelay \/ InRelay \/ Terminal \/ Bridge \/ Lose \/ Notice

\* Goroutines that can run do run, where nobody else can hold them up: a
\* write to a full terminal or to a phone that does not read may take for
\* ever.  SIGHUP works, and TCP notices a dead peer.
Fairness ==
    /\ WF_vars(Refuse) /\ WF_vars(Accept)
    /\ WF_vars(CloseSession) /\ WF_vars(Reap) /\ WF_vars(Bye)
    /\ WF_vars(OutEnds) /\ WF_vars(OutWriteFails)
    /\ WF_vars(InReadFails) /\ WF_vars(InWriteFails)
    /\ WF_vars(HupEnds) /\ WF_vars(Notice)

Spec == Init /\ [][Next]_vars /\ Fairness

-----------------------------------------------------------------------------
(* Properties.                                                              *)

\* The relay ends a session for no reason of its own: when the context is
\* cancelled, the connection is gone or nobody uses the terminal any more.
EndsForAReason ==
    [][~ctx /\ ctx' => conn \in {"lost", "closed"} \/ ~TerminalInUse]_vars

AllEnded ==
    /\ handler \in {"idle", "done", "dead"}
    /\ shell \in {"none", "reaped"}
    /\ out \in {"none", "done"} /\ in \in {"none", "done"}

\* Once either goroutine has given up, everything that the connection has
\* started ends: the other goroutine, wherever it is blocked, the shell, and
\* the handler itself, if the shell lets SIGHUP end it.  So it does when the
\* user leaves the screen, at whatever moment of loading, dialing or typing,
\* unless "in" hangs in a write to a terminal that is not read; and so does
\* the shell when the server dies.
EndsAll ==
    /\ ctx \/ handler = "dead" ~> AllEnded \/ stubborn
    /\ []<>(in # "write") => (screen = "left" ~> AllEnded \/ stubborn)

\* An exit of the shell closes the connection, unless a background job keeps
\* the terminal open or "out" hangs in a write to a phone that does not read.
ExitCloses ==
    shell = "zombie" /\ ~jobs /\ out = "read" ~> conn = "closed" \/ out = "write"

\* Who waits with each key until the one before has been sent, and with the
\* first one until the terminal is open, finds a prefix of what was typed on
\* the terminal: none is lost between two, doubled or overtaken, whenever the
\* connection ends.
CalmKeysArrive == calm => \A i \in DOMAIN input : input[i] = i

\* What the comment on Close says ("terminates the PTY session"): a handler
\* that closes its session gets to its end.
CloseTerminates == handler = "wait" ~> handler = "done"

\* What the comment on TerminalBridge says ("relays data between xterm.js ...
\* and a Ktor WebSocket connection"): keys arrive in the order in which they
\* were typed.  Each has a coroutine of its own, and two may overtake.
KeysInOrder ==
    \A i, j \in DOMAIN input : i < j => input[i] < input[j]

=============================================================================
