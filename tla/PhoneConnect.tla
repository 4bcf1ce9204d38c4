---------------------------- MODULE PhoneConnect ----------------------------
(***************************************************************************)
(* ConnectViewModel, PinHolder and PinnedTrustManager of the phone         *)
(* (android/.../ui/connect, android/.../net), connecting to one server     *)
(* whose key pair is that of TlsCert.                                      *)
(*                                                                         *)
(* At its first connection the phone takes whatever certificate it is      *)
(* shown, compares it with the fingerprint in the status, and asks its     *)
(* user.  What the user accepts is saved and held by PinHolder, which the  *)
(* trust manager consults in every later handshake.                        *)
(*                                                                         *)
(* viewModelScope runs on the main thread, and a coroutine that was        *)
(* launched there runs at once up to its first suspension: the request of  *)
(* runConnect, the write of the server's address in confirmPin.  The same  *)
(* write at the end of a connection with a saved pin, with nothing after   *)
(* it but the new state, is part of that step.  An address that does not   *)
(* parse is refused before anything of this happens and left out.          *)
(***************************************************************************)
EXTENDS TlsCert

VARIABLES
    ui,         \* _state, and "away" for the screens behind it
    asked,      \* the certificate that the confirm dialog is about
    saved,      \* the pin that the token store has for the server
    holder,     \* PinHolder.current
    observed,   \* PinHolder.lastObserved
    reply,      \* where runConnect is suspended, the result of status()
    savedPin,   \* its local variable
    confirming, \* confirmPin is suspended
    dismissed   \* history: the dialog was dismissed while it was

pins == <<saved, holder, observed>>
vars == <<certVars, ui, asked, pins, reply, savedPin, confirming, dismissed>>

Screens == {"idle", "connecting", "confirm", "connected", "failed",
            "mismatch", "away"}
Replies == [kind : {"none", "pending", "error"}]
               \cup [kind : {"ok"}, fingerprint : Files]
NoReply == [kind |-> "none"]

TypeOK ==
    /\ CertTypeOK
    /\ ui \in Screens
    /\ asked \in Files /\ saved \in Files
    /\ holder \in Files /\ observed \in Files
    /\ reply \in Replies
    /\ savedPin \in Files
    /\ confirming \in BOOLEAN
    /\ dismissed \in BOOLEAN

Init ==
    /\ CertInit
    /\ ui = "idle"
    /\ asked = None
    /\ saved = None /\ holder = None /\ observed = None
    /\ reply = NoReply
    /\ savedPin = None
    /\ confirming = FALSE
    /\ dismissed = FALSE

-----------------------------------------------------------------------------
(* connect and runConnect.                                                  *)

\* Mutant: the holder is left to confirmPin.
ConnectKeepsHolder ==
    /\ ui \in {"idle", "failed", "mismatch"}
    /\ reply = NoReply
    /\ ui' = "connecting"
    /\ reply' = [kind |-> "pending"]
    /\ savedPin' = saved
    /\ observed' = None
    /\ dismissed' = FALSE
    /\ UNCHANGED <<certVars, asked, saved, holder, confirming>>

\* connect, and runConnect up to the request.  The button is disabled while a
\* connection is being made or confirmed.
Connect ==
    /\ ui \in {"idle", "failed", "mismatch"}
    /\ reply = NoReply
    /\ ui' = "connecting"
    /\ reply' = [kind |-> "pending"]
    /\ savedPin' = saved
    /\ holder' = saved
    /\ observed' = IF saved = None THEN None ELSE observed
    /\ dismissed' = FALSE
    /\ UNCHANGED <<certVars, asked, saved, confirming>>

\* status(): a handshake, in which PinnedTrustManager.verify records what it
\* sees and refuses what differs from the holder's pin, and the answer, if
\* the connection lasts.
Exchange ==
    /\ reply.kind = "pending"
    /\ At("up")
    /\ observed' = serving
    /\ \/ /\ holder \in {None, serving}
          /\ reply' = [kind |-> "ok", fingerprint |-> told]
       \/ reply' = [kind |-> "error"]
    /\ UNCHANGED <<certVars, ui, asked, saved, holder, savedPin, confirming,
                   dismissed>>

\* Nobody listens, or the ten seconds are over.
Unreachable ==
    /\ reply.kind = "pending"
    /\ reply' = [kind |-> "error"]
    /\ UNCHANGED <<certVars, ui, asked, pins, savedPin, confirming, dismissed>>

\* HttpError and NetworkError: the holder keeps what it has.
Fail ==
    /\ reply.kind = "error"
    /\ ui' = "failed"
    /\ UNCHANGED <<asked, pins>>

\* Known server: the handshake has checked it.
Proceed ==
    /\ reply.kind = "ok" /\ savedPin # None
    /\ ui' = "connected"
    /\ UNCHANGED <<asked, pins>>

\* First connection: what was observed is compared with what the server tells
\* of itself, held, and shown to the user.
Bootstrap ==
    /\ reply.kind = "ok" /\ savedPin = None
    /\ observed' = None
    /\ UNCHANGED saved
    /\ IF observed = None
       THEN ui' = "failed" /\ UNCHANGED <<asked, holder>>
       ELSE IF reply.fingerprint # observed
       THEN ui' = "mismatch" /\ holder' = None /\ UNCHANGED asked
       ELSE ui' = "confirm" /\ asked' = observed /\ holder' = observed

\* runConnect after the request.
Resume ==
    /\ Fail \/ Proceed \/ Bootstrap
    /\ reply' = NoReply
    /\ UNCHANGED <<certVars, savedPin, confirming, dismissed>>

-----------------------------------------------------------------------------
(* The dialog.                                                              *)

\* confirmPin up to the write of the server's address.
ConfirmPin ==
    /\ ui = "confirm"
    /\ saved' = asked
    /\ holder' = asked
    /\ confirming' = TRUE
    /\ UNCHANGED <<certVars, ui, asked, observed, reply, savedPin, dismissed>>

\* confirmPin, the rest: whatever the screen shows by then.
Confirmed ==
    /\ confirming
    /\ ui' = "connected"
    /\ confirming' = FALSE
    /\ UNCHANGED <<certVars, asked, pins, reply, savedPin, dismissed>>

\* dismissPin: the dialog is still there until confirmPin has ended.
DismissPin ==
    /\ ui = "confirm"
    /\ ui' = "idle"
    /\ holder' = None
    /\ dismissed' = confirming
    /\ UNCHANGED <<certVars, asked, saved, observed, reply, savedPin, confirming>>

\* reset, when the address is edited after a failure.
Reset ==
    /\ ui \in {"failed", "mismatch"}
    /\ ui' = "idle"
    /\ UNCHANGED <<certVars, asked, pins, reply, savedPin, confirming, dismissed>>

-----------------------------------------------------------------------------
(* The rest of the app.                                                     *)

\* onConnected: another screen, and the view model is cleared.
Leave ==
    /\ ui = "connected"
    /\ ui' = "away"
    /\ reply' = NoReply
    /\ confirming' = FALSE
    /\ UNCHANGED <<certVars, asked, pins, savedPin, dismissed>>

\* onDisconnect: a new view model, the same PinHolder.
Return ==
    /\ ui = "away"
    /\ ui' = "idle"
    /\ UNCHANGED <<certVars, asked, pins, reply, savedPin, confirming, dismissed>>

\* The app's process ends and is started again.
Kill ==
    /\ ui' = "idle"
    /\ asked' = None
    /\ holder' = None
    /\ observed' = None
    /\ reply' = NoReply
    /\ confirming' = FALSE
    /\ dismissed' = FALSE
    /\ UNCHANGED <<certVars, saved, savedPin>>

Phone ==
    \/ Connect \/ Exchange \/ Unreachable \/ Resume
    \/ ConfirmPin \/ Confirmed \/ DismissPin \/ Reset
    \/ Leave \/ Return \/ Kill

Next ==
    \/ Phone
    \/ CertNext /\ UNCHANGED <<ui, asked, pins, reply, savedPin, confirming,
                               dismissed>>

Spec == Init /\ [][Next]_vars

-----------------------------------------------------------------------------
(* Properties.                                                              *)

\* A pin that a phone has saved is that of the server, after any crash of the
\* server and in any state of the phone, as long as nobody touches the files:
\* a phone has no way to forget a pin, and could not connect any more.
PinStaysValid == saved # None /\ ~spoilt /\ serving # None => serving = saved

\* The server tells the fingerprint of the certificate it serves, although it
\* reads the file for the one before it loads it for the other: the phone
\* never takes its own server for another one at the first connection.
NoFalseMismatch == ui # "mismatch"

\* Behind the connect screen the trust manager checks every handshake against
\* the saved pin, if the dialog was not dismissed while confirmPin was
\* waiting: through failures, restarts of the app and returns to the screen.
PinnedUnlessDismissed ==
    ui \in {"connected", "away"} /\ ~dismissed => saved # None /\ holder = saved

\* What the README says of the client ("pins the server ... and refuses any
\* other certificate afterwards"), without that condition: dismissPin empties
\* the holder, and confirmPin goes on to "connected" all the same.
ConnectedIsPinned ==
    ui \in {"connected", "away"} => saved # None /\ holder = saved

=============================================================================
