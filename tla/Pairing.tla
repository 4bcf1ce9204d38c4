------------------------------- MODULE Pairing -------------------------------
(***************************************************************************)
(* Pairing a phone with the server.                                        *)
(*                                                                         *)
(* auth.PINSession holds one PIN, a consumed flag and an expiry under its  *)
(* own mutex.  POST /api/pair (httpapi.NewPairHandler) runs in a goroutine *)
(* per request and takes that mutex twice: Current to compare, Consume to  *)
(* spend; then it mints a token (storeTokenIssuer.Issue) and replies.      *)
(* POST /api/pin of the admin page regenerates the PIN at any moment.  The *)
(* phone (PairingViewModel) sends what its user typed, waits at most ten   *)
(* seconds, and may ask again.                                             *)
(*                                                                         *)
(* PINs are drawn at random: a new PIN may have the digits of an old one,  *)
(* so drawings are numbered (gen).  Tokens are numbered as they are minted: *)
(* 32 random bytes do not collide.                                         *)
(***************************************************************************)
EXTENDS Naturals, FiniteSets

CONSTANTS Phones,       \* devices that pair
          Slots,        \* requests the server can have in progress
          Pins,         \* six-digit strings
          PinTtl,       \* cfg.Auth.PINTTL, in clock units
          MaxGen,       \* bound: PINs drawn in the life of the server
          MaxTime,      \* bound: clock
          Blank,        \* no PIN
          Nobody        \* no slot

ASSUME TtlAssumption == PinTtl \in Nat \ {0}
ASSUME BoundsAssumption == MaxGen \in Nat \ {0} /\ MaxTime \in Nat
ASSUME NobodyAssumption == Nobody \notin Slots /\ Blank \notin Pins

VARIABLES
    now,
    \* auth.PINSession
    pin, consumed, expiresAt,
    gen,        \* history: the number of the drawing that pin comes from
    \* requests
    req,        \* one record per slot
    \* issued tokens
    minted,     \* how many
    ledger,     \* history: for each token, the drawing the handler compared
                \* the typed PIN with, and the drawing it consumed
    burned,     \* history: drawings consumed for a token that was never minted
    \* phones
    phone, waitsFor, held

session == <<pin, consumed, expiresAt, gen>>
issued == <<minted, ledger, burned>>
devices == <<phone, waitsFor, held>>
vars == <<now, session, req, issued, devices>>

NoToken == 0
\* A request: what was typed, then the drawing it was equal to, then the
\* drawing it consumed, then the token of its answer.
At(stage, v, m, g, n) ==
    [pc |-> stage, typed |-> v, matched |-> m, spent |-> g, token |-> n]
Free == At("free", Blank, 0, 0, NoToken)

Request == [pc : {"free", "compare", "consume", "issue", "reply"},
            typed : Pins \cup {Blank}, matched : 0..MaxGen, spent : 0..MaxGen,
            token : Nat]

TypeOK ==
    /\ now \in 0..MaxTime
    /\ pin \in Pins
    /\ consumed \in BOOLEAN
    /\ expiresAt \in 0..(MaxTime + PinTtl)
    /\ gen \in 1..MaxGen
    /\ req \in [Slots -> Request]
    /\ minted \in Nat
    /\ ledger \in SUBSET [token : Nat, matched : 0..MaxGen, spent : 0..MaxGen]
    /\ burned \in SUBSET (0..MaxGen)
    /\ phone \in [Phones -> {"enter", "sending", "paired", "error"}]
    /\ waitsFor \in [Phones -> Slots \cup {Nobody}]
    /\ held \in [Phones -> Nat]

Init ==
    /\ now = 0
    /\ pin \in Pins
    /\ consumed = FALSE
    /\ expiresAt = PinTtl
    /\ gen = 1
    /\ req = [s \in Slots |-> Free]
    /\ minted = 0
    /\ ledger = {}
    /\ burned = {}
    /\ phone = [p \in Phones |-> "enter"]
    /\ waitsFor = [p \in Phones |-> Nobody]
    /\ held = [p \in Phones |-> NoToken]

-----------------------------------------------------------------------------
(* The operator and the clock.                                              *)

Tick ==
    /\ now < MaxTime
    /\ now' = now + 1
    /\ UNCHANGED <<session, req, issued, devices>>

\* Mutant: the consumed flag is not reset.
RegenerateConsumed(v) ==
    /\ gen < MaxGen
    /\ gen' = gen + 1
    /\ pin' = v
    /\ expiresAt' = now + PinTtl
    /\ UNCHANGED <<now, consumed, req, issued, devices>>

\* POST /api/pin.  When GeneratePIN fails the session is left as it was.
Regenerate(v) ==
    /\ gen < MaxGen
    /\ gen' = gen + 1
    /\ pin' = v
    /\ consumed' = FALSE
    /\ expiresAt' = now + PinTtl
    /\ UNCHANGED <<now, req, issued, devices>>

-----------------------------------------------------------------------------
(* The request: POST /api/pair.                                             *)

\* submit(pin): the screen is disabled while it sends.
Submit(p, s, v) ==
    /\ phone[p] \in {"enter", "error"}
    /\ req[s] = Free
    /\ req' = [req EXCEPT ![s] = At("compare", v, 0, 0, NoToken)]
    /\ phone' = [phone EXCEPT ![p] = "sending"]
    /\ waitsFor' = [waitsFor EXCEPT ![p] = s]
    /\ UNCHANGED <<now, session, issued, held>>

\* 401 "invalid pin", 401 "pin no longer valid", 500.
Refuse(s) == req' = [req EXCEPT ![s] = At("reply", Blank, 0, 0, NoToken)]

\* p.Current() and the comparison.
Compare(s) ==
    /\ req[s].pc = "compare"
    /\ IF req[s].typed = pin
       THEN req' = [req EXCEPT ![s] = At("consume", Blank, gen, 0, NoToken)]
       ELSE Refuse(s)
    /\ UNCHANGED <<now, session, issued, devices>>

\* Mutant: Consume does not look at the flag.
ConsumeAgain(s) ==
    /\ req[s].pc = "consume"
    /\ IF now > expiresAt
       THEN Refuse(s) /\ UNCHANGED session
       ELSE /\ req' = [req EXCEPT ![s] =
                        At("issue", Blank, req[s].matched, gen, NoToken)]
            /\ consumed' = TRUE
            /\ UNCHANGED <<pin, expiresAt, gen>>
    /\ UNCHANGED <<now, issued, devices>>

\* p.Consume(): one critical section of the session, not the one of Current.
Consume(s) ==
    /\ req[s].pc = "consume"
    /\ IF consumed \/ now > expiresAt
       THEN Refuse(s) /\ UNCHANGED session
       ELSE /\ req' = [req EXCEPT ![s] =
                        At("issue", Blank, req[s].matched, gen, NoToken)]
            /\ consumed' = TRUE
            /\ UNCHANGED <<pin, expiresAt, gen>>
    /\ UNCHANGED <<now, issued, devices>>

\* t.Issue: the token is minted and added to the store ...
Issue(s) ==
    /\ req[s].pc = "issue"
    /\ minted' = minted + 1
    /\ ledger' = ledger \cup {[token |-> minted', matched |-> req[s].matched,
                               spent |-> req[s].spent]}
    /\ req' = [req EXCEPT ![s] = At("reply", Blank, 0, 0, minted')]
    /\ UNCHANGED <<now, session, burned, devices>>

\* ... or the random source fails; the PIN stays consumed.
IssueFails(s) ==
    /\ req[s].pc = "issue"
    /\ burned' = burned \cup {req[s].spent}
    /\ Refuse(s)
    /\ UNCHANGED <<now, session, minted, ledger, devices>>

-----------------------------------------------------------------------------
(* The answer.                                                              *)

\* The reply reaches the phone.  It stores the token; if there is none, or
\* it cannot be stored (setToken throws), it shows an error.
Receive(p, s) ==
    /\ req[s].pc = "reply"
    /\ waitsFor[p] = s
    /\ req' = [req EXCEPT ![s] = Free]
    /\ waitsFor' = [waitsFor EXCEPT ![p] = Nobody]
    /\ \/ /\ req[s].token # NoToken
          /\ phone' = [phone EXCEPT ![p] = "paired"]
          /\ held' = [held EXCEPT ![p] = req[s].token]
       \/ /\ phone' = [phone EXCEPT ![p] = "error"]
          /\ UNCHANGED held
    /\ UNCHANGED <<now, session, issued>>

\* The reply finds nobody: its token is in the store and on no phone.
Drop(s) ==
    /\ req[s].pc = "reply"
    /\ \A p \in Phones : waitsFor[p] # s
    /\ req' = [req EXCEPT ![s] = Free]
    /\ UNCHANGED <<now, session, issued, devices>>

\* The ten-second timeout, a lost connection, or the user leaving the screen
\* (viewModelScope is cancelled).  The server goes on with the request.
GiveUp(p) ==
    /\ phone[p] = "sending"
    /\ phone' = [phone EXCEPT ![p] = "error"]
    /\ waitsFor' = [waitsFor EXCEPT ![p] = Nobody]
    /\ UNCHANGED <<now, session, req, issued, held>>

\* No server: the connection is refused and the screen shows an error.
Unreachable(p) ==
    /\ phone[p] \in {"enter", "error"}
    /\ phone' = [phone EXCEPT ![p] = "error"]
    /\ UNCHANGED <<now, session, req, issued, waitsFor, held>>

\* onDisconnect: the phone forgets its token, the server does not.
Disconnect(p) ==
    /\ phone[p] = "paired"
    /\ phone' = [phone EXCEPT ![p] = "enter"]
    /\ held' = [held EXCEPT ![p] = NoToken]
    /\ UNCHANGED <<now, session, req, issued, waitsFor>>

\* The process dies: its requests get no answer, and what one of them had
\* consumed is gone.  The session is drawn anew by the next start; until then
\* nobody reads it.
Die ==
    /\ req' = [s \in Slots |-> Free]
    /\ burned' = burned \cup
           {req[s].spent : s \in {u \in Slots : req[u].pc = "issue"}}
    /\ phone' = [p \in Phones |-> IF phone[p] = "sending" THEN "error"
                                  ELSE phone[p]]
    /\ waitsFor' = [p \in Phones |-> Nobody]
    /\ UNCHANGED <<now, session, minted, ledger, held>>

Operator == \E v \in Pins : Regenerate(v)

Handler(s) == Compare(s) \/ Consume(s) \/ Issue(s) \/ IssueFails(s) \/ Drop(s)

Device(p) ==
    \/ \E s \in Slots : Receive(p, s) \/ \E v \in Pins : Submit(p, s, v)
    \/ GiveUp(p)
    \/ Disconnect(p)
    \/ Unreachable(p)

Next ==
    \/ Tick
    \/ Operator
    \/ Die
    \/ \E s \in Slots : Handler(s)
    \/ \E p \in Phones : Device(p)

Spec == Init /\ [][Next]_vars

-----------------------------------------------------------------------------
(* Properties.                                                              *)

\* Consume is one-shot: no drawing is consumed by two tokens, whatever
\* requests, expiries and regenerations run at the same time.
OneTokenPerConsume ==
    \A t, u \in ledger : t.spent = u.spent => t = u

\* A consumed PIN is never lost without a trace: it became a token, or its
\* request is about to mint one, or minting failed (a 500) or died with the
\* process - exactly one.
ConsumedIsAccounted ==
    LET became == \E t \in ledger : t.spent = gen
        minting == \E s \in Slots : req[s].pc = "issue" /\ req[s].spent = gen
        failed == gen \in burned
    IN  /\ consumed <=> became \/ minting \/ failed
        /\ ~(became /\ minting) /\ ~(became /\ failed) /\ ~(minting /\ failed)

\* The PIN is one-shot, as the comment on PINSession says: the PIN of one
\* drawing, once accepted, is not accepted again.
OneTokenPerPin ==
    \A t, u \in ledger : t.matched = u.matched => t = u

=============================================================================
