---------------------------- MODULE PairEndpoint ----------------------------
(***************************************************************************)
(* Pairing together with the store that keeps its tokens: what main.run    *)
(* wires up.  t.Issue of the handler is storeTokenIssuer.Issue, which      *)
(* mints and calls TokenStore's Add, and the handler answers when Add has  *)
(* returned.  So a request is a caller of the store, in the slot it has in *)
(* the server.  The process may die at any moment; a new one loads the     *)
(* file, draws a PIN, and knows nothing of the requests before.            *)
(*                                                                         *)
(* Tokens are numbered, and the hash of a token is its number.  Nothing in *)
(* the server calls Revoke or Save.                                        *)
(***************************************************************************)
EXTENDS Pairing

CONSTANT Garbage        \* stands for bytes that are not a token list

ASSUME GarbageAssumption == Garbage \notin 1..MaxGen

VARIABLES
    status, tokens, file, pc, job, tmp, verdict, alone, taint,  \* TokenStore
    forfeited   \* history: tokens that died with a process whose writes had
                \* overlapped or failed

Store == INSTANCE TokenStore WITH Hashes <- 1..MaxGen, Callers <- Slots

store == <<status, tokens, file, pc, job, tmp, verdict, alone, taint>>
allVars == <<vars, store, forfeited>>

Up == status = "up"

\* A new installation: no file, and the first start draws the first PIN anew.
EInit ==
    /\ Init
    /\ Store!Init
    /\ file = {}
    /\ forfeited = {}

-----------------------------------------------------------------------------
(* The process.                                                             *)

\* main.run up to its listeners: NewPINSession, and Load of tokens.json.
Start(v) ==
    /\ Store!Load
    /\ Regenerate(v)
    /\ UNCHANGED forfeited

Crash ==
    /\ Store!Crash
    /\ Die
    /\ forfeited' = IF taint = "none" THEN forfeited
                    ELSE forfeited \cup (tokens \ file)

-----------------------------------------------------------------------------
(* Requests.                                                                *)

\* storeTokenIssuer.Issue, up to the unlock in Add.  Each token has consumed a
\* drawing of its own, so its number is within the bound on these.
Mint(s) ==
    /\ minted < MaxGen
    /\ Issue(s)
    /\ Store!Add(s, minted + 1)
    /\ UNCHANGED forfeited

\* The rest of Add: the file is written, or is not.
Persist(s) ==
    /\ Store!Write(s)
    /\ UNCHANGED <<vars, forfeited>>

\* Mutant: the answer does not wait for the write.
ReplyEarly(s) ==
    /\ Drop(s) \/ \E p \in Phones : Receive(p, s)
    /\ UNCHANGED <<store, forfeited>>

\* The answer, once Add has returned.
Reply(s) ==
    /\ Store!Idle(s)
    /\ Drop(s) \/ \E p \in Phones : Receive(p, s)
    /\ UNCHANGED <<store, forfeited>>

\* What does not touch the store.
Rest ==
    /\ \/ Tick
       \/ Up /\ Operator
       \/ \E s \in Slots : Compare(s) \/ Consume(s) \/ IssueFails(s)
       \/ \E p \in Phones : GiveUp(p) \/ Disconnect(p)
       \/ Up /\ \E p \in Phones, s \in Slots, v \in Pins : Submit(p, s, v)
       \/ ~Up /\ \E p \in Phones : Unreachable(p)
    /\ UNCHANGED <<store, forfeited>>

ENext ==
    \/ Crash
    \/ \E v \in Pins : Start(v)
    \/ \E s \in Slots : Mint(s) \/ Persist(s) \/ Reply(s)
    \/ Rest

ESpec == EInit /\ [][ENext]_allVars

-----------------------------------------------------------------------------
(* Properties.                                                              *)

\* A phone that was told it is paired is served: the token that it holds is
\* in the map that requests are checked against, also after any number of
\* crashes and restarts, timeouts and retries.  The answer comes after the
\* write, so only a write that failed, or was overtaken by the write of
\* another pairing, can cost a phone its token - at the next restart.
PairedIsServed ==
    Up => \A p \in Phones :
              phone[p] = "paired" => held[p] \in tokens \cup forfeited

\* The server accepts only tokens that a phone has, or is about to get.  It
\* does not hold: a phone that gives up, or forgets its token, or a process
\* that dies before the answer, leaves a token that is accepted for ever.
AcceptedIsHeld ==
    Up => \A n \in tokens : \/ \E p \in Phones : held[p] = n
                            \/ \E s \in Slots : req[s].token = n

=============================================================================
