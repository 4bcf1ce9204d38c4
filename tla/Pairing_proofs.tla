--------------------------- MODULE Pairing_proofs ---------------------------
(***************************************************************************)
(* Proofs about Pairing, for any sets of phones, requests and PINs and any *)
(* bounds on the clock and on the number of PINs drawn; then about         *)
(* PairEndpoint.  Each step of the composition is a step, or nothing, of   *)
(* each of its two parts, so what is proved of them holds in it.  Last,    *)
(* RateLimiter, which stands before the endpoint: for any set of           *)
(* addresses, budgets and window.                                          *)
(***************************************************************************)
EXTENDS PairEndpoint, RateLimiter, TLAPS

\* A request at any stage is one.
LEMMA RequestType ==
    ASSUME NEW v \in Pins, NEW m \in 0..MaxGen, NEW g \in 0..MaxGen, NEW n \in Nat
    PROVE  /\ Free \in Request
           /\ At("compare", v, 0, 0, NoToken) \in Request
           /\ At("consume", Blank, g, 0, NoToken) \in Request
           /\ At("issue", Blank, m, g, NoToken) \in Request
           /\ At("reply", Blank, 0, 0, n) \in Request
BY BoundsAssumption DEF At, Request, Free, NoToken

\* Type correctness: TypeOK is inductive by itself.
THEOREM TypeCorrect == Spec => []TypeOK
<1> USE BoundsAssumption, TtlAssumption
<1>1. Init => TypeOK
  <2> SUFFICES ASSUME Init PROVE TypeOK
    OBVIOUS
  <2>1. 0 \in 0..MaxTime /\ 1 \in 1..MaxGen /\ PinTtl \in 0..(MaxTime + PinTtl)
            /\ 0 \in 0..MaxGen
    OBVIOUS
  <2> QED
    BY <2>1, RequestType DEF Init, TypeOK, Free, NoToken
<1>2. TypeOK /\ [Next]_vars => TypeOK'
  <2> SUFFICES ASSUME TypeOK, [Next]_vars PROVE TypeOK'
    OBVIOUS
  <2> USE DEF TypeOK, session, issued, devices
  <2>1. CASE Tick
    BY <2>1 DEF Tick
  <2>2. CASE Operator
    <3>1. now + PinTtl \in 0..(MaxTime + PinTtl)
      OBVIOUS
    <3>2. gen < MaxGen => gen + 1 \in 1..MaxGen
      OBVIOUS
    <3> QED
      BY <2>2, <3>1, <3>2 DEF Operator, Regenerate
  <2>3. gen \in 0..MaxGen /\ 0 \in 0..MaxGen
    OBVIOUS
  <2>4. ASSUME NEW s \in Slots
        PROVE  req[s].matched \in 0..MaxGen /\ req[s].spent \in 0..MaxGen
    BY DEF Request
  <2>5. ASSUME NEW s \in Slots, Compare(s) \/ Consume(s) \/ Drop(s) PROVE TypeOK'
    <3>1. /\ Free \in Request /\ At("reply", Blank, 0, 0, NoToken) \in Request
          /\ At("consume", Blank, gen, 0, NoToken) \in Request
          /\ At("issue", Blank, req[s].matched, gen, NoToken) \in Request
      BY <2>3, <2>4, RequestType DEF NoToken
    <3>2. req' \in [Slots -> Request]
      BY <2>5, <3>1 DEF Compare, Consume, Drop, Refuse
    <3> QED
      BY <2>5, <3>2 DEF Compare, Consume, Drop
  <2>6. ASSUME NEW s \in Slots, Issue(s) PROVE TypeOK'
    <3>1. At("reply", Blank, 0, 0, minted + 1) \in Request
      BY <2>3, RequestType
    <3> QED
      BY <2>4, <2>6, <3>1 DEF Issue
  <2>7. ASSUME NEW s \in Slots, IssueFails(s) PROVE TypeOK'
    <3>1. At("reply", Blank, 0, 0, NoToken) \in Request
      BY <2>3, RequestType DEF NoToken
    <3> QED
      BY <2>4, <2>7, <3>1 DEF IssueFails, Refuse
  <2>8. ASSUME NEW p \in Phones, NEW s \in Slots, Receive(p, s) PROVE TypeOK'
    <3>1. Free \in Request
      BY <2>3, RequestType
    <3>2. req[s].token \in Nat
      BY DEF Request
    <3> QED
      BY <2>8, <3>1, <3>2 DEF Receive
  <2>9. ASSUME NEW p \in Phones, NEW s \in Slots, NEW v \in Pins, Submit(p, s, v)
        PROVE  TypeOK'
    <3>1. At("compare", v, 0, 0, NoToken) \in Request
      BY <2>3, RequestType
    <3> QED
      BY <2>9, <3>1 DEF Submit
  <2>10. ASSUME NEW p \in Phones, GiveUp(p) \/ Disconnect(p) \/ Unreachable(p)
         PROVE  TypeOK'
    <3>1. CASE GiveUp(p) \/ Unreachable(p)
      BY <3>1 DEF GiveUp, Unreachable
    <3>2. CASE Disconnect(p)
      BY <3>2 DEF Disconnect, NoToken
    <3> QED
      BY <2>10, <3>1, <3>2
  <2>11. CASE Die
    <3>1. Free \in Request
      BY <2>3, RequestType
    <3>2. \A s \in Slots : req[s].spent \in 0..MaxGen
      BY <2>4
    <3>3. phone' \in [Phones -> {"enter", "sending", "paired", "error"}]
      BY <2>11 DEF Die
    <3> QED
      BY <2>11, <3>1, <3>2, <3>3 DEF Die
  <2>12. CASE UNCHANGED vars
    BY <2>12 DEF vars
  <2> QED
    BY <2>1, <2>2, <2>5, <2>6, <2>7, <2>8, <2>9, <2>10, <2>11, <2>12
    DEF Next, Handler, Device
<1> QED
  BY <1>1, <1>2, PTL DEF Spec

-----------------------------------------------------------------------------
(* The inductive invariant.                                                 *)

Minting(s) == req[s].pc = "issue"

\* Whoever consumed a drawing - a token, a request about to mint, a failure -
\* consumed one drawn so far, and no drawing has two of them.
SpentInv ==
    /\ \A t \in ledger : t.spent <= gen
    /\ \A s \in Slots : Minting(s) => req[s].spent <= gen
    /\ \A g \in burned : g <= gen
    /\ OneTokenPerConsume
    /\ \A s, u \in Slots :
         Minting(s) /\ Minting(u) /\ req[s].spent = req[u].spent => s = u
    /\ \A s \in Slots, t \in ledger : Minting(s) => t.spent # req[s].spent
    /\ \A t \in ledger : t.spent \notin burned
    /\ \A s \in Slots : Minting(s) => req[s].spent \notin burned
    /\ consumed <=> \/ \E t \in ledger : t.spent = gen
                    \/ \E s \in Slots : Minting(s) /\ req[s].spent = gen
                    \/ gen \in burned

\* A token that is in a reply under way or on a phone was minted; a phone has
\* one exactly when it is paired.
OnLedger(n) == \E t \in ledger : t.token = n

PlacesInv ==
    /\ \A t \in ledger : t.token <= minted
    /\ \A s \in Slots : req[s].token # NoToken =>
         req[s].pc = "reply" /\ OnLedger(req[s].token)
    /\ \A p \in Phones : held[p] # NoToken => OnLedger(held[p])
    /\ \A p \in Phones : phone[p] = "paired" <=> held[p] # NoToken
    /\ \A p \in Phones : waitsFor[p] # Nobody => phone[p] = "sending"

IInv == TypeOK /\ SpentInv /\ PlacesInv

LEMMA InitInv == Init => SpentInv /\ PlacesInv
BY DEF Init, SpentInv, PlacesInv, OneTokenPerConsume, Minting, OnLedger,
   Free, At, NoToken

-----------------------------------------------------------------------------
(* SpentInv, step by step.                                                  *)

\* A step that leaves tokens and session alone, and no request newly minting,
\* changes nothing.
LEMMA SpentUnchanged ==
    ASSUME SpentInv, UNCHANGED <<ledger, burned, gen, consumed>>,
           \A s \in Slots : Minting(s)' <=> Minting(s),
           \A s \in Slots : Minting(s) => req'[s].spent = req[s].spent
    PROVE  SpentInv'
BY DEF SpentInv, OneTokenPerConsume

LEMMA SpentStep ==
    ASSUME TypeOK, SpentInv, Next
    PROVE  SpentInv'
<1> USE BoundsAssumption DEF TypeOK, Request, session, issued, devices
<1>1. CASE Tick
  BY <1>1, SpentUnchanged DEF Tick, Minting
<1>2. CASE Operator
  <2>1. /\ gen' = gen + 1 /\ ~consumed'
        /\ UNCHANGED <<ledger, burned, req>>
    BY <1>2 DEF Operator, Regenerate
  <2>2. gen \in Nat /\ \A t \in ledger : t.spent \in Nat
    OBVIOUS
  <2>3. \A s \in Slots : req[s].spent \in Nat
    OBVIOUS
  <2>4. \A g \in burned : g \in Nat
    OBVIOUS
  <2> QED
    BY <2>1, <2>2, <2>3, <2>4 DEF SpentInv, OneTokenPerConsume, Minting
<1>3. ASSUME NEW s \in Slots, Compare(s) PROVE SpentInv'
  BY <1>3, SpentUnchanged DEF Compare, Refuse, Minting, Free, At
<1>4. ASSUME NEW s \in Slots, Consume(s) PROVE SpentInv'
  <2>1. CASE consumed \/ now > expiresAt
    BY <1>4, <2>1, SpentUnchanged DEF Consume, Refuse, Minting, Free, At
  <2>2. CASE ~(consumed \/ now > expiresAt)
    <3>1. /\ req'[s].spent = gen /\ ~consumed /\ consumed'
          /\ UNCHANGED <<ledger, burned, gen>>
      BY <1>4, <2>2 DEF Consume, At
    <3>2. \A u \in Slots : Minting(u)' <=> Minting(u) \/ u = s
      BY <1>4, <2>2 DEF Consume, Minting, At
    <3>3. \A u \in Slots : u # s => req'[u] = req[u]
      BY <1>4, <2>2 DEF Consume
    <3> QED
      BY <3>1, <3>2, <3>3 DEF SpentInv, OneTokenPerConsume
  <2> QED
    BY <2>1, <2>2
<1>5. ASSUME NEW s \in Slots, Issue(s) PROVE SpentInv'
  <2> DEFINE t0 == [token |-> minted', matched |-> req[s].matched,
                    spent |-> req[s].spent]
  <2>1. ledger' = ledger \cup {t0} /\ t0.spent = req[s].spent
    BY <1>5 DEF Issue
  <2>2. \A u \in Slots : Minting(u)' <=> Minting(u) /\ u # s
    BY <1>5 DEF Issue, Minting, Free, At
  <2>3. \A u \in Slots : u # s => req'[u] = req[u]
    BY <1>5 DEF Issue
  <2>4. Minting(s) /\ UNCHANGED <<gen, consumed, burned>>
    BY <1>5 DEF Issue, Minting
  <2> HIDE DEF t0
  <2> QED
    BY <2>1, <2>2, <2>3, <2>4 DEF SpentInv, OneTokenPerConsume
<1>6. ASSUME NEW s \in Slots, IssueFails(s) PROVE SpentInv'
  <2>1. burned' = burned \cup {req[s].spent}
    BY <1>6 DEF IssueFails
  <2>2. \A u \in Slots : Minting(u)' <=> Minting(u) /\ u # s
    BY <1>6 DEF IssueFails, Refuse, Minting, Free, At
  <2>3. \A u \in Slots : u # s => req'[u] = req[u]
    BY <1>6 DEF IssueFails, Refuse
  <2>4. Minting(s) /\ UNCHANGED <<gen, consumed, ledger>>
    BY <1>6 DEF IssueFails, Minting
  <2> QED
    BY <2>1, <2>2, <2>3, <2>4 DEF SpentInv, OneTokenPerConsume
<1>7. ASSUME NEW s \in Slots, Drop(s) PROVE SpentInv'
  BY <1>7, SpentUnchanged DEF Drop, Minting, Free, At
<1>8. ASSUME NEW p \in Phones, NEW s \in Slots, Receive(p, s) PROVE SpentInv'
  BY <1>8, SpentUnchanged DEF Receive, Minting, Free, At
<1>9. ASSUME NEW p \in Phones, NEW s \in Slots, NEW v \in Pins, Submit(p, s, v)
      PROVE  SpentInv'
  BY <1>9, SpentUnchanged DEF Submit, Minting, Free, At
<1>10. ASSUME NEW p \in Phones, GiveUp(p) \/ Disconnect(p) \/ Unreachable(p)
       PROVE  SpentInv'
  BY <1>10, SpentUnchanged DEF GiveUp, Disconnect, Unreachable, Minting
\* What was about to be minted is burned instead.
<1>11. CASE Die
  <2>1. \A u \in Slots : ~Minting(u)'
    BY <1>11 DEF Die, Minting, Free, At
  <2>2. \A g : g \in burned' <=>
           g \in burned \/ \E u \in Slots : Minting(u) /\ req[u].spent = g
    BY <1>11 DEF Die, Minting
  <2>3. UNCHANGED <<gen, consumed, ledger>>
    BY <1>11 DEF Die
  <2>4. \A g : g \in burned' => g <= gen /\ \A t \in ledger : t.spent # g
    <3> TAKE g
    <3>2. HAVE g \in burned'
    <3>3. CASE g \in burned
      BY <3>3 DEF SpentInv
    <3>4. ASSUME NEW u \in Slots, Minting(u), req[u].spent = g
          PROVE  g <= gen /\ \A t \in ledger : t.spent # g
      BY <3>4 DEF SpentInv
    <3> QED
      BY <2>2, <3>2, <3>3, <3>4
  <2>5. consumed <=> (\E t \in ledger : t.spent = gen) \/ gen \in burned'
    <3>1. consumed <=> \/ \E t \in ledger : t.spent = gen
                       \/ \E u \in Slots : Minting(u) /\ req[u].spent = gen
                       \/ gen \in burned
      BY DEF SpentInv
    <3> QED
      BY <2>2, <3>1
  <2> QED
    BY <2>1, <2>3, <2>4, <2>5 DEF SpentInv, OneTokenPerConsume
<1> QED
  BY <1>1, <1>2, <1>3, <1>4, <1>5, <1>6, <1>7, <1>8, <1>9, <1>10, <1>11
  DEF Next, Handler, Device

-----------------------------------------------------------------------------
(* PlacesInv, step by step.                                                 *)

\* A step that leaves ledger and phones alone and no request with a token it
\* did not have changes nothing.
LEMMA PlacesUnchanged ==
    ASSUME PlacesInv, UNCHANGED <<minted, ledger, held>>,
           \A p \in Phones : phone'[p] = "paired" <=> phone[p] = "paired",
           \A p \in Phones : waitsFor'[p] # Nobody => phone'[p] = "sending",
           \A s \in Slots : \/ req'[s].token = NoToken
                            \/ req'[s] = req[s]
    PROVE  PlacesInv'
BY DEF PlacesInv, OnLedger

LEMMA PlacesStep ==
    ASSUME TypeOK, PlacesInv, Next
    PROVE  PlacesInv'
<1>1. /\ req \in [Slots -> Request] /\ held \in [Phones -> Nat]
      /\ phone \in [Phones -> {"enter", "sending", "paired", "error"}]
      /\ waitsFor \in [Phones -> Slots \cup {Nobody}]
      /\ minted \in Nat /\ \A t \in ledger : t.token \in Nat
  BY DEF TypeOK
<1>2. \A s \in Slots : req[s].token \in Nat
  BY <1>1 DEF Request
<1> USE DEF session, issued, devices
<1>3. CASE Tick \/ Operator
  BY <1>3, PlacesUnchanged DEF Tick, Operator, Regenerate, PlacesInv
\* A step of a request other than Issue, and Submit, leave it without a token.
<1>4. ASSUME NEW s \in Slots, NEW r, req' = [req EXCEPT ![s] = r],
             r.token = NoToken,
             UNCHANGED <<minted, ledger, held>>,
             \A p \in Phones : phone'[p] = "paired" <=> phone[p] = "paired",
             \A p \in Phones : waitsFor'[p] # Nobody => phone'[p] = "sending"
      PROVE  PlacesInv'
  <2>1. \A u \in Slots : req'[u].token = NoToken \/ req'[u] = req[u]
    BY <1>1, <1>4
  <2> QED
    BY <1>4, <2>1, PlacesUnchanged
<1>5. ASSUME NEW s \in Slots, Compare(s) PROVE PlacesInv'
  BY <1>4, <1>5 DEF Compare, Refuse, At, PlacesInv
<1>6. ASSUME NEW s \in Slots, Consume(s) PROVE PlacesInv'
  BY <1>4, <1>6 DEF Consume, Refuse, At, PlacesInv
<1>7. ASSUME NEW s \in Slots, IssueFails(s) \/ Drop(s) PROVE PlacesInv'
  <2>1. \E r : req' = [req EXCEPT ![s] = r] /\ r.token = NoToken
    <3>1. At("reply", Blank, 0, 0, NoToken).token = NoToken /\ Free.token = NoToken
      BY DEF At, Free
    <3> QED
      BY <1>7, <3>1 DEF IssueFails, Drop, Refuse
  <2>2. UNCHANGED <<minted, ledger, held, phone, waitsFor>>
    BY <1>7 DEF IssueFails, Drop
  <2> QED
    BY <1>4, <2>1, <2>2 DEF PlacesInv
<1>8. ASSUME NEW p \in Phones, NEW s \in Slots, NEW v \in Pins, Submit(p, s, v)
      PROVE  PlacesInv'
  <2>1. /\ \A q \in Phones : phone'[q] = "paired" <=> phone[q] = "paired"
        /\ \A q \in Phones : waitsFor'[q] # Nobody => phone'[q] = "sending"
    BY <1>1, <1>8 DEF Submit, PlacesInv
  <2>2. At("compare", v, 0, 0, NoToken).token = NoToken
    BY DEF At
  <2>3. /\ req' = [req EXCEPT ![s] = At("compare", v, 0, 0, NoToken)]
        /\ UNCHANGED <<minted, ledger, held>>
    BY <1>8 DEF Submit
  <2> QED
    BY <1>4, <2>1, <2>2, <2>3
<1>9. ASSUME NEW s \in Slots, Issue(s) PROVE PlacesInv'
  <2> DEFINE t0 == [token |-> minted + 1, matched |-> req[s].matched,
                    spent |-> req[s].spent]
  <2>1. ledger' = ledger \cup {t0} /\ t0.token = minted + 1
    BY <1>9 DEF Issue
  <2>2. /\ req'[s].token = minted + 1 /\ req'[s].pc = "reply"
        /\ \A u \in Slots : u # s => req'[u] = req[u]
    BY <1>1, <1>9 DEF Issue, At
  <2>3. minted' = minted + 1 /\ UNCHANGED <<phone, held, waitsFor>>
    BY <1>9 DEF Issue
  <2> HIDE DEF t0
  <2>4. \A n : OnLedger(n) => OnLedger(n)' /\ n <= minted
    BY <2>1 DEF OnLedger, PlacesInv
  <2>5. \E t \in ledger' : t.token = minted + 1
    BY <2>1
  <2>6. \A t \in ledger' : t.token <= minted'
    BY <1>1, <2>1, <2>3 DEF PlacesInv
  <2>7. \A u \in Slots : req'[u].token # NoToken =>
           req'[u].pc = "reply" /\ \E t \in ledger' : t.token = req'[u].token
    BY <2>2, <2>4, <2>5 DEF PlacesInv, OnLedger
  <2>8. \A p \in Phones : held'[p] # NoToken => \E t \in ledger' : t.token = held'[p]
    BY <2>3, <2>4 DEF PlacesInv, OnLedger
  <2> QED
    BY <2>3, <2>6, <2>7, <2>8 DEF PlacesInv, OnLedger
<1>10. ASSUME NEW p \in Phones, NEW s \in Slots, Receive(p, s) PROVE PlacesInv'
  <2>1. /\ req'[s].token = NoToken
        /\ \A u \in Slots : u # s => req'[u] = req[u]
        /\ UNCHANGED <<minted, ledger>>
    BY <1>1, <1>10 DEF Receive, Free, At
  <2>2. phone[p] = "sending" /\ held[p] = NoToken
    BY <1>1, <1>10, NobodyAssumption DEF Receive, PlacesInv
  <2>3. /\ waitsFor'[p] = Nobody
        /\ \A q \in Phones : q # p => waitsFor'[q] = waitsFor[q] /\ phone'[q] = phone[q]
    BY <1>1, <1>10 DEF Receive
  <2>4. CASE req[s].token # NoToken /\ phone' = [phone EXCEPT ![p] = "paired"]
             /\ held' = [held EXCEPT ![p] = req[s].token]
    <3>1. /\ held'[p] = req[s].token /\ phone'[p] = "paired"
          /\ \A q \in Phones : q # p => held'[q] = held[q]
      BY <1>1, <2>4
    <3>2. OnLedger(req[s].token)
      BY <2>4 DEF PlacesInv
    <3>3. \A n : OnLedger(n)' <=> OnLedger(n)
      BY <2>1 DEF OnLedger
    <3> QED
      BY <2>1, <2>3, <2>4, <3>1, <3>2, <3>3 DEF PlacesInv
  <2>5. CASE phone' = [phone EXCEPT ![p] = "error"] /\ held' = held
    <3>1. held' = held /\ phone'[p] = "error"
      BY <1>1, <2>5
    <3>2. \A u \in Slots : req'[u].token = NoToken \/ req'[u] = req[u]
      BY <2>1
    <3> QED
      BY <2>1, <2>2, <2>3, <3>1, <3>2, PlacesUnchanged DEF PlacesInv
  <2> QED
    BY <1>10, <2>4, <2>5 DEF Receive
<1>11. ASSUME NEW p \in Phones, GiveUp(p) \/ Unreachable(p) PROVE PlacesInv'
  BY <1>1, <1>11 DEF GiveUp, Unreachable, PlacesInv, OnLedger
<1>12. ASSUME NEW p \in Phones, Disconnect(p) PROVE PlacesInv'
  <2>1. waitsFor[p] = Nobody
    BY <1>12 DEF Disconnect, PlacesInv
  <2> QED
    BY <1>1, <1>12, <2>1 DEF Disconnect, PlacesInv, OnLedger
<1>13. CASE Die
  <2>1. /\ \A p \in Phones : phone'[p] = "paired" <=> phone[p] = "paired"
        /\ \A p \in Phones : waitsFor'[p] = Nobody
        /\ \A s \in Slots : req'[s].token = NoToken
        /\ UNCHANGED <<minted, ledger, held>>
    BY <1>1, <1>13 DEF Die, Free, At
  <2> QED
    BY <2>1, PlacesUnchanged
<1> QED
  BY <1>3, <1>5, <1>6, <1>7, <1>8, <1>9, <1>10, <1>11, <1>12, <1>13
  DEF Next, Handler, Device

-----------------------------------------------------------------------------
(* The theorems.                                                            *)

LEMMA InductiveInvariant == Spec => []IInv
<1>1. IInv /\ TypeOK' /\ [Next]_vars => IInv'
  <2>1. ASSUME IInv, TypeOK', Next PROVE IInv'
    BY <2>1, SpentStep, PlacesStep DEF IInv
  <2>2. ASSUME IInv, TypeOK', UNCHANGED vars PROVE IInv'
    BY <2>2 DEF IInv, vars, session, issued, devices, SpentInv, PlacesInv,
       OneTokenPerConsume, Minting, OnLedger
  <2> QED
    BY <2>1, <2>2
<1> QED
  BY <1>1, InitInv, TypeCorrect, PTL DEF Spec, IInv

\* No PIN drawn is consumed by two tokens.
THEOREM OneShot == Spec => []OneTokenPerConsume
BY InductiveInvariant, PTL DEF IInv, SpentInv

\* A consumed PIN is a token, a token about to be minted, or a failure to
\* mint: exactly one of them.
THEOREM Accounted == Spec => []ConsumedIsAccounted
<1>1. IInv => ConsumedIsAccounted
  BY DEF IInv, SpentInv, ConsumedIsAccounted, Minting
<1> QED
  BY <1>1, InductiveInvariant, PTL

-----------------------------------------------------------------------------
(* PairEndpoint.                                                            *)

StoreP == INSTANCE TokenStore_proofs WITH Hashes <- 1..MaxGen, Callers <- Slots

\* Pairing with a store is pairing.
THEOREM PairsAlike == ESpec => Spec
<1>1. EInit => Init
  BY DEF EInit
<1>2. [ENext]_allVars => [Next]_vars
  <2> SUFFICES ASSUME [ENext]_allVars PROVE Next \/ UNCHANGED vars
    OBVIOUS
  <2>1. CASE Crash
    BY <2>1 DEF Crash, Next
  <2>2. ASSUME NEW v \in Pins, Start(v) PROVE Next
    BY <2>2 DEF Start, Next, Operator
  <2>3. ASSUME NEW s \in Slots, Mint(s) PROVE Next
    BY <2>3 DEF Mint, Next, Handler
  <2>4. ASSUME NEW s \in Slots, Persist(s) PROVE UNCHANGED vars
    BY <2>4 DEF Persist
  <2>5. ASSUME NEW s \in Slots, Reply(s) PROVE Next
    BY <2>5 DEF Reply, Next, Handler, Device
  <2>6. CASE Rest
    BY <2>6 DEF Rest, Next, Handler, Device
  <2>7. CASE UNCHANGED allVars
    BY <2>7 DEF allVars
  <2> QED
    BY <2>1, <2>2, <2>3, <2>4, <2>5, <2>6, <2>7 DEF ENext
<1> QED
  BY <1>1, <1>2, PTL DEF ESpec, Spec

\* The pair handler uses the store as its callers may.
THEOREM StoresAlike == ESpec => Store!Spec
<1>1. EInit => Store!Init
  BY DEF EInit
<1>2. TypeOK /\ [ENext]_allVars => [Store!Next]_(Store!vars)
  <2> SUFFICES ASSUME TypeOK, [ENext]_allVars
               PROVE  Store!Next \/ UNCHANGED Store!vars
    OBVIOUS
  <2>1. CASE Crash
    BY <2>1 DEF Crash, Store!Next
  <2>2. ASSUME NEW v \in Pins, Start(v) PROVE Store!Next
    BY <2>2 DEF Start, Store!Next
  <2>3. ASSUME NEW s \in Slots, Mint(s) PROVE Store!Next
    <3>1. minted + 1 \in 1..MaxGen
      BY <2>3, BoundsAssumption DEF Mint, TypeOK
    <3> QED
      BY <2>3, <3>1 DEF Mint, Store!Next, Store!Call
  <2>4. ASSUME NEW s \in Slots, Persist(s) PROVE Store!Next
    BY <2>4 DEF Persist, Store!Next
  <2>5. CASE (\E s \in Slots : Reply(s)) \/ Rest \/ UNCHANGED allVars
    BY <2>5 DEF Reply, Rest, allVars, store, Store!vars
  <2> QED
    BY <2>1, <2>2, <2>3, <2>4, <2>5 DEF ENext
<1> QED
  BY <1>1, <1>2, PairsAlike, TypeCorrect, PTL DEF ESpec, Store!Spec

\* Both instances of TokenStore are the same.
LEMMA SameStore == Store!Spec => StoreP!Spec
<1>1. Store!Init => StoreP!Init
  BY DEF Store!Init, StoreP!Init, Store!Contents, StoreP!Contents, Store!Torn,
     StoreP!Torn, Store!NoJob, StoreP!NoJob
<1>2. [Store!Next]_(Store!vars) => [StoreP!Next]_(StoreP!vars)
  <2> USE DEF Store!Torn, StoreP!Torn, Store!NoJob, StoreP!NoJob,
              Store!StillTrue, StoreP!StillTrue, Store!Idle, StoreP!Idle,
              Store!memory, StoreP!memory, Store!history, StoreP!history
  <2>1. /\ Store!Load => StoreP!Load
        /\ Store!LoadRefused => StoreP!LoadRefused
        /\ Store!RemoveFile => StoreP!RemoveFile
        /\ Store!Crash => StoreP!Crash
    BY DEF Store!Load, StoreP!Load, Store!LoadRefused, StoreP!LoadRefused,
       Store!RemoveFile, StoreP!RemoveFile, Store!Crash, StoreP!Crash
  <2>2. ASSUME NEW c \in Slots, NEW kind, NEW hs, NEW S
        PROVE  Store!Begin(c, kind, hs, S) => StoreP!Begin(c, kind, hs, S)
    BY DEF Store!Begin, StoreP!Begin, Store!Quiet, StoreP!Quiet
  <2>3. ASSUME NEW c \in Slots PROVE Store!Call(c) => StoreP!Call(c)
    BY <2>2 DEF Store!Call, StoreP!Call, Store!Add, StoreP!Add, Store!Revoke,
       StoreP!Revoke, Store!Save, StoreP!Save
  <2>4. ASSUME NEW c \in Slots PROVE Store!Write(c) => StoreP!Write(c)
    <3>1. Store!Answered(c) = StoreP!Answered(c)
      BY DEF Store!Answered, StoreP!Answered, Store!Answer, StoreP!Answer
    <3> QED
      BY <3>1 DEF Store!Write, StoreP!Write, Store!FillTemp, StoreP!FillTemp,
         Store!Rename, StoreP!Rename, Store!WriteFails, StoreP!WriteFails
  <2> QED
    BY <2>1, <2>3, <2>4 DEF Store!Next, StoreP!Next, Store!vars, StoreP!vars
<1> QED
  BY <1>1, <1>2, PTL DEF Store!Spec, StoreP!Spec

LEMMA StoreInvariant == ESpec => []StoreP!IInv
BY StoresAlike, SameStore, StoreP!InductiveInvariant, GarbageAssumption, PTL

\* The invariants of both parts.
PartsInv == IInv /\ StoreP!TypeOK /\ StoreP!WritersInv /\ StoreP!AnswersDurable

LEMMA PartsInvariant == ESpec => []PartsInv
<1>1. StoreP!IInv => StoreP!TypeOK /\ StoreP!WritersInv /\ StoreP!AnswersDurable
  BY DEF StoreP!IInv, StoreP!AnswersInv
<1> QED
  BY <1>1, PairsAlike, InductiveInvariant, StoreInvariant, PTL DEF PartsInv

-----------------------------------------------------------------------------
(* The inductive invariant: where a token is while somebody relies on it.   *)

\* A token that a restart finds again.
Kept(h) ==
    /\ Up => h \in tokens
    /\ ~Up => h \in file
    /\ verdict[h] = "held"

\* The token of a reply is in memory, and in the store's answers as soon as
\* Add has returned; a phone got its token from such a reply.
ServedInv ==
    /\ \A s \in Slots : pc[s] # "idle" => job[s].kind = "add"
    /\ \A s \in Slots : req[s].token # NoToken =>
         /\ Up /\ req[s].token \in tokens
         /\ pc[s] = "idle" => verdict[req[s].token] = "held"
         /\ pc[s] # "idle" => job[s].hashes = {req[s].token}
    /\ \A p \in Phones : phone[p] = "paired" =>
         held[p] \in forfeited \/ Kept(held[p])

\* What the parts say of types and of the numbers of tokens.
LEMMA Facts ==
    ASSUME PartsInv
    PROVE  /\ tokens \in SUBSET (1..MaxGen)
           /\ verdict \in [1..MaxGen -> {"none", "held", "gone"}]
           /\ pc \in [Slots -> {"idle", "write", "rename"}]
           /\ req \in [Slots -> Request] /\ minted \in Nat
           /\ phone \in [Phones -> {"enter", "sending", "paired", "error"}]
           /\ held \in [Phones -> Nat]
           /\ \A s \in Slots : req[s].token # NoToken => req[s].token <= minted
           /\ \A p \in Phones : phone[p] = "paired" =>
                held[p] # NoToken /\ held[p] <= minted
<1>1. \A t \in ledger : t.token <= minted
  BY DEF PartsInv, IInv, PlacesInv
<1>2. \A n : OnLedger(n) => n <= minted
  BY <1>1 DEF OnLedger
<1>3. /\ \A s \in Slots : req[s].token # NoToken => req[s].token <= minted
      /\ \A p \in Phones : phone[p] = "paired" =>
           held[p] # NoToken /\ held[p] <= minted
  BY <1>2 DEF PartsInv, IInv, PlacesInv
<1> QED
  BY <1>3 DEF PartsInv, IInv, TypeOK, StoreP!TypeOK

LEMMA ServedStart ==
    ASSUME PartsInv, ServedInv, NEW v \in Pins, Start(v)
    PROVE  ServedInv'
<1>1. /\ ~Up /\ Up' /\ tokens' = file /\ file' = file
      /\ UNCHANGED <<pc, job, req, phone, held, forfeited>>
  BY DEF Start, Regenerate, Store!Load, Up, devices, issued
<1>2. \A h \in 1..MaxGen : verdict[h] = "held" /\ h \in file => verdict'[h] = "held"
  BY DEF Start, Store!Load, Store!StillTrue
<1>3. file \in SUBSET (1..MaxGen)
  BY DEF Start, Store!Load, Store!Torn, PartsInv, StoreP!TypeOK,
     StoreP!Contents, StoreP!Torn
<1> QED
  BY <1>1, <1>2, <1>3 DEF ServedInv, Kept

\* With an untainted file, every answer in force is in it.
LEMMA ServedCrash ==
    ASSUME PartsInv, ServedInv, Crash
    PROVE  ServedInv'
<1>1. /\ Up /\ ~Up' /\ file' = file /\ UNCHANGED <<verdict, held>>
      /\ \A s \in Slots : pc'[s] = "idle" /\ req'[s].token = NoToken
  BY DEF Crash, Store!Crash, Store!history, Die, Up, Free, At
<1>2. \A p \in Phones : phone'[p] = "paired" => phone[p] = "paired"
  BY Facts DEF Crash, Die
<1>3. ASSUME NEW p \in Phones, phone[p] = "paired", held[p] \notin forfeited
      PROVE  held[p] \in forfeited' \/ held[p] \in file
  <2>1. held[p] \in tokens /\ held[p] \in 1..MaxGen /\ verdict[held[p]] = "held"
    BY <1>1, <1>3, Facts DEF ServedInv, Kept
  <2>2. CASE taint = "none"
    <3>1. file # StoreP!Torn
      BY <1>1 DEF PartsInv, StoreP!WritersInv, Up
    <3> QED
      BY <2>1, <2>2, <3>1 DEF PartsInv, StoreP!AnswersDurable, StoreP!StillTrue
  <2>3. CASE taint # "none"
    BY <2>1, <2>3 DEF Crash
  <2> QED
    BY <2>2, <2>3
<1>4. forfeited \subseteq forfeited'
  BY DEF Crash
<1> QED
  BY <1>1, <1>2, <1>3, <1>4 DEF ServedInv, Kept

\* The new token is none of those that anybody relies on.
LEMMA ServedMint ==
    ASSUME PartsInv, ServedInv, NEW s \in Slots, Mint(s)
    PROVE  ServedInv'
<1> DEFINE n == minted + 1
<1>1. /\ n \in 1..MaxGen /\ n # NoToken
      /\ \A u \in Slots : req[u].token # n
      /\ \A p \in Phones : phone[p] = "paired" => held[p] # n
  <2>1. minted \in Nat /\ MaxGen \in Nat /\ minted < MaxGen
    BY Facts, BoundsAssumption DEF Mint
  <2>2. n \in 1..MaxGen /\ n # NoToken /\ ~(n <= minted)
    BY <2>1 DEF NoToken
  <2> HIDE DEF n
  <2> QED
    BY <2>2, Facts
<1>2. /\ Up /\ Up' /\ tokens' = tokens \cup {n}
      /\ job'[s].kind = "add" /\ job'[s].hashes = {n} /\ pc'[s] = "write"
      /\ \A u \in Slots : u # s => pc'[u] = pc[u] /\ job'[u] = job[u]
      /\ \A h \in 1..MaxGen : h # n => verdict'[h] = verdict[h]
      /\ UNCHANGED forfeited
  BY Facts DEF Mint, Store!Add, Store!Begin, Up, PartsInv, StoreP!TypeOK
<1>3. /\ req'[s].token = n /\ \A u \in Slots : u # s => req'[u] = req[u]
      /\ UNCHANGED <<phone, held>>
  BY Facts DEF Mint, Issue, At, devices
<1> HIDE DEF n
<1>4. ASSUME NEW u \in Slots, req'[u].token # NoToken
      PROVE  /\ Up' /\ req'[u].token \in tokens'
             /\ pc'[u] = "idle" => verdict'[req'[u].token] = "held"
             /\ pc'[u] # "idle" => job'[u].hashes = {req'[u].token}
  <2>1. CASE u = s
    BY <1>2, <1>3, <2>1
  <2>2. CASE u # s
    <3>1. req[u].token \in tokens /\ req[u].token \in 1..MaxGen
      BY <1>3, <1>4, <2>2, Facts DEF ServedInv
    <3> QED
      BY <1>1, <1>2, <1>3, <1>4, <2>2, <3>1 DEF ServedInv
  <2> QED
    BY <2>1, <2>2
<1>5. ASSUME NEW p \in Phones, phone'[p] = "paired"
      PROVE  \/ held'[p] \in forfeited'
             \/ held'[p] \in tokens' /\ verdict'[held'[p]] = "held"
  <2>1. CASE held[p] \in forfeited
    BY <1>2, <1>3, <2>1
  <2>2. CASE Kept(held[p])
    <3>1. held[p] \in 1..MaxGen
      BY <1>2, <2>2, Facts DEF Kept
    <3> QED
      BY <1>1, <1>2, <1>3, <1>5, <2>2, <3>1 DEF Kept
  <2> QED
    BY <1>3, <1>5, <2>1, <2>2 DEF ServedInv
<1> QED
  <2>1. \A u \in Slots : pc'[u] # "idle" => job'[u].kind = "add"
    BY <1>2 DEF ServedInv
  <2> QED
    BY <1>2, <1>4, <1>5, <2>1 DEF ServedInv, Kept

\* A write that returns, with success or not, turns its tokens into answers.
LEMMA ServedPersist ==
    ASSUME PartsInv, ServedInv, NEW s \in Slots, Persist(s)
    PROVE  ServedInv'
<1>1. /\ Up /\ Up' /\ tokens' = tokens
      /\ UNCHANGED <<req, phone, held, forfeited>>
  BY DEF Persist, Store!Write, Store!FillTemp, Store!Rename, Store!WriteFails,
     Store!memory, vars, devices, PartsInv, StoreP!WritersInv, StoreP!Quiet,
     StoreP!Idle, Store!Idle, Up
<1>2. pc[s] # "idle" /\ \A u \in Slots : u # s => pc'[u] = pc[u] /\ job'[u] = job[u]
  BY Facts DEF Persist, Store!Write, Store!FillTemp, Store!Rename,
     Store!WriteFails, Store!Idle, PartsInv, StoreP!TypeOK
<1>3. CASE Store!FillTemp(s)
  <2>1. UNCHANGED <<verdict, job>> /\ pc'[s] # "idle"
    BY <1>3, Facts DEF Store!FillTemp, Store!history
  <2> QED
    BY <1>1, <1>2, <2>1 DEF ServedInv, Kept
<1>4. CASE Store!Rename(s) \/ Store!WriteFails(s)
  <2>1. pc'[s] = "idle" /\ verdict' = Store!Answered(s)
    BY <1>4, Facts DEF Store!Rename, Store!WriteFails
  <2>2. job[s].kind = "add"
    BY <1>2 DEF ServedInv
  <2>3. \A h \in 1..MaxGen :
          /\ verdict[h] = "held" => verdict'[h] = "held"
          /\ h \in job[s].hashes /\ h \in tokens => verdict'[h] = "held"
    BY <2>1, <2>2 DEF Store!Answered, Store!Answer, Store!StillTrue
  <2> QED
    BY <1>1, <1>2, <2>1, <2>3, Facts DEF ServedInv, Kept
<1> QED
  BY <1>3, <1>4 DEF Persist, Store!Write

\* The phone gets the token of a reply whose Add has returned.
LEMMA ServedReply ==
    ASSUME PartsInv, ServedInv, NEW s \in Slots, Reply(s)
    PROVE  ServedInv'
<1>1. /\ UNCHANGED <<store, forfeited>> /\ (Up' <=> Up) /\ pc[s] = "idle"
      /\ \A h : Kept(h)' <=> Kept(h)
  BY DEF Reply, store, Up, Store!Idle, Kept
<1>2. req'[s].token = NoToken /\ \A u \in Slots : u # s => req'[u] = req[u]
  BY Facts DEF Reply, Drop, Receive, Free, At
<1>3. ASSUME NEW p \in Phones, phone'[p] = "paired"
      PROVE  held'[p] \in forfeited \/ Kept(held'[p])
  <2>1. CASE Drop(s)
    BY <1>3, <2>1 DEF Drop, devices, ServedInv
  <2>2. ASSUME NEW q \in Phones, Receive(q, s)
        PROVE  held'[p] \in forfeited \/ Kept(held'[p])
    <3>1. CASE q = p
      <4>1. held'[p] = req[s].token /\ req[s].token # NoToken
        BY <1>3, <2>2, <3>1, Facts DEF Receive
      <4> QED
        BY <1>1, <4>1 DEF ServedInv, Kept
    <3>2. CASE q # p
      <4>1. phone'[p] = phone[p] /\ held'[p] = held[p]
        BY <2>2, <3>2, Facts DEF Receive
      <4> QED
        BY <1>3, <4>1 DEF ServedInv
    <3> QED
      BY <3>1, <3>2
  <2> QED
    BY <2>1, <2>2 DEF Reply
<1> QED
  BY <1>1, <1>2, <1>3 DEF ServedInv, store

LEMMA ServedRest ==
    ASSUME PartsInv, ServedInv, Rest
    PROVE  ServedInv'
<1>1. /\ UNCHANGED <<store, forfeited>> /\ (Up' <=> Up)
      /\ \A h : Kept(h)' <=> Kept(h)
  BY DEF Rest, store, Up, Kept
<1>2. \A s \in Slots : req'[s].token = NoToken \/ req'[s] = req[s]
  BY Facts DEF Rest, Tick, Operator, Regenerate, Compare, Consume, IssueFails,
     GiveUp, Disconnect, Submit, Unreachable, Refuse, At
<1>3. \A p \in Phones :
        phone'[p] = "paired" => phone[p] = "paired" /\ held'[p] = held[p]
  BY Facts DEF Rest, Tick, Operator, Regenerate, Compare, Consume, IssueFails,
     GiveUp, Disconnect, Submit, Unreachable, devices
<1> QED
  BY <1>1, <1>2, <1>3 DEF ServedInv, store

-----------------------------------------------------------------------------
(* The theorem.                                                             *)

\* A phone that is paired is served, for any number of phones, requests,
\* crashes and restarts.
THEOREM Served == ESpec => []PairedIsServed
<1>1. EInit => ServedInv
  BY DEF EInit, Init, Store!Init, ServedInv, Free, At, NoToken
<1>2. PartsInv /\ ServedInv /\ [ENext]_allVars => ServedInv'
  <2> SUFFICES ASSUME PartsInv, ServedInv, [ENext]_allVars PROVE ServedInv'
    OBVIOUS
  <2>1. CASE UNCHANGED allVars
    BY <2>1 DEF allVars, vars, devices, store, ServedInv, Kept, Up
  <2> QED
    BY <2>1, ServedStart, ServedCrash, ServedMint, ServedPersist, ServedReply,
       ServedRest DEF ENext
<1>3. ServedInv => PairedIsServed
  BY DEF ServedInv, PairedIsServed, Kept
<1> QED
  BY <1>1, <1>2, <1>3, PartsInvariant, PTL DEF ESpec

-----------------------------------------------------------------------------
(* The rate limiter.                                                         *)

\* A bucket keeps its type when it rolls over and when a request is counted.
LEMMA BucketType ==
    ASSUME NEW max \in Nat, NEW b \in Bucket(max), clock \in Nat
    PROVE  /\ Rolled(b) \in Bucket(max)
           /\ Rolled(b).count < max => Counted(Rolled(b)) \in Bucket(max)
BY LimitsAssumption DEF Bucket, Rolled, Counted

\* A window that rolled over, or is still open, ends in the future.
LEMMA RolledEnd ==
    ASSUME NEW max \in Nat, NEW b \in Bucket(max), clock \in Nat
    PROVE  /\ Rolled(b).end \in Nat /\ Rolled(b).count \in 0..max
           /\ Rolled(b).end > clock
           /\ b.end > clock => Rolled(b) = b
           /\ Counted(Rolled(b)).end = Rolled(b).end
           /\ Counted(Rolled(b)).count = Rolled(b).count + 1
BY LimitsAssumption DEF Bucket, Rolled, Counted

\* Rounding up to seconds never shortens a wait.
LEMMA HeaderIsEnough ==
    ASSUME NEW wait \in Nat
    PROVE  /\ Header(wait) \in Nat
           /\ TicksPerSecond * Header(wait) \in Nat
           /\ TicksPerSecond * Header(wait) >= wait
<1> DEFINE n == wait + TicksPerSecond - 1
           q == n \div TicksPerSecond
<1>1. TicksPerSecond \in Nat \ {0} /\ n \in Nat
  BY LimitsAssumption
<1>2. q \in Nat /\ n < TicksPerSecond * (q + 1)
  BY <1>1
<1>3. TicksPerSecond * (q + 1) = TicksPerSecond * q + TicksPerSecond
  BY <1>1, <1>2
<1>4. TicksPerSecond * q \in Nat
  BY <1>1, <1>2
<1>5. TicksPerSecond * q >= wait
  BY <1>1, <1>2, <1>3, <1>4
<1>6. Header(wait) = IF q < 1 THEN 1 ELSE q
  BY DEF Header
<1> HIDE DEF q, n
<1>7. CASE q < 1
  <2>1. q = 0 /\ Header(wait) = 1
    BY <1>2, <1>6, <1>7
  <2>2. TicksPerSecond * 0 = 0 /\ TicksPerSecond * 1 = TicksPerSecond
    BY <1>1
  <2> QED
    BY <1>1, <1>5, <2>1, <2>2
<1>8. CASE ~(q < 1)
  BY <1>2, <1>4, <1>5, <1>6, <1>8
<1> QED
  BY <1>7, <1>8

-----------------------------------------------------------------------------
(* What a bucket says about what was let through.                           *)

\* count[t] is what was let through up to tick t; nothing happens after now.
Counts(count) ==
    /\ count[0] = 0
    /\ \A t \in Ticks : count[t] <= count[clock]
    /\ \A t, u \in Ticks : t <= u => count[t] <= count[u]
    /\ \A t \in Ticks : t >= clock => count[t] = count[clock]

\* A bucket counts what was let through since its window began, and in as many
\* ticks before that it was one budget at most.
Meters(b, max, count) ==
    /\ Counts(count)
    /\ b.end <= clock => count[clock] = count[clock - 1]
    /\ b.end = 0 => count[clock] = 0 /\ b.count = 0
    /\ b.end > 0 =>
          /\ b.end > Window /\ b.end - Window <= clock
          /\ count[clock] - count[b.end - Window - 1] = b.count
          /\ count[b.end - Window - 1] - count[Ago(b.end - Window - 1)] <= max

MetersInv ==
    /\ \A ip \in IPs : Meters(perIP[ip], PerIPMax, admitted[ip])
    /\ Meters(global, GlobalMax, total)

\* The tick before a bucket's window, and the stretch before it.
LEMMA BeforeWindow ==
    ASSUME NEW max \in Nat, NEW b \in Bucket(max), NEW count \in [Ticks -> Nat],
           clock \in 1..(MaxClock + 1), Meters(b, max, count), b.end > 0,
           NEW s, s = b.end - Window - 1
    PROVE  /\ s \in Ticks /\ s \in Nat /\ s < clock
           /\ Ago(s) \in Ticks /\ Ago(s) \in Nat /\ Ago(s) <= s
           /\ Ago(s) = 0 \/ Ago(s) = s - Window
           /\ count[clock] - count[s] = b.count
           /\ count[s] - count[Ago(s)] <= max
<1>1. /\ b.end \in Nat /\ clock \in Nat /\ clock <= MaxClock + 1
      /\ Window \in Nat /\ MaxClock \in Nat
  BY LimitsAssumption DEF Bucket
<1>2. b.end > Window /\ b.end - Window <= clock
  BY DEF Meters
<1>3. s \in Nat /\ s < clock
  BY <1>1, <1>2
<1>4. Ago(s) \in Nat /\ Ago(s) <= s /\ (Ago(s) = 0 \/ Ago(s) = s - Window)
  BY <1>1, <1>3 DEF Ago
<1> QED
  BY <1>1, <1>3, <1>4 DEF Ticks, Meters

\* A bucket that meters a count bounds what is let through in any stretch of a
\* window's length: two windows overlap it, no more.
LEMMA MeteredTwice ==
    ASSUME NEW max \in Nat, NEW b \in Bucket(max), NEW count \in [Ticks -> Nat],
           clock \in 1..(MaxClock + 1), Meters(b, max, count)
    PROVE  Spent(count) <= 2 * max
<1> DEFINE s == b.end - Window - 1
<1>1. /\ b.end \in Nat /\ b.count \in 0..max /\ clock \in Ticks /\ clock \in Nat
      /\ Window \in Nat \ {0} /\ max \in Nat /\ MaxClock \in Nat
  BY LimitsAssumption DEF Bucket, Ticks
<1>2. Ago(clock) \in Ticks /\ Ago(clock) \in Nat /\ Ago(clock) <= clock /\ clock - Window <= Ago(clock)
  BY <1>1 DEF Ago, Ticks
<1>3. count[clock] \in Nat /\ count[Ago(clock)] \in Nat
  BY <1>1, <1>2
<1>4. CASE b.end = 0
  BY <1>1, <1>3, <1>4 DEF Meters, Spent
<1>5. CASE b.end > 0
  <2>1. /\ s \in Ticks /\ s \in Nat /\ s < clock
        /\ Ago(s) \in Ticks /\ Ago(s) \in Nat
        /\ Ago(s) = 0 \/ Ago(s) = s - Window
        /\ count[clock] - count[s] = b.count
        /\ count[s] - count[Ago(s)] <= max
    BY <1>5, BeforeWindow
  <2>2. count[s] \in Nat /\ count[Ago(s)] \in Nat
    BY <2>1
  <2>4. Ago(s) <= Ago(clock)
    BY <1>1, <1>2, <2>1
  <2>5. count[Ago(s)] <= count[Ago(clock)]
    BY <1>2, <2>1, <2>4 DEF Meters, Counts
  <2> HIDE DEF s
  <2> QED
    BY <1>1, <1>3, <2>1, <2>2, <2>5 DEF Spent
<1> QED
  BY <1>1, <1>4, <1>5

\* The count of an open window has been let through within the last Window
\* ticks.
LEMMA OpenIsSpent ==
    ASSUME NEW max \in Nat, NEW b \in Bucket(max), NEW count \in [Ticks -> Nat],
           clock \in 1..(MaxClock + 1), Meters(b, max, count), b.end > clock
    PROVE  Spent(count) >= b.count
<1> DEFINE s == b.end - Window - 1
<1>1. /\ b.end \in Nat /\ b.count \in 0..max /\ clock \in Ticks /\ clock \in Nat
      /\ Window \in Nat \ {0} /\ MaxClock \in Nat
  BY LimitsAssumption DEF Bucket, Ticks
<1>2. /\ s \in Ticks /\ s \in Nat /\ count[clock] - count[s] = b.count
  BY <1>1, BeforeWindow
<1>3. Ago(clock) \in Nat /\ Ago(clock) \in Ticks /\ Ago(clock) <= s
  BY <1>1, <1>2 DEF Ago, Ticks
<1>4. count[clock] \in Nat /\ count[Ago(clock)] \in Nat /\ count[s] \in Nat
  BY <1>1, <1>2, <1>3
<1> HIDE DEF s
<1>5. count[Ago(clock)] <= count[s]
  BY <1>2, <1>3 DEF Meters, Counts
<1> QED
  BY <1>1, <1>2, <1>4, <1>5 DEF Spent

\* A bucket still meters its count when it has rolled over.
LEMMA RolledMeters ==
    ASSUME NEW max \in Nat, NEW b \in Bucket(max), NEW count \in [Ticks -> Nat],
           clock \in 1..(MaxClock + 1), Meters(b, max, count)
    PROVE  Meters(Rolled(b), max, count)
<1>1. /\ b.end \in Nat /\ b.count \in 0..max /\ clock \in Ticks /\ clock \in Nat
      /\ Window \in Nat \ {0} /\ max \in Nat /\ MaxClock \in Nat
  BY LimitsAssumption DEF Bucket, Ticks
<1>2. CASE b.end > clock
  BY <1>1, <1>2 DEF Rolled
<1>3. CASE b.end <= clock
  <2> DEFINE s == b.end - Window - 1
  <2>1. Rolled(b) = [count |-> 0, end |-> clock + Window]
    BY <1>3 DEF Rolled
  <2>2. clock + Window - Window - 1 = clock - 1 /\ clock - 1 \in Ticks
    BY <1>1 DEF Ticks
  <2>3. /\ Ago(clock - 1) \in Ticks
        /\ count[clock - 1] \in Nat /\ count[Ago(clock - 1)] \in Nat
        /\ count[clock] \in Nat
    BY <1>1, <2>2 DEF Ago, Ticks
  <2>4. count[clock - 1] - count[Ago(clock - 1)] <= max
    <3>1. CASE b.end = 0
      BY <1>1, <2>2, <2>3, <3>1 DEF Meters, Counts
    <3>2. CASE b.end > 0
      <4>1. /\ s \in Ticks /\ s \in Nat /\ s = b.end - Window - 1
            /\ count[clock] - count[s] = b.count
        BY <3>2, BeforeWindow
      <4> HIDE DEF s
      <4>5. s <= Ago(clock - 1)
        BY <1>1, <1>3, <4>1 DEF Ago
      <4>2. count[s] \in Nat /\ count[s] <= count[Ago(clock - 1)]
        BY <2>3, <4>1, <4>5 DEF Meters, Counts
      <4>4. count[clock - 1] <= count[clock]
        BY <2>2 DEF Meters, Counts
      <4> QED
        BY <1>1, <2>3, <4>1, <4>2, <4>4
    <3> QED
      BY <1>1, <3>1, <3>2
  <2>5. count[clock] - count[clock - 1] = 0
    BY <1>3, <2>3 DEF Meters
  <2> HIDE DEF s
  <2> QED
    BY <1>1, <2>1, <2>2, <2>4, <2>5 DEF Meters
<1> QED
  BY <1>1, <1>2, <1>3

\* It still does when one more is let through and counted.
LEMMA AdmittedMeters ==
    ASSUME NEW max \in Nat, NEW b \in Bucket(max), NEW count \in [Ticks -> Nat],
           clock \in 1..(MaxClock + 1), Meters(b, max, count), b.end > clock
    PROVE  /\ OneMore(count) \in [Ticks -> Nat]
           /\ Meters(Counted(b), max, OneMore(count))
<1> DEFINE s == b.end - Window - 1
           more == OneMore(count)
<1>1. /\ b.end \in Nat /\ b.count \in 0..max /\ clock \in Ticks /\ clock \in Nat
      /\ Window \in Nat \ {0} /\ max \in Nat /\ MaxClock \in Nat /\ 0 \in Ticks
      /\ Ticks \subseteq Nat
  BY LimitsAssumption DEF Bucket, Ticks
<1>2. /\ \A t \in Ticks : count[t] \in Nat
      /\ \A t \in Ticks : more[t] = IF t < clock THEN count[t] ELSE count[t] + 1
      /\ more \in [Ticks -> Nat]
  BY DEF OneMore
<1>3. /\ Counted(b).end = b.end /\ Counted(b).count = b.count + 1
  BY DEF Counted, Bucket
<1>4. /\ s \in Ticks /\ s < clock /\ Ago(s) \in Ticks /\ Ago(s) < clock
      /\ count[clock] - count[s] = b.count /\ count[s] - count[Ago(s)] <= max
  BY <1>1, BeforeWindow
<1> HIDE DEF more, s
<1>5. Counts(more)
  <2>1. more[0] = 0
    BY <1>1, <1>2 DEF Meters, Counts
  <2>2. \A t \in Ticks : count[t] <= count[clock] /\ (t >= clock => count[t] = count[clock])
    BY DEF Meters, Counts
  <2>3. \A t, u \in Ticks : t <= u => count[t] <= count[u]
    BY DEF Meters, Counts
  <2>4. \A t \in Ticks : more[t] <= more[clock] /\ (t >= clock => more[t] = more[clock])
    BY <1>1, <1>2, <2>2
  <2>5. \A t, u \in Ticks : t <= u => more[t] <= more[u]
    BY <1>1, <1>2, <2>3
  <2> QED
    BY <2>1, <2>4, <2>5 DEF Counts
<1>6. /\ more[clock] - more[s] = b.count + 1
      /\ more[s] - more[Ago(s)] <= max
  <2>2. more[clock] = count[clock] + 1 /\ more[s] = count[s] /\ more[Ago(s)] = count[Ago(s)]
    <3>1. clock >= clock /\ ~(clock < clock)
      BY <1>1
    <3> QED
      BY <1>1, <1>2, <1>4, <3>1
  <2> QED
    BY <1>1, <1>2, <1>4, <2>2
<1> QED
  BY <1>1, <1>2, <1>3, <1>5, <1>6 DEF Meters, s, more

\* Time alone changes nothing about it.
LEMMA TickMeters ==
    ASSUME NEW max \in Nat, NEW b \in Bucket(max), NEW count \in [Ticks -> Nat],
           clock \in 1..(MaxClock + 1), clock' = clock + 1, clock' \in 1..(MaxClock + 1),
           Meters(b, max, count)
    PROVE  Meters(b, max, count)'
<1>1. /\ b.end \in Nat /\ clock \in Ticks /\ clock \in Nat /\ clock' \in Ticks
      /\ Window \in Nat \ {0} /\ MaxClock \in Nat /\ Ticks \subseteq Nat
  BY LimitsAssumption DEF Bucket, Ticks
<1>2. \A t \in Ticks : count[t] \in Nat /\ (t >= clock => count[t] = count[clock])
  BY DEF Meters, Counts
<1>3. count[clock'] = count[clock] /\ clock' - 1 = clock
  BY <1>1, <1>2
<1>4. Counts(count)'
  BY <1>1, <1>2, <1>3 DEF Meters, Counts
<1> QED
  BY <1>1, <1>3, <1>4 DEF Meters, Ago

-----------------------------------------------------------------------------
(* The inductive invariant.                                                 *)

\* What a refusal said still holds: the bucket that refused is still full, and
\* its window ends when the client was told.
Full(b, max, end) == b.count = max /\ b.end = end

ToldInv ==
    \A ip \in IPs : told[ip] > clock =>
        \/ Full(perIP[ip], PerIPMax, told[ip])
        \/ Full(global, GlobalMax, told[ip])

LimiterInv == LimiterTypeOK /\ ToldInv /\ MetersInv /\ HeaderCoversWait

LEMMA LimiterInitInv == LimiterInit => LimiterInv
<1> SUFFICES ASSUME LimiterInit PROVE LimiterInv
  OBVIOUS
<1>1. LimiterTypeOK /\ ToldInv /\ HeaderCoversWait
  BY LimitsAssumption
  DEF LimiterInit, LimiterTypeOK, ToldInv, HeaderCoversWait, Bucket, Never
<1>2. 0 \in Ticks /\ 1 \in Ticks /\ clock = 1
  BY LimitsAssumption DEF Ticks, LimiterInit
<1>3. ASSUME NEW max, NEW count, count = [t \in Ticks |-> 0]
      PROVE  Meters(Never, max, count)
  BY <1>2, <1>3 DEF Meters, Counts, Never
<1>4. MetersInv
  BY <1>3 DEF LimiterInit, MetersInv
<1> QED
  BY <1>1, <1>4 DEF LimiterInv

LEMMA AllowInv ==
    ASSUME LimiterInv, NEW ip \in IPs, Allow(ip)
    PROVE  LimiterInv' /\ (admitted'[ip] # admitted[ip] => told[ip] <= clock)
<1> DEFINE b == Rolled(perIP[ip])
           g == Rolled(global)
<1>1. /\ clock \in Nat /\ PerIPMax \in Nat /\ GlobalMax \in Nat
      /\ perIP[ip] \in Bucket(PerIPMax) /\ global \in Bucket(GlobalMax)
  BY LimitsAssumption DEF LimiterInv, LimiterTypeOK
<1>2. /\ b.end \in Nat /\ b.end > clock /\ b.count \in 0..PerIPMax
      /\ g.end \in Nat /\ g.end > clock /\ g.count \in 0..GlobalMax
      /\ perIP[ip].end > clock => b = perIP[ip]
      /\ global.end > clock => g = global
  BY <1>1, RolledEnd
<1>3. /\ b \in Bucket(PerIPMax) /\ g \in Bucket(GlobalMax)
      /\ b.count < PerIPMax => Counted(b) \in Bucket(PerIPMax)
      /\ g.count < GlobalMax => Counted(g) \in Bucket(GlobalMax)
  BY <1>1, BucketType
<1>4. clock' = clock
  BY DEF Allow
<1>10. /\ clock \in 1..(MaxClock + 1)
       /\ admitted[ip] \in [Ticks -> Nat] /\ total \in [Ticks -> Nat]
       /\ Meters(b, PerIPMax, admitted[ip]) /\ Meters(g, GlobalMax, total)
  <2>1. /\ clock \in 1..(MaxClock + 1)
        /\ admitted[ip] \in [Ticks -> Nat] /\ total \in [Ticks -> Nat]
        /\ Meters(perIP[ip], PerIPMax, admitted[ip]) /\ Meters(global, GlobalMax, total)
    BY DEF LimiterInv, LimiterTypeOK, MetersInv
  <2> QED
    BY <1>1, <2>1, RolledMeters
<1> HIDE DEF b, g
\* A bucket that was full until later than clock has not rolled over.
<1>5. \A i \in IPs : told[i] > clock =>
        \/ Full(perIP[i], PerIPMax, told[i]) /\ (i = ip => b = perIP[ip])
        \/ Full(global, GlobalMax, told[i]) /\ g = global
  BY <1>2 DEF LimiterInv, ToldInv, Full
<1>6. ASSUME NEW end \in Nat, end > clock, Refusal(ip, end),
             perIP' = [perIP EXCEPT ![ip] = b], global' = g,
             \/ b.count = PerIPMax /\ end = b.end
             \/ g.count = GlobalMax /\ end = g.end
      PROVE  LimiterInv' /\ admitted' = admitted
  <2>1. TicksPerSecond * Header(end - clock) \in Nat
        /\ TicksPerSecond * Header(end - clock) >= end - clock
    BY <1>1, <1>6, HeaderIsEnough
  <2>2. LimiterTypeOK'
    BY <1>1, <1>3, <1>4, <1>6, <2>1 DEF LimiterInv, LimiterTypeOK, Refusal
  <2>3. ToldInv'
    BY <1>4, <1>5, <1>6 DEF LimiterInv, LimiterTypeOK, ToldInv, Refusal, Full
  <2>4. HeaderCoversWait'
    BY <1>1, <1>6, <2>1 DEF LimiterInv, LimiterTypeOK, HeaderCoversWait, Refusal
  <2>5. MetersInv'
    <3>1. UNCHANGED <<clock, admitted, total>>
      BY <1>4, <1>6 DEF Refusal
    <3>2. perIP' = [i \in IPs |-> IF i = ip THEN b ELSE perIP[i]] /\ global' = g
      BY <1>6 DEF LimiterInv, LimiterTypeOK
    <3>3. \A i \in IPs : Meters(perIP[i], PerIPMax, admitted[i])
      BY DEF LimiterInv, MetersInv
    <3> QED
      BY <1>10, <3>1, <3>2, <3>3 DEF MetersInv, Meters, Counts, Ago
  <2> QED
    BY <1>6, <2>2, <2>3, <2>4, <2>5 DEF LimiterInv, Refusal
<1>7. CASE b.count >= PerIPMax /\ Refusal(ip, b.end)
           /\ perIP' = [perIP EXCEPT ![ip] = b] /\ global' = g
  BY <1>1, <1>2, <1>6, <1>7
<1>8. CASE b.count < PerIPMax /\ g.count >= GlobalMax /\ Refusal(ip, g.end)
           /\ perIP' = [perIP EXCEPT ![ip] = b] /\ global' = g
  BY <1>1, <1>2, <1>6, <1>8
<1>9. CASE /\ b.count < PerIPMax /\ g.count < GlobalMax
           /\ perIP' = [perIP EXCEPT ![ip] = Counted(b)]
           /\ global' = Counted(g)
           /\ Admit(ip)
           /\ UNCHANGED <<told, retryAt>>
  <2>5. /\ OneMore(admitted[ip]) \in [Ticks -> Nat] /\ OneMore(total) \in [Ticks -> Nat]
        /\ Meters(Counted(b), PerIPMax, OneMore(admitted[ip]))
        /\ Meters(Counted(g), GlobalMax, OneMore(total))
    BY <1>1, <1>2, <1>3, <1>10, AdmittedMeters
  <2>6. MetersInv'
    <3>1. /\ perIP' = [i \in IPs |-> IF i = ip THEN Counted(b) ELSE perIP[i]]
          /\ admitted' = [i \in IPs |-> IF i = ip THEN OneMore(admitted[ip]) ELSE admitted[i]]
          /\ global' = Counted(g) /\ total' = OneMore(total)
      BY <1>9 DEF LimiterInv, LimiterTypeOK, Admit
    <3>2. \A i \in IPs : Meters(perIP[i], PerIPMax, admitted[i])
      BY DEF LimiterInv, MetersInv
    <3> HIDE DEF LimiterInv
    <3> QED
      BY <1>4, <2>5, <3>1, <3>2 DEF MetersInv, Meters, Counts, Ago
  \* Nobody was told to wait because of a bucket that is not full.
  <2>1. \A i \in IPs : told[i] > clock =>
          i # ip /\ Full(perIP[i], PerIPMax, told[i])
    BY <1>1, <1>2, <1>5, <1>9 DEF Full
  <2>2. LimiterTypeOK'
    <3>1. perIP' \in [IPs -> Bucket(PerIPMax)] /\ global' \in Bucket(GlobalMax)
      <4> HIDE DEF Bucket
      <4> QED
        BY <1>3, <1>9 DEF LimiterInv, LimiterTypeOK
    <3>4. admitted' \in [IPs -> [Ticks -> Nat]] /\ total' \in [Ticks -> Nat]
      BY <1>9, <2>5 DEF LimiterInv, LimiterTypeOK, Admit
    <3> QED
      BY <1>4, <1>9, <3>1, <3>4 DEF LimiterInv, LimiterTypeOK
  <2>3. ToldInv'
    BY <1>4, <1>9, <2>1 DEF LimiterInv, LimiterTypeOK, ToldInv
  <2>4. told[ip] <= clock
    BY <1>1, <2>1 DEF LimiterInv, LimiterTypeOK
  <2> QED
    BY <1>9, <2>2, <2>3, <2>4, <2>6 DEF LimiterInv, HeaderCoversWait
<1> QED
  BY <1>7, <1>8, <1>9 DEF Allow, b, g

LEMMA ClockInv ==
    ASSUME LimiterInv, ClockTicks
    PROVE  LimiterInv'
<1>1. clock \in Nat /\ clock' = clock + 1 /\ clock' \in 1..(MaxClock + 1)
  BY LimitsAssumption DEF ClockTicks, LimiterInv, LimiterTypeOK
<1>2. LimiterTypeOK' /\ HeaderCoversWait'
  BY <1>1 DEF ClockTicks, LimiterInv, LimiterTypeOK, HeaderCoversWait, buckets, history
<1>3. ToldInv'
  BY <1>1 DEF ClockTicks, LimiterInv, LimiterTypeOK, ToldInv, buckets, history
<1>4. MetersInv'
  <2>1. UNCHANGED <<perIP, global, admitted, total>>
    BY DEF ClockTicks, buckets, history
  <2>2. clock \in 1..(MaxClock + 1)
    BY DEF LimiterInv, LimiterTypeOK
  <2>3. ASSUME NEW ip \in IPs PROVE Meters(perIP[ip], PerIPMax, admitted[ip])'
    <3> DEFINE b == perIP[ip]
               count == admitted[ip]
    <3>1. PerIPMax \in Nat /\ b \in Bucket(PerIPMax) /\ count \in [Ticks -> Nat]
      BY LimitsAssumption DEF LimiterInv, LimiterTypeOK
    <3>2. Meters(b, PerIPMax, count)
      BY DEF LimiterInv, MetersInv
    <3>3. perIP'[ip] = b /\ admitted'[ip] = count
      BY <2>1
    <3> QED
      BY <1>1, <2>2, <3>1, <3>2, <3>3, TickMeters
  <2>4. Meters(global, GlobalMax, total)'
    BY <1>1, <2>1, <2>2, TickMeters, LimitsAssumption
    DEF LimiterInv, LimiterTypeOK, MetersInv
  <2> QED
    BY <2>3, <2>4 DEF MetersInv
<1> QED
  BY <1>2, <1>3, <1>4 DEF LimiterInv

LEMMA LimiterInductive == LimiterSpec => []LimiterInv
<1>1. LimiterInv /\ [LimiterNext]_limiterVars => LimiterInv'
  <2>1. LimiterInv /\ UNCHANGED limiterVars => LimiterInv'
    BY DEF LimiterInv, LimiterTypeOK, ToldInv, MetersInv, Meters, Counts, Ago,
       HeaderCoversWait, limiterVars, buckets, history
  <2> QED
    BY <2>1, AllowInv, ClockInv DEF LimiterNext
<1> QED
  BY <1>1, LimiterInitInv, PTL DEF LimiterSpec

\* Types, and no counter above its budget.
THEOREM LimiterTypeCorrect == LimiterSpec => []LimiterTypeOK
BY LimiterInductive, PTL DEF LimiterInv

\* A client told to wait is admitted by no earlier request.
THEOREM NotBeforeTold == LimiterSpec => NoAdmissionBeforeTold
<1>1. LimiterInv /\ [LimiterNext]_limiterVars =>
        [\A ip \in IPs : admitted'[ip] # admitted[ip] => told[ip] <= clock]_limiterVars
  <2>1. ASSUME LimiterInv, NEW ip \in IPs, Allow(ip), NEW i \in IPs,
               admitted'[i] # admitted[i]
        PROVE  i = ip
    BY <2>1 DEF Allow, Refusal, Admit, LimiterInv, LimiterTypeOK
  <2>2. ClockTicks => admitted' = admitted
    BY DEF ClockTicks, history
  <2> QED
    BY <2>1, <2>2, AllowInv DEF LimiterNext, limiterVars, history
<1> QED
  BY <1>1, LimiterInductive, PTL DEF LimiterSpec, NoAdmissionBeforeTold

\* Retry-After is never shorter than the refusing window.
THEOREM HeaderIsHonest == LimiterSpec => []HeaderCoversWait
BY LimiterInductive, PTL DEF LimiterInv

\* No stretch of a window's length sees more than twice a budget.
THEOREM BudgetHolds == LimiterSpec => []TwiceTheBudget
<1>1. LimiterInv => TwiceTheBudget
  <2> SUFFICES ASSUME LimiterInv PROVE TwiceTheBudget
    OBVIOUS
  <2>1. ASSUME NEW ip \in IPs PROVE Spent(admitted[ip]) <= 2 * PerIPMax
    BY MeteredTwice, LimitsAssumption DEF LimiterInv, LimiterTypeOK, MetersInv
  <2>2. Spent(total) <= 2 * GlobalMax
    BY MeteredTwice, LimitsAssumption DEF LimiterInv, LimiterTypeOK, MetersInv
  <2> QED
    BY <2>1, <2>2 DEF TwiceTheBudget
<1> QED
  BY <1>1, LimiterInductive, PTL

\* A budget has been spent when a request is refused, and no longer than a
\* window ago.
THEOREM SpentWhenRefused == LimiterSpec => []RefusedOnlyWhenSpent
<1>1. LimiterInv => RefusedOnlyWhenSpent
  <2> SUFFICES ASSUME LimiterInv, NEW ip \in IPs, told[ip] > clock
               PROVE  \/ Spent(admitted[ip]) >= PerIPMax
                      \/ Spent(total) >= GlobalMax
    BY DEF RefusedOnlyWhenSpent
  <2> USE LimitsAssumption DEF LimiterInv, LimiterTypeOK, MetersInv
  <2>1. CASE Full(perIP[ip], PerIPMax, told[ip])
    <3>1. Spent(admitted[ip]) >= perIP[ip].count
      BY <2>1, OpenIsSpent DEF Full
    <3> QED
      BY <2>1, <3>1 DEF Full
  <2>2. CASE Full(global, GlobalMax, told[ip])
    <3>1. Spent(total) >= global.count
      BY <2>2, OpenIsSpent DEF Full
    <3> QED
      BY <2>2, <3>1 DEF Full
  <2> QED
    BY <2>1, <2>2 DEF ToldInv
<1> QED
  BY <1>1, LimiterInductive, PTL

=============================================================================
