------------------------ MODULE PhoneConnect_proofs ------------------------
(***************************************************************************)
(* Proofs about PhoneConnect and the TlsCert in it, for any number of key  *)
(* pairs.                                                                  *)
(***************************************************************************)
EXTENDS PhoneConnect, TLAPS

-----------------------------------------------------------------------------
(* The server.                                                              *)

\* Steps of a start at which generateAndWrite has a pair in hand.
Generating == {"cert", "certBody", "key", "keyBody"}

\* What the certificate's history says of the files: a pair that was served is
\* in both of them, and no start that finds it there generates another.
CertInv ==
    /\ CertTypeOK
    /\ server \in Generating => fresh # None
    /\ server = "listen" => cert \in {None, told}
    /\ server = "up" => told = serving
    /\ serving # None => first # None
    /\ ~spoilt /\ first # None =>
           cert = first /\ key = first /\ server \notin Generating
    /\ ~spoilt /\ serving # None => serving = first

LEMMA CertInvInit == CertInit => CertInv
<1> SUFFICES ASSUME CertInit PROVE CertInv
  OBVIOUS
<1>1. CertTypeOK
  <2>1. None \in Files /\ 0 \in 0..MaxKeys /\ "down" \in Stages
    BY MaxKeysAssumption DEF Files, None, Stages
  <2>2. (server = "up") = FALSE /\ (serving # None) = FALSE
    BY DEF CertInit
  <2> QED
    BY <2>1, <2>2 DEF CertInit, CertTypeOK
<1>2. server = "down" /\ serving = None /\ first = None
  BY DEF CertInit
<1> QED
  BY <1>1, <1>2 DEF CertInv, Generating

\* Every step of the server, and everybody who touches its files.
LEMMA CertInvStep == CertInv /\ CertNext => CertInv'
<1> SUFFICES ASSUME CertInv, CertNext PROVE CertInv'
  OBVIOUS
<1> USE MaxKeysAssumption
        DEF CertInv, CertTypeOK, Stages, Files, KeyPairs, None, Generating, At,
            Goes, Pair
<1>1. CASE Reuse
  BY <1>1 DEF Reuse
<1>2. CASE Generate
  <2>1. made + 1 \in 1..MaxKeys /\ made + 1 # 0
    BY <1>2 DEF Generate
  <2>2. spoilt \/ first = None
    BY <1>2 DEF Generate
  <2> QED
    BY <1>2, <2>1, <2>2 DEF Generate
<1>3. CASE TruncateCert
  BY <1>3 DEF TruncateCert
<1>4. CASE FillCert
  BY <1>4 DEF FillCert
<1>5. CASE TruncateKey
  BY <1>5 DEF TruncateKey
<1>6. CASE FillKey
  BY <1>6 DEF FillKey
<1>7. CASE ReadFingerprint
  BY <1>7 DEF ReadFingerprint
<1>8. CASE Listen
  BY <1>8 DEF Listen
<1>9. CASE Down
  BY <1>9 DEF Down
<1>10. CASE Spoil
  BY <1>10 DEF Spoil
<1> QED
  BY <1>1, <1>2, <1>3, <1>4, <1>5, <1>6, <1>7, <1>8, <1>9, <1>10 DEF CertNext

\* A pair that a listener serves and nobody touches is the first of them all.
LEMMA FirstStays == CertInv /\ CertNext /\ first # None => first' = first
BY DEF CertNext, Reuse, Generate, TruncateCert, FillCert, TruncateKey, FillKey,
       ReadFingerprint, Listen, Down, Spoil

\* Nobody takes back that the files were touched.
LEMMA SpoiltStays == CertNext /\ spoilt => spoilt'
BY DEF CertNext, Reuse, Generate, TruncateCert, FillCert, TruncateKey, FillKey,
       ReadFingerprint, Listen, Down, Spoil

-----------------------------------------------------------------------------
(* The phone.                                                               *)

\* What a phone can know of a server whose files nobody touches is the pair
\* that was served first, and an answer is about the pair of its handshake.
PinsInv ==
    /\ ~spoilt =>
         /\ observed # None => first # None /\ observed = first
         /\ asked # None => first # None /\ asked = first
         /\ saved # None => first # None /\ saved = first
    /\ reply.kind = "ok" => observed # None /\ reply.fingerprint = observed
    /\ ui # "mismatch"

\* A connection under way works with the pin that is saved; whoever has
\* confirmed one is pinned, if the dialog was not dismissed in between.
HolderInv ==
    /\ reply.kind # "none" =>
         ui \in {"connecting", "connected"} /\ savedPin = saved /\ holder = saved
    /\ ui = "confirm" => asked # None
    /\ confirming => saved # None
    /\ confirming /\ ~dismissed => holder = saved
    /\ PinnedUnlessDismissed

Inv == TypeOK /\ CertInv /\ PinsInv /\ HolderInv

phoneVars == <<ui, asked, pins, reply, savedPin, confirming, dismissed>>

LEMMA InvInit == Init => Inv
<1> SUFFICES ASSUME Init PROVE Inv
  OBVIOUS
<1>1. CertInv
  BY CertInvInit DEF Init
<1>2. NoReply \in Replies
  BY DEF NoReply, Replies
<1>3. TypeOK
  BY <1>1, <1>2 DEF Init, TypeOK, CertInv, Screens, Files, None
<1>4. PinsInv /\ HolderInv
  BY DEF Init, PinsInv, HolderInv, PinnedUnlessDismissed, NoReply, None
<1> QED
  BY <1>1, <1>3, <1>4 DEF Inv

\* The server steps and the phone does not.
LEMMA ServerStep ==
    ASSUME Inv, CertNext, UNCHANGED phoneVars PROVE Inv'
<1> USE DEF Inv, phoneVars, pins
<1>1. CertInv'
  BY CertInvStep
<1>2. TypeOK'
  BY <1>1 DEF TypeOK, CertInv
<1>3. PinsInv'
  BY FirstStays, SpoiltStays DEF PinsInv
<1>4. HolderInv'
  BY DEF HolderInv, PinnedUnlessDismissed
<1> QED
  BY <1>1, <1>2, <1>3, <1>4


\* Pins: a step of the phone that is not a handshake takes them from each
\* other, and the handshake takes them from the listener.
LEMMA PinsStep == Inv /\ Phone /\ UNCHANGED certVars => PinsInv'
<1> SUFFICES ASSUME Inv, Phone, UNCHANGED certVars PROVE PinsInv'
  OBVIOUS
<1> USE DEF Inv, PinsInv, certVars, pins, NoReply
<1>1. CASE Connect
  BY <1>1 DEF Connect, None
<1>2. CASE Exchange
  <2>1. serving # None /\ told = serving
    BY <1>2 DEF Exchange, At, CertInv, CertTypeOK
  <2>2. ~spoilt => first # None /\ serving = first
    BY <2>1 DEF CertInv
  <2> QED
    BY <1>2, <2>1, <2>2 DEF Exchange
<1>3. CASE Unreachable
  BY <1>3 DEF Unreachable
<1>4. CASE Resume
  BY <1>4 DEF Resume, Fail, Proceed, Bootstrap
<1>5. CASE ConfirmPin
  BY <1>5 DEF ConfirmPin
<1>6. CASE Confirmed \/ DismissPin \/ Reset \/ Leave \/ Return \/ Kill
  BY <1>6 DEF Confirmed, DismissPin, Reset, Leave, Return, Kill
<1> QED
  BY <1>1, <1>2, <1>3, <1>4, <1>5, <1>6 DEF Phone

\* The holder: what holds of the connection under way carries over to the
\* screens behind it.
LEMMA HolderStep == Inv /\ Phone => HolderInv'
<1> SUFFICES ASSUME Inv, Phone PROVE HolderInv'
  OBVIOUS
<1> USE DEF Inv, HolderInv, PinnedUnlessDismissed, pins, NoReply
<1>1. CASE Connect
  BY <1>1 DEF Connect
<1>2. CASE Exchange \/ Unreachable
  BY <1>2 DEF Exchange, Unreachable
<1>3. CASE Resume
  <2>1. CASE Fail
    BY <1>3, <2>1 DEF Resume, Fail
  <2>2. CASE Proceed
    BY <1>3, <2>2 DEF Resume, Proceed
  <2>3. CASE Bootstrap
    <3>1. saved = None /\ ~confirming
      BY <2>3 DEF Bootstrap
    <3> QED
      BY <1>3, <2>3, <3>1 DEF Resume, Bootstrap
  <2> QED
    BY <1>3, <2>1, <2>2, <2>3 DEF Resume
<1>4. CASE ConfirmPin
  BY <1>4 DEF ConfirmPin
<1>5. CASE Confirmed
  BY <1>5 DEF Confirmed
<1>6. CASE DismissPin
  BY <1>6 DEF DismissPin
<1>7. CASE Reset \/ Leave \/ Return \/ Kill
  BY <1>7 DEF Reset, Leave, Return, Kill
<1> QED
  BY <1>1, <1>2, <1>3, <1>4, <1>5, <1>6, <1>7 DEF Phone

LEMMA TypeStep == TypeOK /\ Phone /\ UNCHANGED certVars => TypeOK'
<1> SUFFICES ASSUME TypeOK, Phone, UNCHANGED certVars PROVE TypeOK'
  OBVIOUS
<1>1. CertTypeOK'
  BY DEF TypeOK, CertTypeOK, certVars
<1>2. /\ [kind |-> "none"] \in Replies /\ [kind |-> "pending"] \in Replies
      /\ [kind |-> "error"] \in Replies
      /\ [kind |-> "ok", fingerprint |-> told] \in Replies
  BY DEF TypeOK, CertTypeOK, Replies
<1>3. None \in Files /\ serving \in Files
  BY DEF TypeOK, CertTypeOK, Files
<1> USE <1>1, <1>2, <1>3 DEF TypeOK, pins, NoReply, Screens
<1>4. CASE Connect \/ Exchange \/ Unreachable
  BY <1>4 DEF Connect, Exchange, Unreachable
<1>5. CASE Resume
  BY <1>5 DEF Resume, Fail, Proceed, Bootstrap
<1>6. CASE ConfirmPin \/ Confirmed \/ DismissPin \/ Reset
  BY <1>6 DEF ConfirmPin, Confirmed, DismissPin, Reset
<1>7. CASE Leave \/ Return \/ Kill
  BY <1>7 DEF Leave, Return, Kill
<1> QED
  BY <1>4, <1>5, <1>6, <1>7 DEF Phone

LEMMA InvStep == Inv /\ [Next]_vars => Inv'
<1> SUFFICES ASSUME Inv, [Next]_vars PROVE Inv'
  OBVIOUS
<1>1. CASE Phone
  <2>1. UNCHANGED certVars
    BY <1>1 DEF Phone, Connect, Exchange, Unreachable, Resume, ConfirmPin,
                Confirmed, DismissPin, Reset, Leave, Return, Kill
  <2>2. CertInv'
    BY <2>1 DEF Inv, CertInv, CertTypeOK, certVars
  <2> QED
    BY <1>1, <2>1, <2>2, PinsStep, HolderStep, TypeStep DEF Inv
<1>2. CASE CertNext /\ UNCHANGED phoneVars
  BY <1>2, ServerStep
<1>3. CASE UNCHANGED vars
  <2>1. UNCHANGED certVars /\ UNCHANGED phoneVars
    BY <1>3 DEF vars, phoneVars
  <2> QED
    BY <2>1 DEF Inv, TypeOK, CertInv, CertTypeOK, PinsInv, HolderInv,
                PinnedUnlessDismissed, certVars, phoneVars, pins
<1> QED
  BY <1>1, <1>2, <1>3 DEF Next, phoneVars

LEMMA Invariance == Spec => []Inv
BY InvInit, InvStep, PTL DEF Spec

-----------------------------------------------------------------------------
(* Theorems.                                                                *)

\* Type correctness.
THEOREM TypeCorrect == Spec => []TypeOK
<1>1. Inv => TypeOK
  BY DEF Inv
<1> QED
  BY <1>1, Invariance, PTL

\* EnsureCert: a start never replaces a key pair that was served before.
THEOREM ServedForGood == Spec => []ServedOnceServedForGood
<1>1. Inv => ServedOnceServedForGood
  BY DEF Inv, CertInv, ServedOnceServedForGood
<1> QED
  BY <1>1, Invariance, PTL

\* EnsureCert and confirmPin: the pin that a phone has saved stays that of the
\* server.
THEOREM PinValid == Spec => []PinStaysValid
<1>1. Inv => PinStaysValid
  BY DEF Inv, CertInv, PinsInv, PinStaysValid
<1> QED
  BY <1>1, Invariance, PTL

\* runConnect: the comparison with the status never fails by mistake.
THEOREM HonestServer == Spec => []NoFalseMismatch
<1>1. Inv => NoFalseMismatch
  BY DEF Inv, PinsInv, NoFalseMismatch
<1> QED
  BY <1>1, Invariance, PTL

\* PinHolder: behind the connect screen the phone is pinned.
THEOREM Pinned == Spec => []PinnedUnlessDismissed
<1>1. Inv => PinnedUnlessDismissed
  BY DEF Inv, HolderInv
<1> QED
  BY <1>1, Invariance, PTL

=============================================================================
