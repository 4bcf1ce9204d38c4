------------------------------ MODULE TlsCert ------------------------------
(***************************************************************************)
(* tlsutil.EnsureCert and Fingerprint (server/internal/tlsutil/cert.go) in *)
(* main.run: the server's key pair, two files, and what a start makes of   *)
(* them.                                                                   *)
(*                                                                         *)
(* A start reuses cert.pem and key.pem if they load as a pair, and writes  *)
(* a new pair otherwise: the certificate, then the key, each in place.     *)
(* Then it reads the fingerprint that /api/status tells, and only then the *)
(* TLS listener loads the pair.  The process may die in between, a write   *)
(* may fail, and the operator may remove or damage a file at any time.     *)
(*                                                                         *)
(* A certificate and a private key are the number of the key pair they     *)
(* belong to.  A missing file, an empty one and one cut short are all 0:   *)
(* they do not load.                                                       *)
(***************************************************************************)
EXTENDS Naturals

CONSTANT MaxKeys    \* bound: key pairs that are ever generated

ASSUME MaxKeysAssumption == MaxKeys \in Nat \ {0}

None == 0
KeyPairs == 1..MaxKeys
Files == KeyPairs \cup {None}

VARIABLES
    server,     \* where main.run stands
    cert,       \* cert.pem
    key,        \* key.pem
    fresh,      \* the pair that generateAndWrite has made
    told,       \* the fingerprint in /api/status
    serving,    \* the pair of the TLS listener
    made,       \* how many pairs have been generated
    first,      \* history: the pair that was served first
    spoilt      \* history: files were removed or damaged from outside

certVars == <<server, cert, key, fresh, told, serving, made, first, spoilt>>

Stages == {"down", "cert", "certBody", "key", "keyBody", "ready", "listen", "up"}

Pair == cert # None /\ cert = key

CertTypeOK ==
    /\ server \in Stages
    /\ cert \in Files
    /\ key \in Files
    /\ fresh \in Files
    /\ told \in Files
    /\ serving \in Files
    /\ made \in 0..MaxKeys
    /\ first \in Files
    /\ spoilt \in BOOLEAN
    /\ server = "up" <=> serving # None

CertInit ==
    /\ server = "down"
    /\ cert = None /\ key = None
    /\ fresh = None /\ told = None /\ serving = None
    /\ made = 0
    /\ first = None
    /\ spoilt = FALSE

At(stage) == server = stage
Goes(stage) == server' = stage

-----------------------------------------------------------------------------
(* A start.                                                                 *)

\* EnsureCert: both files exist and load as a pair.
Reuse ==
    /\ At("down")
    /\ Pair
    /\ Goes("ready")
    /\ UNCHANGED <<cert, key, fresh, told, serving, made, first, spoilt>>

\* Mutant: a start always makes a new pair.
GenerateAlways ==
    /\ At("down")
    /\ made < MaxKeys
    /\ made' = made + 1
    /\ fresh' = made + 1
    /\ Goes("cert")
    /\ UNCHANGED <<cert, key, told, serving, first, spoilt>>

\* EnsureCert, generateAndWrite: a fresh pair, also if one file is sound.
Generate ==
    /\ At("down")
    /\ ~Pair
    /\ made < MaxKeys
    /\ made' = made + 1
    /\ fresh' = made + 1
    /\ Goes("cert")
    /\ UNCHANGED <<cert, key, told, serving, first, spoilt>>

\* os.WriteFile truncates the file and then fills it.
TruncateCert ==
    /\ At("cert")
    /\ cert' = None
    /\ Goes("certBody")
    /\ UNCHANGED <<key, fresh, told, serving, made, first, spoilt>>

FillCert ==
    /\ At("certBody")
    /\ cert' = fresh
    /\ Goes("key")
    /\ UNCHANGED <<key, fresh, told, serving, made, first, spoilt>>

TruncateKey ==
    /\ At("key")
    /\ key' = None
    /\ Goes("keyBody")
    /\ UNCHANGED <<cert, fresh, told, serving, made, first, spoilt>>

FillKey ==
    /\ At("keyBody")
    /\ key' = fresh
    /\ Goes("ready")
    /\ UNCHANGED <<cert, fresh, told, serving, made, first, spoilt>>

\* Mutant: the status tells of the pair that this start has generated.
ReadFreshFingerprint ==
    /\ At("ready")
    /\ cert # None
    /\ told' = fresh
    /\ Goes("listen")
    /\ UNCHANGED <<cert, key, fresh, serving, made, first, spoilt>>

\* Fingerprint reads the certificate file; "compute fingerprint" ends run.
ReadFingerprint ==
    /\ At("ready")
    /\ cert # None
    /\ told' = cert
    /\ Goes("listen")
    /\ UNCHANGED <<cert, key, fresh, serving, made, first, spoilt>>

\* ListenAndServeTLS reads both files once more.
Listen ==
    /\ At("listen")
    /\ Pair
    /\ serving' = cert
    /\ first' = IF first = None THEN cert ELSE first
    /\ Goes("up")
    /\ UNCHANGED <<cert, key, fresh, told, made, spoilt>>

\* A write fails, a file does not load, or the process dies: run is over and
\* the files stay as they are.
Down ==
    /\ ~At("down")
    /\ Goes("down")
    /\ fresh' = None /\ told' = None /\ serving' = None
    /\ UNCHANGED <<cert, key, made, first, spoilt>>

\* Someone removes or damages a file.
Spoil ==
    /\ \/ cert' = None /\ UNCHANGED key
       \/ key' = None /\ UNCHANGED cert
    /\ spoilt' = TRUE
    /\ UNCHANGED <<server, fresh, told, serving, made, first>>

CertNext ==
    \/ Reuse \/ Generate \/ TruncateCert \/ FillCert \/ TruncateKey \/ FillKey
    \/ ReadFingerprint \/ Listen \/ Down \/ Spoil

CertSpec == CertInit /\ [][CertNext]_certVars

-----------------------------------------------------------------------------
(* Properties.                                                              *)

\* A key pair that was once served is the server's for good, wherever the
\* process dies, as long as nobody touches the files: a start that is cut
\* short between its two writes leaves nothing that a phone could have seen.
ServedOnceServedForGood ==
    ~spoilt /\ serving # None => serving = first

\* What the comment on Fingerprint says of pinning the public key ("lets the
\* server rotate the certificate while reusing the same key"): a start leaves
\* a private key that is there alone.
RotationKeepsKey == [][server' # server /\ key # None => key' # None]_certVars

=============================================================================
