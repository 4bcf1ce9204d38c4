------------------------------- MODULE Config --------------------------------
(***************************************************************************)
(* Package config: the settings that main.run starts with, merged from     *)
(* compiled-in defaults, a TOML file, the environment and the command line.*)
(*                                                                         *)
(* One option stands for all that are treated alike: "timeout" for the     *)
(* eight durations, "level" for both logging options, "certDir" for the    *)
(* free texts.  A layer maps the options it mentions to what is written    *)
(* there: the value that the text denotes, Blank for an empty text, Junk   *)
(* for one that is no value of the option's type.                          *)
(***************************************************************************)
EXTENDS Integers

CONSTANTS Blank, Junk,  \* the texts without a value
          Refused,      \* an error instead of a Config
          NotGiven,     \* no --config flag
          Setups        \* the surroundings that the server may be started in:
                        \* --config, the files, environment and other flags

ASSUME TextsAssumption == Blank # Junk /\ Refused # NotGiven

Texts == {"listen", "webAddr", "level", "certDir"}
Options == Texts \cup {"timeout", "perIP", "global", "web"}

\* webAddr: "loopback" or "lan", a host that is not.
Defaults ==
    [listen |-> ":8443", timeout |-> 5, perIP |-> 5, global |-> 20,
     web |-> TRUE, webAddr |-> "loopback", level |-> "info", certDir |-> Blank]

NoLayer == [k \in {} |-> Blank]
DefaultPath == "config.toml"

-----------------------------------------------------------------------------
(* The layers.                                                              *)

Unparsable(layer) ==
    \E k \in DOMAIN layer \cap Options :
        layer[k] = Junk \/ (layer[k] = Blank /\ k \notin Texts)

\* Options that a layer does not mention are left alone; a key that is no
\* option is ignored.
Over(layer, cfg) ==
    [k \in DOMAIN cfg |-> IF k \in DOMAIN layer THEN layer[k] ELSE cfg[k]]

applyTo(raw, cfg) == IF Unparsable(raw) THEN Refused ELSE Over(raw, cfg)

\* No path and no file are no error.  One that cannot be read or is no TOML
\* is a layer with Junk in it.
LoadFile(s, path, cfg) ==
    IF path \in DOMAIN s.files THEN applyTo(s.files[path], cfg) ELSE cfg

ApplyEnv(s, cfg) ==
    IF Unparsable(s.env) THEN Refused ELSE Over(s.env, cfg)

\* Here an unknown name is an error.
parseFlags(s) ==
    IF Unparsable(s.flags) \/ ~(DOMAIN s.flags \subseteq Options)
    THEN Refused ELSE s.flags

applyFlagOverrides(o, cfg) == Over(o, cfg)

-----------------------------------------------------------------------------
(* Validation and Load.                                                     *)

validLevel(level) == level \in {"debug", "info", "warn", "error"}
validateWebListenAddr(addr) == addr = "loopback"

Validate(c) ==
    /\ c.listen # Blank
    /\ c.timeout > 0
    /\ c.perIP > 0 /\ c.global > 0 /\ c.global >= c.perIP
    /\ validLevel(c.level)
    /\ c.web => validateWebListenAddr(c.webAddr)

\* Mutant: validated before the flags are applied.
LoadValidatesEarly(s) ==
    LET o == parseFlags(s)
        path == IF s.config = NotGiven THEN DefaultPath ELSE s.config
        read == LoadFile(s, path, Defaults)
        cfg == ApplyEnv(s, read)
    IN IF o = Refused \/ read = Refused \/ cfg = Refused \/ ~Validate(cfg)
       THEN Refused
       ELSE applyFlagOverrides(o, cfg)

\* The flags are parsed first, because of --config, and applied last.
Load(s) ==
    LET o == parseFlags(s)
        path == IF s.config = NotGiven THEN DefaultPath ELSE s.config
        read == LoadFile(s, path, Defaults)
        withEnv == ApplyEnv(s, read)
        cfg == applyFlagOverrides(o, withEnv)
    IN IF o = Refused \/ read = Refused \/ withEnv = Refused THEN Refused
       ELSE IF Validate(cfg) THEN cfg ELSE Refused

-----------------------------------------------------------------------------
(* Properties.                                                              *)

fileOf(s) ==
    LET path == IF s.config = NotGiven THEN DefaultPath ELSE s.config
    IN IF path \in DOMAIN s.files THEN s.files[path] ELSE NoLayer

\* "Values come from four sources, in increasing priority", and "an invalid
\* value (e.g. non-numeric rate limit) returns an error so typos cannot
\* silently fall through": a server that runs has every option from the
\* topmost layer that mentions it, and none of the layers that it read has a
\* typo, not even where a higher one hides it.  A file that --config turns
\* away from is not read.
InOrder(cfg, s) ==
    LET layers == <<Defaults, fileOf(s), s.env, s.flags>> IN
    /\ \A i \in 2..4 : ~Unparsable(layers[i])
    /\ \A k \in Options : \E i \in 1..4 :
          /\ k \in DOMAIN layers[i] /\ cfg[k] = layers[i][k]
          /\ \A j \in (i + 1)..4 : k \notin DOMAIN layers[j]

\* "missing keys or blank env vars are left alone": setting a variable to the
\* empty text is as good as not setting it.
BlankEnvLeftAlone ==
    \A s \in Setups :
        LET set == {k \in DOMAIN s.env : s.env[k] # Blank}
        IN Load(s) = Load([s EXCEPT !.env = [k \in set |-> s.env[k]]])

=============================================================================
