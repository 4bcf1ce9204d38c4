----------------------------- MODULE MCLifecycle -----------------------------
(* Lifecycle on the sets that TLC runs it on.                                *)
EXTENDS Lifecycle, TLC

CONSTANTS firefox

MCApps == {firefox}

\* Each pair of neighbouring layers disagrees once, perIP and global come from
\* different ones, every layer has a typo once, which a higher one hides, and
\* every rule of Validate is broken once.
File(l) == [p \in {DefaultPath} |-> l]
MCSetups ==
    {[config |-> NotGiven, files |-> NoLayer, env |-> NoLayer, flags |-> NoLayer],
     [config |-> NotGiven, files |-> File([web |-> FALSE]), env |-> NoLayer,
      flags |-> NoLayer],
     [config |-> NotGiven, files |-> File([web |-> FALSE, webAddr |-> "lan"]),
      env |-> [web |-> TRUE], flags |-> [webAddr |-> "loopback"]],
     [config |-> NotGiven, files |-> File([certDir |-> "certs", nonsense |-> 1]),
      env |-> [webAddr |-> "lan"], flags |-> [web |-> FALSE]],
     [config |-> Blank, files |-> File([timeout |-> Junk]), env |-> NoLayer,
      flags |-> NoLayer],
     [config |-> NotGiven, files |-> File([timeout |-> Junk]), env |-> NoLayer,
      flags |-> [timeout |-> 9]],
     [config |-> "other.toml", files |-> File([web |-> FALSE]) @@
        [p \in {"other.toml"} |-> [level |-> "warn"]],
      env |-> [certDir |-> Blank], flags |-> NoLayer],
     [config |-> NotGiven, files |-> NoLayer, env |-> [timeout |-> Blank],
      flags |-> [timeout |-> 9]],
     [config |-> NotGiven, files |-> File([global |-> 3]),
      env |-> [perIP |-> 2], flags |-> [perIP |-> 4]],
     [config |-> NotGiven, files |-> File([global |-> 3]),
      env |-> [perIP |-> 2], flags |-> NoLayer],
     [config |-> NotGiven, files |-> NoLayer, env |-> NoLayer,
      flags |-> [timeout |-> 0]],
     [config |-> NotGiven, files |-> NoLayer, env |-> [level |-> Blank],
      flags |-> NoLayer],
     [config |-> NotGiven, files |-> NoLayer, env |-> [listen |-> Blank],
      flags |-> NoLayer],
     [config |-> NotGiven, files |-> NoLayer, env |-> NoLayer,
      flags |-> [perIP |-> 0]],
     [config |-> NotGiven, files |-> NoLayer, env |-> NoLayer,
      flags |-> [perIP |-> -1, global |-> 0]],
     [config |-> NotGiven, files |-> NoLayer, env |-> [webAddr |-> "loopback"],
      flags |-> [webAddr |-> "lan"]],
     [config |-> NotGiven, files |-> NoLayer, env |-> [level |-> Blank],
      flags |-> [level |-> "debug"]],
     [config |-> NotGiven, files |-> NoLayer, env |-> NoLayer,
      flags |-> [nonsense |-> 1]]}
=============================================================================
