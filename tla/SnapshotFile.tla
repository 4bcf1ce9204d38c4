---------------------------- MODULE SnapshotFile ----------------------------
(***************************************************************************)
(* What the file-backed stores of the server promise, whatever the         *)
(* interleaving of their callers: the value in memory changes at will, and *)
(* the file only ever moves, whole, to a value that memory held earlier in *)
(* the same life of the server.  A start takes the file as it stands; a    *)
(* stop loses nothing but memory.                                          *)
(*                                                                         *)
(* It is deliberately weaker than "the file mirrors memory": the stores    *)
(* write after they unlock, so the file may settle on an OLDER value.      *)
(* past holds values that may still reach the file.  It may drop any, which *)
(* only narrows what a flush can do.                                       *)
(***************************************************************************)

CONSTANTS Values,       \* what the store can hold
          Unreadable    \* file content that no start accepts

VARIABLES running, live, durable, past

vars == <<running, live, durable, past>>

Init ==
    /\ running = FALSE
    /\ live \in Values
    /\ durable \in Values \cup {Unreadable}
    /\ past = {}

Start ==
    /\ ~running
    /\ durable # Unreadable
    /\ running' = TRUE
    /\ live' = durable
    /\ past' = {durable}
    /\ UNCHANGED durable

Change ==
    /\ running
    /\ live' \in Values
    /\ past' \subseteq past \cup {live'}
    /\ UNCHANGED <<running, durable>>

\* The only way the server touches the file.
Flush ==
    /\ running
    /\ durable' \in past
    /\ past' \subseteq past
    /\ UNCHANGED <<running, live>>

Stop ==
    /\ running
    /\ running' = FALSE
    /\ live' \in Values
    /\ past' = {}
    /\ UNCHANGED durable

\* The operator replaces a file that the server refuses to read.
Mend ==
    /\ ~running
    /\ durable = Unreadable
    /\ durable' \in Values
    /\ UNCHANGED <<running, live, past>>

Next == Start \/ Change \/ Flush \/ Stop \/ Mend

Spec == Init /\ [][Next]_vars

=============================================================================
