------------------------------- MODULE Tracker -------------------------------
(***************************************************************************)
(* launcher.Launcher and launcher.Tracker (server/internal/launcher): which *)
(* processes the server started for which application, and whether one of  *)
(* them still runs.                                                        *)
(*                                                                         *)
(* A launch starts a child, then registers its PID, then leaves a goroutine *)
(* that waits for the child and forgets the PID.  Between the return of    *)
(* Wait and the Forget the PID is free: the system may hand it out again,  *)
(* to a stranger or to the next launch.  Alive, from request handlers, and *)
(* the cleanup loop prune in between.                                      *)
(*                                                                         *)
(* The list of PIDs of an id is a bag: its order is never read, and Forget *)
(* may take any of several equal entries.                                  *)
(***************************************************************************)
EXTENDS Naturals

CONSTANTS Ids,          \* application ids
          Pids,         \* process ids of the machine
          NoId,
          MaxLate       \* bound: Forgets pending for one id and PID

ASSUME NoIdAssumption == NoId \notin Ids

VARIABLES
    proc,       \* the process table: what runs under each PID, for which id
    pids,       \* t.pids: how often id's list holds a PID
    late        \* goroutines between cmd.Wait and t.Forget

trackerVars == <<proc, pids, late>>

\* "child": launched by this server, "exited": its zombie, "other": any other
\* process.  foreign: owned by another user, as after a setuid program, so
\* that kill answers EPERM.  reused (history): the PID was handed out while a
\* Forget of the same id and PID was pending.
Process == [kind : {"none", "child", "exited", "other"}, id : Ids \cup {NoId},
            foreign : BOOLEAN, registered : BOOLEAN, reused : BOOLEAN]

NoProcess == [kind |-> "none", id |-> NoId, foreign |-> FALSE,
              registered |-> FALSE, reused |-> FALSE]

\* A process that the server did not start.
Other(foreign) == [kind |-> "other", id |-> NoId, foreign |-> foreign,
                   registered |-> FALSE, reused |-> FALSE]

TrackerTypeOK ==
    /\ proc \in [Pids -> Process]
    /\ pids \in [Ids -> [Pids -> Nat]]
    /\ late \in [Ids -> [Pids -> Nat]]

Nothing == [id \in Ids |-> [p \in Pids |-> 0]]

\* The machine may be running anything when the server starts.
TrackerInit ==
    /\ proc \in [Pids -> {NoProcess, Other(FALSE), Other(TRUE)}]
    /\ pids = Nothing
    /\ late = Nothing

Ours(p) == proc[p].kind \in {"child", "exited"}
Runs(id, p) == proc[p].kind = "child" /\ proc[p].id = id

-----------------------------------------------------------------------------
(* Launch and LaunchCommand.                                                *)

\* cmd.Start; when it fails nothing has changed.
StartChild(id, p, foreign) ==
    /\ proc[p].kind = "none"
    /\ late[id][p] < MaxLate
    /\ proc' = [proc EXCEPT ![p] =
                  [kind |-> "child", id |-> id, foreign |-> foreign,
                   registered |-> FALSE, reused |-> late[id][p] > 0]]
    /\ UNCHANGED <<pids, late>>

\* tracker.Register, and the goroutine that will reap the child.
Register(p) ==
    /\ Ours(p)
    /\ ~proc[p].registered
    /\ proc' = [proc EXCEPT ![p].registered = TRUE]
    /\ pids' = [pids EXCEPT ![proc[p].id][p] = @ + 1]
    /\ UNCHANGED late

\* Mutant: the goroutine waits for the child and does not forget it.
ReapOnly(p) ==
    /\ proc[p].kind = "exited"
    /\ proc[p].registered
    /\ proc' = [proc EXCEPT ![p] = NoProcess]
    /\ UNCHANGED <<pids, late>>

\* cmd.Wait returns: the zombie and its PID are gone.
Reap(p) ==
    /\ proc[p].kind = "exited"
    /\ proc[p].registered
    /\ proc' = [proc EXCEPT ![p] = NoProcess]
    /\ late' = [late EXCEPT ![proc[p].id][p] = @ + 1]
    /\ UNCHANGED pids

-----------------------------------------------------------------------------
(* The Tracker's other methods, one critical section each.                  *)

\* kill(pid, 0).
Probe(p) ==
    CASE proc[p].kind = "none" -> "ESRCH"
      [] proc[p].kind # "none" /\ proc[p].foreign -> "EPERM"
      [] OTHER -> "ok"

\* Mutant: any error means that the process is gone.
IsAliveStrict(p) == Probe(p) = "ok"

IsAlive(p) == Probe(p) \in {"ok", "EPERM"}

\* Mutant: a PID under which something runs is left to the next prune.
ForgetDead(id, p) ==
    /\ late[id][p] > 0
    /\ late' = [late EXCEPT ![id][p] = @ - 1]
    /\ pids' = [pids EXCEPT ![id][p] =
                  IF @ > 0 /\ ~IsAlive(p) THEN @ - 1 ELSE @]
    /\ UNCHANGED proc

\* Forget removes one entry of the PID; no entry is no error.
Forget(id, p) ==
    /\ late[id][p] > 0
    /\ late' = [late EXCEPT ![id][p] = @ - 1]
    /\ pids' = [pids EXCEPT ![id][p] = IF @ > 0 THEN @ - 1 ELSE 0]
    /\ UNCHANGED proc

\* cleanupLocked: what is left of the list of one id.
Pruned(id) == [p \in Pids |-> IF IsAlive(p) THEN pids[id][p] ELSE 0]

\* A request asks whether id runs; the answer is Pruned(id) having an entry.
Alive(id) ==
    /\ pids' = [pids EXCEPT ![id] = Pruned(id)]
    /\ UNCHANGED <<proc, late>>

\* One round of CleanupLoop.
Cleanup ==
    /\ pids' = [id \in Ids |-> Pruned(id)]
    /\ UNCHANGED <<proc, late>>

-----------------------------------------------------------------------------
(* The machine.                                                             *)

ChildExits(p) ==
    /\ proc[p].kind = "child"
    /\ proc' = [proc EXCEPT ![p].kind = "exited"]
    /\ UNCHANGED <<pids, late>>

OtherStarts(p, foreign) ==
    /\ proc[p].kind = "none"
    /\ proc' = [proc EXCEPT ![p] = Other(foreign)]
    /\ UNCHANGED <<pids, late>>

OtherExits(p) ==
    /\ proc[p].kind = "other"
    /\ proc' = [proc EXCEPT ![p] = NoProcess]
    /\ UNCHANGED <<pids, late>>

\* The server is replaced by a new one, with an empty Tracker.  Its children
\* are not the new server's: init reaps them.  Setsid lets them live on; the
\* service unit, which leaves KillMode at its default, kills what is in the
\* server's control group, so any of them may be gone.
Restart ==
    \E spared \in SUBSET Pids :
        /\ proc' = [p \in Pids |->
                      CASE proc[p].kind = "child" /\ p \in spared ->
                             Other(proc[p].foreign)
                        [] Ours(p) /\ ~(proc[p].kind = "child" /\ p \in spared) ->
                             NoProcess
                        [] OTHER -> proc[p]]
        /\ pids' = Nothing
        /\ late' = Nothing

TrackerNext ==
    \/ Cleanup
    \/ Restart
    \/ \E id \in Ids : Alive(id)
    \/ \E id \in Ids, p \in Pids : Forget(id, p)
    \/ \E p \in Pids : Register(p) \/ Reap(p) \/ ChildExits(p) \/ OtherExits(p)
    \/ \E p \in Pids, f \in BOOLEAN :
          OtherStarts(p, f) \/ \E id \in Ids : StartChild(id, p, f)

\* Goroutines that can run do run: the launching one between Start and
\* Register, and the reaper.  Nobody has to ask and no child has to exit.
TrackerFairness ==
    /\ \A p \in Pids : WF_trackerVars(Register(p)) /\ WF_trackerVars(Reap(p))
    /\ \A id \in Ids, p \in Pids : WF_trackerVars(Forget(id, p))

TrackerSpec == TrackerInit /\ [][TrackerNext]_trackerVars
TrackerFairSpec == TrackerSpec /\ TrackerFairness

-----------------------------------------------------------------------------
(* Properties.                                                              *)

\* Every entry of the tracker has a goroutine that will forget it, so none
\* is left behind: not by duplicates, prunes, or PIDs that come back.
EveryEntryHasReaper ==
    \A id \in Ids, p \in Pids :
        pids[id][p] <= late[id][p]
            + IF Ours(p) /\ proc[p].id = id /\ proc[p].registered THEN 1 ELSE 0

\* No prune and no other launch's Forget hides a running application: a
\* registered child is in the list of its id as long as it runs - unless its
\* PID came back before the Forget of the process that had it before.
TrackedUnlessReused ==
    \A id \in Ids, p \in Pids :
        Runs(id, p) /\ proc[p].registered /\ ~proc[p].reused => pids[id][p] > 0

\* Alive is wrong only for a while: an application whose processes have all
\* exited drops out of the list, also when a stranger now runs under its PID
\* (or it is launched again, or the server is replaced).
ExitNoticed ==
    \A id \in Ids :
        (\A p \in Pids : ~Runs(id, p)) ~>
            \/ \A p \in Pids : pids[id][p] = 0
            \/ \E p \in Pids : Runs(id, p)

\* What the comment on Alive says: "at least one registered PID for id is
\* alive" is reported.  The note on Tracker concedes recycled PIDs for the
\* opposite error only, true for a process that is not ours.
RegisteredIsTracked ==
    \A id \in Ids, p \in Pids :
        Runs(id, p) /\ proc[p].registered => pids[id][p] > 0

=============================================================================
