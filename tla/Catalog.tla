------------------------------ MODULE Catalog ------------------------------
(***************************************************************************)
(* catalog.Catalog and desktop.Scan: the directories of desktop files, the *)
(* scan that reads them one file after the other when the server starts,   *)
(* and the table of applications that all handlers read afterwards.        *)
(***************************************************************************)
EXTENDS DesktopEntry

CONSTANTS
    Env,        \* the environment: [dirs |-> XDG_DATA_DIRS, home |-> the user's]
    Names,      \* relative paths of desktop files, in the order of a walk
    IdOf,       \* computeID: path to id; "x/y.desktop" and "x-y.desktop" are one
    Contents,   \* what a desktop file may hold: sequences of lines
    None,       \* no such file, no such application
    Disks       \* what the directories may hold when a scan begins

VARIABLES
    disk,       \* the files: directory, path, content; empty when no scan
                \* is under way, for nobody reads them then
    server,     \* "scanning" or "up"
    left,       \* the files that the scan has not read yet
    found,      \* the scan's own table
    byID        \* c.byID

catalogVars == <<disk, server, left, found, byID>>

\* The system's two, XDG_DATA_DIRS, the user's.
DefaultPaths(env) == <<"/usr/share", "/usr/local/share">> \o env.dirs \o <<env.home>>

\* The first occurrence stays.
dedupe(paths) == {d \in DOMAIN paths : \A e \in 1..(d - 1) : paths[e] # paths[d]}

Paths == DefaultPaths(Env)
Dirs == {Paths[d] : d \in DOMAIN Paths}
Files == {Names[n] : n \in DOMAIN Names}
Ids == {IdOf[n] : n \in Files}

\* A file is its place in the walk: which directory, and which path there.
Dir(f) == Paths[f[1]]
Name(f) == Names[f[2]]
Before(f, g) == f[1] < g[1] \/ (f[1] = g[1] /\ f[2] < g[2])

\* The files that there are.
Walk == {f \in dedupe(Paths) \X DOMAIN Names : disk[Dir(f)][Name(f)] # None}

ASSUME DisksAssumption ==
    Disks \subseteq [Dirs -> [Files -> Contents \cup {None}]]
ASSUME ContentsAssumption == \A lines \in Contents : IsFile(lines)

Entry(f) == Parse(disk[Dir(f)][Name(f)])

\* A file whose entry is listed: it parses, and none of the filters drops it.
Launchable(entry) ==
    /\ entry # Broken
    /\ entry.Hidden = "false" /\ entry.NoDisplay = "false"
    /\ entry.Type = "Application"

NoApps == [i \in Ids |-> None]
NoFiles == [d \in Dirs |-> [n \in Files |-> None]]

CatalogInit ==
    /\ disk \in Disks
    /\ server = "scanning" /\ left = Walk
    /\ found = NoApps /\ byID = NoApps

-----------------------------------------------------------------------------
(* The scan.                                                                *)

\* Mutant: the first file of an id stays.
ScanFileKeepsFirst ==
    /\ server = "scanning"
    /\ \E f \in left :
          /\ \A g \in left \ {f} : Before(f, g)
          /\ left' = left \ {f}
          /\ found' = IF Launchable(Entry(f)) /\ found[IdOf[Name(f)]] = None
                      THEN [found EXCEPT ![IdOf[Name(f)]] = Entry(f)] ELSE found
    /\ UNCHANGED <<disk, server, byID>>

\* The filters come first: a file that is dropped replaces nothing.
ScanFile ==
    /\ server = "scanning"
    /\ \E f \in left :
          /\ \A g \in left \ {f} : Before(f, g)
          /\ left' = left \ {f}
          /\ found' = IF Launchable(Entry(f))
                      THEN [found EXCEPT ![IdOf[Name(f)]] = Entry(f)] ELSE found
    /\ UNCHANGED <<disk, server, byID>>

\* Reload's swap.  Load runs once, before the server listens.
Reload ==
    /\ server = "scanning" /\ left = {}
    /\ byID' = found /\ server' = "up"
    /\ disk' = NoFiles /\ found' = NoApps
    /\ UNCHANGED left

\* The process dies and is started again; meanwhile the files may have changed.
CatalogRestarts ==
    /\ disk' \in Disks
    /\ server' = "scanning" /\ left' = Walk'
    /\ found' = NoApps /\ byID' = NoApps

CatalogNext == ScanFile \/ Reload

-----------------------------------------------------------------------------
(* Properties.                                                              *)

EntryOrNone ==
    {None} \cup {e \in {Parse(c) : c \in Contents} : e # Broken /\ Launchable(e)}

CatalogTypeOK ==
    /\ disk \in [Dirs -> [Files -> Contents \cup {None}]]
    /\ server \in {"scanning", "up"} /\ left \subseteq Walk
    /\ found \in [Ids -> EntryOrNone] /\ byID \in [Ids -> EntryOrNone]

\* What a scan is about to install is, for each id, what is written in the file
\* with the highest priority among those that are to be listed, wherever files
\* stand that are broken or hidden, have the same id in one directory, or have
\* other groups than the entry's.
CatalogIsTheMerge ==
    server = "scanning" /\ left = {} =>
        \A i \in Ids :
            LET text(f) == Written(disk[Dir(f)][Name(f)])
                listed == {f \in Walk : IdOf[Name(f)] = i /\ Launchable(text(f))}
            IN \/ listed = {} /\ found[i] = None
               \/ \E f \in listed : /\ \A g \in listed \ {f} : Before(g, f)
                                    /\ found[i] = text(f)

\* "matching the freedesktop rule "user overrides system"": a user's file that
\* hides an application of the system hides it.  It does not: a hidden entry
\* is dropped before ids are compared.
UserOverridesSystem ==
    server = "scanning" /\ left = {} =>
        \A f \in Walk :
            /\ Dir(f) = Env.home /\ Entry(f) # Broken
            /\ Entry(f).Hidden = "true"
            => found[IdOf[Name(f)]] = None

=============================================================================
