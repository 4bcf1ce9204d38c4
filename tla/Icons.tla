-------------------------------- MODULE Icons --------------------------------
(***************************************************************************)
(* icons.Finder (server/internal/icons): the file for an icon name, looked *)
(* for in a theme, the themes it inherits from, hicolor, and the pixmaps.  *)
(*                                                                         *)
(* One icon is looked for, which an entry gives as a name or as a path.  A *)
(* file is a record: base is the index of its base directory (1 has the    *)
(* highest priority), theme the directory below it, "" for the pixmaps,    *)
(* and dirs the path below that, a sequence of segments: a positive number *)
(* for a size, Scalable, Symbolic, and Other for the rest ("apps").  Only  *)
(* files with the icon's name and an accepted extension are given, and the *)
(* file at the icon's path, with theme "/".                                *)
(***************************************************************************)
EXTENDS ThemeIndex, Integers, FiniteSets

Scalable == -1
Other == 0
Symbolic == -2
NotFound == [base |-> 0, theme |-> "", dirs |-> <<>>]

Hicolor == "hicolor"

Elements(seq) == {seq[i] : i \in DOMAIN seq}
Least(S) == CHOOSE x \in S : \A y \in S : x <= y
Greatest(S) == CHOOSE x \in S : \A y \in S : y <= x

\* The base directories; env is that of Catalog, which see.  A directory d of
\* XDG_DATA_DIRS stands for d/icons here, and for d/applications there.
DefaultBaseDirs(env) ==
    LET all == <<"~/.icons", env.home>> \o env.dirs
                 \o <<"/usr/share", "/usr/share/pixmaps">>
    IN SelectSeq([i \in DOMAIN all |-> IF \E j \in 1..(i - 1) : all[j] = all[i]
                                      THEN "" ELSE all[i]],
                 LAMBDA d : d # "")

-----------------------------------------------------------------------------
(* The chain of themes.                                                     *)

\* themes is a sequence, in the order of the walk, of records [dir, lines]: the
\* first-level directories of the base directories with their index.theme.
\* What is kept of an index are the parents, by the Name that it declares; the
\* first base directory that has one wins.
loadThemesOnce(themes) ==
    LET index == [i \in DOMAIN themes |-> LoadThemeIndex(themes[i].lines)]
        loaded == {i \in DOMAIN themes : index[i] # Refused}
        named(n) == {i \in loaded : index[i].Name = n}
    IN [n \in {index[i].Name : i \in loaded} |-> index[Least(named(n))].Inherits]

\* Depth first, each theme once.  pending are the calls that the loops of dfs have
\* still to make; one without a name, or with one seen before, returns at once.  A
\* step is the next call that does not.
dfs(inherits, s) ==
    LET calls == {i \in DOMAIN s.pending : /\ s.pending[i] # ""
                                           /\ s.pending[i] \notin Elements(s.order)}
        i == Least(calls)
        name == s.pending[i]
        parents == IF name \in DOMAIN inherits THEN inherits[name] ELSE <<>>
    IN IF calls = {} THEN s
       ELSE [order |-> Append(s.order, name),
             pending |-> parents \o SubSeq(s.pending, i + 1, Len(s.pending))]

\* Every name is met once at most, so there are no more such calls than names.
ThemeNames(inherits, initial) ==
    {initial} \cup UNION {Elements(inherits[n]) : n \in DOMAIN inherits}

visited(inherits, initial) ==
    LET after[n \in 0..Cardinality(ThemeNames(inherits, initial))] ==
            IF n = 0 THEN [order |-> <<>>, pending |-> <<initial>>]
            ELSE dfs(inherits, after[n - 1])
    IN after

resolveThemeChain(inherits, initial) ==
    LET order == visited(inherits, initial)[Cardinality(ThemeNames(inherits, initial))].order
    IN IF Hicolor \in Elements(order) THEN order ELSE Append(order, Hicolor)

-----------------------------------------------------------------------------
(* Candidates within one theme.                                             *)

\* The first segment that tells a size, and 0 if there is none or the file is
\* below a directory of symbolic icons.
sizeFromParts(dirs) ==
    LET sized == {i \in DOMAIN dirs : dirs[i] = Scalable \/ dirs[i] > 0}
    IN IF Symbolic \in Elements(dirs) \/ sized = {} THEN 0 ELSE dirs[Least(sized)]

\* files is in the order of the walk, base after base; candidates, and what else
\* is searched, are places in it.
collectCandidates(files, theme) ==
    {i \in DOMAIN files : files[i].theme = theme /\ sizeFromParts(files[i].dirs) # 0}

first(files, places) == IF places = {} THEN NotFound ELSE files[Least(places)]

\* Mutant: the larger sizes from the largest down.
pickCandidateLargest(files, cands, preferred) ==
    LET size(i) == sizeFromParts(files[i].dirs)
        sizes == {size(i) : i \in cands}
        bigger == {s \in sizes : s > preferred}
        smaller == {s \in sizes : 0 < s /\ s < preferred}
        wanted == IF preferred \in sizes THEN preferred
                  ELSE IF Scalable \in sizes THEN Scalable
                  ELSE IF bigger # {} THEN Greatest(bigger)
                  ELSE IF smaller # {} THEN Greatest(smaller)
                  ELSE 0
    IN first(files, {i \in cands : size(i) = wanted})

\* The exact size, a scalable file, the next larger size, the next smaller
\* one; among files of one size the first.
pickCandidate(files, cands, preferred) ==
    LET size(i) == sizeFromParts(files[i].dirs)
        sizes == {size(i) : i \in cands}
        bigger == {s \in sizes : s > preferred}
        smaller == {s \in sizes : 0 < s /\ s < preferred}
        wanted == IF preferred \in sizes THEN preferred
                  ELSE IF Scalable \in sizes THEN Scalable
                  ELSE IF bigger # {} THEN Least(bigger)
                  ELSE IF smaller # {} THEN Greatest(smaller)
                  ELSE 0
    IN first(files, {i \in cands : size(i) = wanted})

-----------------------------------------------------------------------------
(* Find.                                                                    *)

pixmapsFallback(files) == first(files, {i \in DOMAIN files : files[i].theme = ""})

lookupExplicit(files) == first(files, {i \in DOMAIN files : files[i].theme = "/"})

\* New: no theme configured means hicolor.
ThemeOf(theme) == IF theme = "" THEN Hicolor ELSE theme

\* The first theme of the chain that has anything at all.
Find(icon, files, themes, theme, preferred) ==
    LET chain == resolveThemeChain(loadThemesOnce(themes), ThemeOf(theme))
        picked(t) == pickCandidate(files, collectCandidates(files, t), preferred)
        hits == {k \in DOMAIN chain : picked(chain[k]) # NotFound}
    IN CASE icon = "path" -> lookupExplicit(files)
         [] icon = "name" /\ hits = {} -> pixmapsFallback(files)
         [] icon = "name" /\ hits # {} -> picked(chain[Least(hits)])
         [] OTHER -> NotFound

\* GET /api/apps/{id}/icon?size=N.  size is <<the number>>, <<DefaultSize>> when
\* there is none, or NoNumber; icon is "" for an entry without one, and "nothing"
\* when the catalog has no such id.
DefaultSize == 64
NoNumber == <<>>
clampInt(n) == IF n < 16 THEN 16 ELSE IF n > 512 THEN 512 ELSE n

ServeIcon(icon, size, files, themes, theme) ==
    IF size = NoNumber THEN [status |-> 400, file |-> NotFound]
    ELSE LET file == Find(icon, files, themes, theme, clampInt(size[1]))
         IN IF icon \in {"", "nothing"} \/ file = NotFound
            THEN [status |-> 404, file |-> NotFound]
            ELSE [status |-> 200, file |-> file]

-----------------------------------------------------------------------------
(* Properties.                                                              *)

\* What the comment on Find promises: exact, scalable, just above, just below.
Better(s, t, preferred) ==
    LET rank(x) == CASE x = preferred -> 0 [] x = Scalable -> 1
                     [] x > preferred -> 2 [] OTHER -> 3
    IN \/ rank(s) < rank(t)
       \/ rank(s) = 2 /\ rank(t) = 2 /\ s < t
       \/ rank(s) = 3 /\ rank(t) = 3 /\ s > t

\* The parents of a theme, as the index files declare them, and the themes that
\* can be reached from one.
Parents(themes, t) ==
    LET named == {i \in DOMAIN themes : Declared(themes[i].lines).Name = t /\ t # ""}
    IN IF named = {} THEN {} ELSE Elements(Declared(themes[Least(named)].lines).Inherits)

Reachable(themes, theme) ==
    LET names == {theme} \cup UNION {Elements(Declared(themes[i].lines).Inherits) :
                                       i \in DOMAIN themes}
        closed(S) == \A t \in S : Parents(themes, t) \subseteq S
    IN {t \in names : \A S \in SUBSET names : theme \in S /\ closed(S) => t \in S}

\* A request, with the files in the order of a walk over the bases; a theme is
\* the name of a directory, so none is "/".
IsIconRequest(r) ==
    /\ r.query \in Int /\ r.theme # "/"
    /\ IsSequence(r.files) /\ IsSequence(r.themes)
    /\ \A i \in DOMAIN r.files :
         /\ r.files[i].base \in Nat \ {0}
         /\ r.files[i].dirs \in Seq(Nat \cup {Scalable, Symbolic})
         /\ \A j \in 1..i : r.files[j].base <= r.files[i].base
    /\ \A i \in DOMAIN r.themes :
         /\ IsIndexFile(r.themes[i].lines)
         /\ "/" \notin Elements(Declared(r.themes[i].lines).Inherits)

\* What an answer has to be, with the themes that can be reached.
Promised(answer, query, files, theme, reachable) ==
    LET usable == {f \in Elements(files) :
                     f.theme \notin {"", "/"} /\ sizeFromParts(f.dirs) # 0}
        size(f) == sizeFromParts(f.dirs)
        wanted == Greatest({16, Least({512, query})})
        r == answer.file
    IN IF \A f \in usable : f.theme \notin reachable \cup {Hicolor}
       THEN IF \E f \in Elements(files) : f.theme = ""
            THEN answer.status = 200 /\ r \in Elements(files) /\ r.theme = ""
            ELSE answer.status = 404
       ELSE /\ answer.status = 200
            /\ r \in usable /\ r.theme \in reachable \cup {Hicolor}
            /\ (\E f \in usable : f.theme = theme) => r.theme = theme
            /\ r.theme = Hicolor /\ Hicolor \notin reachable =>
                   \A f \in usable : f.theme \notin reachable
            /\ \A f \in usable : f.theme = r.theme =>
                   /\ ~Better(size(f), size(r), wanted)
                   /\ size(f) = size(r) => r.base <= f.base

\* The search ends for cyclic inheritance too, and finds a file whenever there
\* is one in a theme that can be reached, in hicolor or among the pixmaps: in
\* the theme itself if it has any, in the pixmaps only if no theme has, and of
\* the theme's files none is better for the size that was asked for, as far as
\* that is allowed, nor as good and of a base of higher priority.
FindsTheBest(query, files, themes, theme) ==
    \A answer \in {ServeIcon("name", <<query>>, files, themes, theme)},
       reachable \in {Reachable(themes, ThemeOf(theme))} :
        Promised(answer, query, files, ThemeOf(theme), reachable)

\* "Map keys are theme Name values (as declared inside index.theme), so
\* Inherits= references resolve against the themes they refer to": a theme's
\* parents are searched.  But Inherits= and the configured theme are names of
\* directories, and a theme's Name may be another one.
ParentsAreSearched(files, themes, theme, preferred) ==
    \A i \in DOMAIN themes : themes[i].dir = theme =>
        \A p \in Elements(Declared(themes[i].lines).Inherits) :
            collectCandidates(files, p) # {} =>
                Find("name", files, themes, theme, preferred) # NotFound

\* The icons of an application come from where its desktop file comes from:
\* a directory that overrides another one does so for both.  paths is what
\* Catalog's DefaultPaths and dedupe make of env, the highest priority last.
IconsFollowEntries(env, paths) ==
    LET bases == DefaultBaseDirs(env)
    IN \A i, j \in DOMAIN paths, k, l \in DOMAIN bases :
          paths[i] = bases[k] /\ paths[j] = bases[l] => (i > j <=> k < l)

=============================================================================
