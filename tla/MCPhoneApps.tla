---------------------------- MODULE MCPhoneApps ----------------------------
(* PhoneApps on small directories, and the laws of the pure algorithms.      *)
EXTENDS PhoneApps
LOCAL INSTANCE SequencesExt

MCEnv == [dirs |-> <<"/usr/local/share", "/usr/share">>, home |-> "home"]
MCNames == <<"x/y", "x-y", "x#y">>
MCIdOf == [n \in ToSet(MCNames) |-> IF n = "x#y" THEN n ELSE "x-y"]

pair(k, v) == [kind |-> "pair", key |-> k, value |-> v]
group(n) == [kind |-> "group", name |-> n]
A == <<group(Section), pair("Type", "Application"), pair("Exec", <<"a">>)>>
B == <<group(Section), pair("Exec", <<"%", "f">>), pair("Type", "Application"),
       group("Desktop Action new"), pair("Hidden", "true")>>
Off == Append(A, pair("Hidden", "true"))
Torn == Append(A, [kind |-> "junk"])
MCContents == {A, B, Off, Torn}

\* A URL ends in the middle of the second application's id.
MCInPath == [a \in AppIds |-> IF Bare(a) = "x#y" THEN Cut ELSE a]

MCHideable == {a \in AppIds : Whole(a)}

none == [n \in ToSet(MCNames) |-> None]

\* The system has two files with one id, the second may be broken; the user has
\* one, which hides the application or replaces it.  Or the user has the only one.
MCDisks == {[d \in ToSet(Paths) |->
               CASE d = "/usr/share" -> [none EXCEPT !["x/y"] = f[1], !["x-y"] = f[2]]
                 [] d = "home" -> [none EXCEPT !["x-y"] = f[3], !["x#y"] = f[4]]
                 [] OTHER -> none] :
            f \in {<<B, A, Off, None>>, <<B, Torn, A, None>>, <<None, None, None, A>>}}
-----------------------------------------------------------------------------
(* Laws of the pure algorithms over bounded inputs.                         *)

Args == SeqOf({"a", " ", Quote, Backslash, "%"}, 2)
MCArgLists == SeqOf(Args, 2)

Lines == {group(Section), group("Other"), pair("Type", "Application"),
          pair("Hidden", "true"), pair("Hidden", "maybe"), pair("X-Foo", Bad),
          [kind |-> "junk"]}
\* Parse reads what is written (desktop/parse.go).
ASSUME EntryLaw == \A lines \in SeqOf(Lines, 5) : Parse(lines) = Written(lines)

IndexLines == {group("Icon Theme"), group("32"), pair("Name", "T"),
               pair("Name", ""), pair("Inherits", <<"", "P", "hicolor">>),
               pair("Name[de]", "D"), [kind |-> "junk"]}
\* LoadThemeIndex reads what is declared (icons/theme_index.go).
ASSUME IndexLaw == \A lines \in SeqOf(IndexLines, 4) :
                      LoadThemeIndex(lines) = Declared(lines)

index(name, parents) ==
    <<group("Icon Theme"), pair("Name", name), pair("Inherits", parents)>>
\* T inherits from P, P from T again; then the name of T is not its directory's;
\* then T's file in the first base is broken, and the next base's counts.
Themes == {<<>>,
           <<[dir |-> "T", lines |-> index("T", <<"P">>)],
             [dir |-> "P", lines |-> index("P", <<"T", "", "hicolor">>)]>>,
           <<[dir |-> "T", lines |-> index("The T", <<"P">>)]>>,
           <<[dir |-> "T", lines |-> Append(index("T", <<"hicolor">>), [kind |-> "junk"])],
             [dir |-> "T", lines |-> index("T", <<"P">>)]>>}
IconFiles == [base : {1, 2}, theme : {"", "T", "P", "hicolor"},
          dirs : {<<32, Other>>, <<64>>, <<128>>, <<256>>, <<Scalable>>, <<64, Symbolic>>}]
OfOneTheme == {f \in IconFiles : f.theme = "T"}
Walked == {s \in SeqOf(IconFiles, 2) \cup SeqOf(OfOneTheme, 3) :
             \A i \in DOMAIN s : i > 1 => s[i - 1].base <= s[i].base}
MCIconRequests ==
    [files : Walked, themes : Themes, theme : {"T", ""}, query : {DefaultSize, 5, 600}]

=============================================================================
