----------------------------- MODULE ThemeIndex -----------------------------
(***************************************************************************)
(* icons.LoadThemeIndex (server/internal/icons/theme_index.go): the file   *)
(* index.theme of a directory, line by line.  A line is a record with its  *)
(* kind, as in DesktopEntry: "blank", "group", "junk" (no "=" in it), or   *)
(* "pair".  The value of Inherits is the sequence of what stands between   *)
(* its commas, "" where that is nothing but spaces; "Name[de]" stands for  *)
(* the localized keys.  A directory without the file has no lines.         *)
(***************************************************************************)
EXTENDS DesktopEntry

iconThemeSection == "Icon Theme"
Refused == [Name |-> "", Inherits |-> <<>>]     \* an error, no ThemeIndex

IsSequence(s) == s \in Seq({s[i] : i \in DOMAIN s})

IsIndexFile(lines) ==
    /\ IsFile(lines)
    /\ \A i \in DOMAIN lines :
         lines[i].kind = "pair" /\ lines[i].key = "Inherits" => IsSequence(lines[i].value)

\* Without the parts that are empty.
splitInheritsList(parts) ==
    LET out[n \in 0..Len(parts)] ==
            IF n = 0 THEN <<>>
            ELSE IF parts[n] = "" THEN out[n - 1] ELSE Append(out[n - 1], parts[n])
    IN out[Len(parts)]

\* The loop's body.  Other than in a desktop file, nothing outside of the
\* section matters.
readIndexLine(s, line) ==
    IF s.failed \/ line.kind = "blank" THEN s
    ELSE IF line.kind = "group" THEN [s EXCEPT !.section = line.name]
    ELSE IF s.section # iconThemeSection THEN s
    ELSE IF line.kind = "junk" \/ line.key = "" THEN [s EXCEPT !.failed = TRUE]
    ELSE CASE line.key = "Name" -> [s EXCEPT !.index.Name = line.value]
           [] line.key = "Inherits" ->
                [s EXCEPT !.index.Inherits = splitInheritsList(line.value)]
           [] OTHER -> s

IndexStart == [section |-> "", failed |-> FALSE, index |-> Refused]

\* What is known after each of the lines.
IndexReading(lines) ==
    LET after[n \in 0..Len(lines)] ==
            IF n = 0 THEN IndexStart ELSE readIndexLine(after[n - 1], lines[n])
    IN after

\* Without the section there is no Name, and without a Name an error.
LoadThemeIndex(lines) ==
    LET end == IndexReading(lines)[Len(lines)]
    IN IF end.failed \/ end.index.Name = "" THEN Refused ELSE end.index

-----------------------------------------------------------------------------
(* What an index.theme says, looked up in its lines.                        *)

InTheme(lines, i) ==
    lines[i].kind \in {"pair", "junk"} /\ Under(lines, i) = iconThemeSection

IndexFits(lines, i) == InTheme(lines, i) => lines[i].kind = "pair" /\ lines[i].key # ""

\* What the first n lines say for a key: the last of them that names it counts.
IndexSaid(lines, n, key) ==
    LET places == {i \in 1..n : /\ InTheme(lines, i)
                                /\ lines[i].kind = "pair" /\ lines[i].key = key}
    IN IF places = {} THEN Refused[key] ELSE lines[Latest(places)].value

\* An index says what its "Icon Theme" groups say, wherever they stand: the last
\* Name and the last Inherits, unless a line there is not one.
Declared(lines) ==
    IF /\ \A i \in DOMAIN lines : IndexFits(lines, i)
       /\ IndexSaid(lines, Len(lines), "Name") # ""
    THEN [Name |-> IndexSaid(lines, Len(lines), "Name"),
          Inherits |-> splitInheritsList(IndexSaid(lines, Len(lines), "Inherits"))]
    ELSE Refused

=============================================================================
