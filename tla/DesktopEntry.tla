---------------------------- MODULE DesktopEntry ----------------------------
(***************************************************************************)
(* desktop.Parse (server/internal/desktop/parse.go): a desktop file line   *)
(* by line.  A line is a record with its kind: "blank" (comments too),     *)
(* "group" with a name, "junk" (no "=" in it), or "pair" with a key and    *)
(* a value.  Texts are opaque here, except that Bad is one with an escape  *)
(* that does not exist or no boolean; the text of Exec is that of ExecLine.*)
(* "Name[de]" stands for the localized keys, which are skipped.            *)
(***************************************************************************)
EXTENDS Naturals, Sequences

Section == "Desktop Entry"
Bad == "\\q"
BadExec == <<Bad>>
Broken == [broken |-> TRUE]     \* an error instead of an Entry

NoEntry == [broken |-> FALSE, Type |-> "", Exec |-> <<>>,
            Hidden |-> "false", NoDisplay |-> "false", Terminal |-> "false"]
Keys == {"Type", "Exec", "Hidden", "NoDisplay", "Terminal"}
Types == {"Application", "Link", "Directory"}

IsFile(lines) ==
    /\ lines \in Seq({lines[i] : i \in DOMAIN lines})
    /\ \A i \in DOMAIN lines : lines[i].kind \in {"blank", "group", "junk", "pair"}

\* unescapeString, parseStringList, parseBool: whether a value of the key is
\* refused.  "Name" stands for the other texts and the lists; the values of keys
\* that Parse does not know ("X-...") are not looked at.
Refuses(key, value) ==
    CASE key = "Exec" -> value = BadExec
      [] key \in {"Hidden", "NoDisplay", "Terminal"} -> value \notin {"true", "false"}
      [] key \in {"Name", "Type"} -> value = Bad
      [] key = "" -> TRUE
      [] OTHER -> FALSE

assignKey(entry, key, value) ==
    IF Refuses(key, value) THEN Broken
    ELSE IF key \in Keys THEN [entry EXCEPT ![key] = value]
    ELSE entry

\* The loop's body: an error in any group loses the whole file.
readLine(s, line) ==
    IF s.entry = Broken \/ line.kind = "blank" THEN s
    ELSE IF line.kind = "group"
    THEN [s EXCEPT !.section = line.name, !.seen = @ \/ line.name = Section]
    ELSE IF s.section = "" \/ line.kind = "junk" THEN [s EXCEPT !.entry = Broken]
    ELSE IF s.section # Section THEN s
    ELSE [s EXCEPT !.entry = assignKey(@, line.key, line.value)]

Start == [section |-> "", seen |-> FALSE, entry |-> NoEntry]

\* What is known after each of the lines.
Reading(lines) ==
    LET after[n \in 0..Len(lines)] ==
            IF n = 0 THEN Start ELSE readLine(after[n - 1], lines[n])
    IN after

Parse(lines) ==
    LET end == Reading(lines)[Len(lines)]
    IN IF end.entry = Broken \/ ~end.seen THEN Broken
       ELSE IF end.entry.Type \in Types THEN end.entry ELSE Broken

-----------------------------------------------------------------------------
(* What a file says, looked up in its lines.                                *)

Latest(places) == CHOOSE i \in places : \A j \in places : j <= i

\* The group that line i stands in, whether it is one of the entry's, and
\* whether it may stand there.
Under(lines, i) ==
    LET groups == {j \in 1..i : lines[j].kind = "group"}
    IN IF groups = {} THEN "" ELSE lines[Latest(groups)].name

Ours(lines, i) == lines[i].kind = "pair" /\ Under(lines, i) = Section

Fits(lines, i) ==
    /\ lines[i].kind # "junk"
    /\ lines[i].kind = "pair" => Under(lines, i) # ""
    /\ Ours(lines, i) => ~Refuses(lines[i].key, lines[i].value)

\* What the first n lines say for a key: the last of them that names it counts.
Said(lines, n, key) ==
    LET places == {i \in 1..n : Ours(lines, i) /\ lines[i].key = key}
    IN IF places = {} THEN NoEntry[key] ELSE lines[Latest(places)].value

Gathered(lines, n) ==
    [k \in DOMAIN NoEntry |-> IF k \in Keys THEN Said(lines, n, k) ELSE NoEntry[k]]

\* What a file says about an application is what its "Desktop Entry" groups
\* say, the last line for a key, wherever other groups stand; a line that is
\* not one, or a value that is not one, makes the file unusable, but values
\* of other groups are not looked at.
Written(lines) ==
    IF /\ \A i \in DOMAIN lines : Fits(lines, i)
       /\ \E i \in DOMAIN lines : lines[i].kind = "group" /\ lines[i].name = Section
       /\ Said(lines, Len(lines), "Type") \in Types
    THEN Gathered(lines, Len(lines))
    ELSE Broken

=============================================================================
