------------------------------ MODULE ExecLine ------------------------------
(***************************************************************************)
(* The Exec line of a desktop entry: SplitExec and Expand                  *)
(* (server/internal/desktop/exec.go), which turn it into the arguments of  *)
(* a process, and the rules for writing one.                               *)
(*                                                                         *)
(* A text is a sequence of characters: " " for space and tab, the quote,   *)
(* the backslash, "$" for that and the backtick, "%", and letters, among   *)
(* which "f" stands for the field codes of files (f, u), "F" for the lists *)
(* of files, "c" for the name, "i" for the icon, "k" for those that expand *)
(* to nothing, and "a" for everything else.                                *)
(***************************************************************************)
LOCAL INSTANCE Naturals
LOCAL INSTANCE Sequences

Quote == "\""
Backslash == "\\"
Chars == {" ", Quote, Backslash, "$", "%", "f", "F", "c", "i", "k", "a"}
Text == Seq(Chars)
Texts == Seq(Text)

\* What a loop over a sequence has made of s at its end.
Loop(step, s, seq) ==
    LET after[n \in 0..Len(seq)] ==
            IF n = 0 THEN s ELSE step[after[n - 1]][seq[n]]
    IN after[Len(seq)]

-----------------------------------------------------------------------------
(* SplitExec.                                                               *)

\* What the loop carries from one character to the next.  "esc" is a
\* backslash that waits for its character.
Scans == [done : Texts, cur : Text, inToken : BOOLEAN, inQuote : BOOLEAN,
          esc : BOOLEAN, bad : BOOLEAN]

NothingRead == [done |-> <<>>, cur |-> <<>>, inToken |-> FALSE, inQuote |-> FALSE,
            esc |-> FALSE, bad |-> FALSE]

flush(s) ==
    IF s.inToken
    THEN [s EXCEPT !.done = Append(@, s.cur), !.cur = <<>>, !.inToken = FALSE]
    ELSE s

\* Mutant: a token starts with its first character, not with a quote.
ReadDropsEmpty(s, c) ==
    LET put == [s EXCEPT !.cur = Append(@, c), !.inToken = TRUE, !.esc = FALSE] IN
    IF s.bad THEN s
    ELSE IF s.esc THEN
        IF c = Backslash \/ (s.inQuote /\ c \in {Quote, "$"}) THEN put
        ELSE [s EXCEPT !.bad = TRUE]
    ELSE IF c = Backslash THEN [s EXCEPT !.esc = TRUE]
    ELSE IF c = Quote THEN [s EXCEPT !.inQuote = ~@]
    ELSE IF c = " " /\ ~s.inQuote THEN flush(s)
    ELSE put

\* Outside quotes only a backslash may be escaped.
Read(s, c) ==
    LET put == [s EXCEPT !.cur = Append(@, c), !.inToken = TRUE, !.esc = FALSE] IN
    IF s.bad THEN s
    ELSE IF s.esc THEN
        IF c = Backslash \/ (s.inQuote /\ c \in {Quote, "$"}) THEN put
        ELSE [s EXCEPT !.bad = TRUE]
    ELSE IF c = Backslash THEN [s EXCEPT !.esc = TRUE]
    ELSE IF c = Quote THEN [s EXCEPT !.inQuote = ~@, !.inToken = TRUE]
    ELSE IF c = " " /\ ~s.inQuote THEN flush(s)
    ELSE put

\* The tokens, and whether the line has none of the two errors.
SplitExec(exec) ==
    LET end == Loop([s \in Scans |-> [c \in Chars |-> Read(s, c)]], NothingRead, exec)
    IN [ok |-> ~end.bad /\ ~end.esc /\ ~end.inQuote, tokens |-> flush(end).done]

-----------------------------------------------------------------------------
(* Expand, without files as the launcher calls it.                          *)

Codes == {"f", "F", "c", "i", "k"}

\* What a code stands for within a longer token; "%%" is a percent sign, and
\* an unknown code stays.
Embedded(c, name) ==
    CASE c = "%" -> <<"%">>
      [] c = "c" -> name
      [] c \in Codes \ {"c"} -> <<>>
      [] OTHER -> <<"%", c>>

\* pct is a percent sign that waits for its code; at the end it stays.
Nothing == [out |-> <<>>, pct |-> FALSE]

Write(s, c, name) ==
    IF s.pct THEN [out |-> s.out \o Embedded(c, name), pct |-> FALSE]
    ELSE IF c = "%" THEN [s EXCEPT !.pct = TRUE]
    ELSE [s EXCEPT !.out = Append(@, c)]

expandToken(tok, name) ==
    LET end == Loop([s \in [out : Text, pct : BOOLEAN] |->
                       [c \in Chars |-> Write(s, c, name)]], Nothing, tok)
    IN IF end.pct THEN Append(end.out, "%") ELSE end.out

\* --icon
IconOption == <<"a", "a", "i", "c", "a", "a">>

\* A token that is a code by itself, one without codes, and the others, of
\* which those that come out empty are left out.
Expanded(tok, name, icon) ==
    CASE tok = <<"%", "c">> -> IF name = <<>> THEN <<>> ELSE <<name>>
      [] tok = <<"%", "i">> -> IF icon = <<>> THEN <<>>
                               ELSE <<IconOption, icon>>
      [] tok \in {<<"%", c>> : c \in {"f", "F", "k"}} -> <<>>
      [] \A i \in DOMAIN tok : tok[i] # "%" -> <<tok>>
      [] OTHER -> LET e == expandToken(tok, name)
                  IN IF e = <<>> THEN <<>> ELSE <<e>>

Expand(tokens, name, icon) ==
    Loop([result \in Texts |-> [tok \in Text |-> result \o Expanded(tok, name, icon)]],
         <<>>, tokens)

-----------------------------------------------------------------------------
(* Writing an Exec line.                                                    *)

\* A backslash before what needs one, and every percent sign doubled.
Put(text, c) ==
    IF c \in {Quote, Backslash, "$"} THEN Append(Append(text, Backslash), c)
    ELSE IF c = "%" THEN Append(Append(text, "%"), "%")
    ELSE Append(text, c)

\* The text with an argument in quotes, and a space, at its end.
Quoted(text, arg) ==
    LET said == Loop([t \in Text |-> [c \in Chars |-> Put(t, c)]],
                     Append(text, Quote), arg)
    IN Append(Append(said, Quote), " ")

ExecOf(args) == Loop([t \in Text |-> [arg \in Text |-> Quoted(t, arg)]], <<>>, args)

\* Any list of arguments, empty ones and ones full of special characters
\* included, can be written in an Exec line, and is what is then launched,
\* whatever the entry's name and icon are.
RoundTrips(args, name, icon) ==
    LET split == SplitExec(ExecOf(args))
    IN split.ok /\ Expand(split.tokens, name, icon) = args

=============================================================================
