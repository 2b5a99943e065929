--------------------------------- MODULE Cmd ---------------------------------
(***************************************************************************)
(* cmd.c: how the command of --rz="lrz -y" becomes a path and an argument  *)
(* list.  A string is a sequence of characters of which only blanks (what  *)
(* isspace() accepts) and the slash matter.  The argument list is the      *)
(* malloc'ed array with its NULL, from index 0 on.                         *)
(***************************************************************************)
EXTENDS Integers, Sequences, FiniteSets, FiniteSetsExt

CONSTANTS Char, Blank, Slash, NULL

\* NULL is no string.
ASSUME NullAssumption == NULL \notin Seq(Char)

\* cmd_init: no command yet.
NoCommand == [path |-> NULL, args |-> NULL]

\* The place, from i on, of the first character that is (not) a blank; one past the end if none.
SkipBlanks(s, i) == Min({Len(s) + 1} \union {j \in i..Len(s) : s[j] \notin Blank})
SkipToken(s, i) == Min({Len(s) + 1} \union {j \in i..Len(s) : s[j] \in Blank})

\* Faulty variant: the last token is overlooked unless a blank follows it.
for_tokens_terminated(s, from) ==
  LET Tokens[i \in 1..Len(s) + 1] ==
        LET tok == SkipBlanks(s, i)
            cp == SkipToken(s, tok)
        IN  IF cp > Len(s) THEN <<>> ELSE <<SubSeq(s, tok, cp - 1)>> \o Tokens[cp]
  IN  Tokens[from]

\* The tokens of s from place from on, in order.
for_tokens(s, from) ==
  LET Tokens[i \in 1..Len(s) + 1] ==
        LET tok == SkipBlanks(s, i)
            cp == SkipToken(s, tok)
        IN  IF tok > Len(s) THEN <<>> ELSE <<SubSeq(s, tok, cp - 1)>> \o Tokens[cp]
  IN  Tokens[from]

\* "ls" of "/bin/ls": what follows the last slash.
cmd_name_from_path(path) ==
  SubSeq(path, 1 + Max({0} \union {i \in DOMAIN path : path[i] = Slash}), Len(path))

\* The array is allocated for the tokens counted by a first pass, argv[0] and the NULL.
ArgsOf(path, tokens) ==
  LET cnt == Len(tokens) + 2
  IN  [i \in 0..cnt - 1 |-> IF i = 0 THEN cmd_name_from_path(path)
                            ELSE IF i = cnt - 1 THEN NULL ELSE tokens[i]]

\* "leave old command unchanged because there was no new one specified"
cmd_parse(cmd, s) ==
  LET str == SkipBlanks(s, 1)
      cp == SkipToken(s, str)
      path == SubSeq(s, str, cp - 1)
  IN  IF str > Len(s) THEN cmd
      ELSE [path |-> path, args |-> ArgsOf(path, for_tokens(s, cp))]

-----------------------------------------------------------------------------
(***************************************************************************)
(* Reference: the words of a string are its maximal pieces without blanks. *)
(***************************************************************************)
WordStarts(s) == {i \in DOMAIN s : s[i] \notin Blank /\ (i = 1 \/ s[i - 1] \in Blank)}

Words(s) ==
  LET starts == WordStarts(s)
      Start(k) == CHOOSE i \in starts : Cardinality({j \in starts : j <= i}) = k
      End(i) == CHOOSE e \in i..Len(s) : /\ \A j \in i..e : s[j] \notin Blank
                                         /\ e = Len(s) \/ s[e + 1] \in Blank
  IN  [k \in 1..Cardinality(starts) |-> SubSeq(s, Start(k), End(Start(k)))]

\* Command cmd is what the words ws ask for: the first is run, the others are its arguments.
Runs(cmd, ws) ==
  /\ cmd.path = ws[1]
  /\ DOMAIN cmd.args = 0..Len(ws)
  /\ \A i \in 1..Len(ws) - 1 : cmd.args[i] = ws[i + 1]
  /\ cmd.args[Len(ws)] = NULL
  /\ Slash \notin {cmd.args[0][i] : i \in DOMAIN cmd.args[0]}
  /\ \/ cmd.args[0] = ws[1]
     \/ \E i \in DOMAIN ws[1] : ws[1][i] = Slash /\ cmd.args[0] = SubSeq(ws[1], i + 1, Len(ws[1]))
=============================================================================
