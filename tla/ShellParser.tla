---------------------------- MODULE ShellParser ----------------------------
(***************************************************************************)
(* The shell's recursive-descent parser (user/sh.c, parsecmd and below),   *)
(* on lines already cut into tokens: "a" is a word, "+" is >>, and the     *)
(* others are themselves.  A parse takes a sequence of tokens to the       *)
(* command it found and the tokens it left, or to Panic.                   *)
(***************************************************************************)
EXTENDS Integers, Sequences, FiniteSets, SequencesExt

CONSTANTS MAXARGS, MaxTokens
VARIABLE line    \* the command line

Tokens == {"a", "<", ">", "+", "|", "&", ";", "(", ")"}
Bad == <<"panic">>
Panic == [cmd |-> Bad, rest |-> <<>>]
Ok(cmd, rest) == [cmd |-> cmd, rest |-> rest]
IsOk(r) == r # Panic

execcmd(argc) == <<"EXEC", argc>>
redircmd(cmd, tok) == <<"REDIR", tok, cmd>>
pipecmd(l, r) == <<"PIPE", l, r>>
listcmd(l, r) == <<"LIST", l, r>>
backcmd(cmd) == <<"BACK", cmd>>

peek(s, toks) == s # <<>> /\ Head(s) \in toks

RECURSIVE parseline(_), parsepipe(_), parseredirs(_, _), Args(_, _), Backs(_)

\* cmd wrapped in the redirections that come next
parseredirs(cmd, s) ==
  CASE ~peek(s, {"<", ">", "+"}) -> Ok(cmd, s)
    [] Len(s) < 2 \/ s[Min({2, Len(s)})] # "a" -> Panic
    [] OTHER -> parseredirs(redircmd(cmd, Head(s)), SubSeq(s, 3, Len(s)))

parseblock(s) ==
  LET r == parseline(Tail(s))
  IN  IF IsOk(r) /\ peek(r.rest, {")"}) THEN parseredirs(r.cmd, Tail(r.rest)) ELSE Panic

Stops == {"|", ")", "&", ";"}

\* The words of a command, argc of them so far, and the redirections between
\* them.  The EXEC node is filled in afterwards: `argc' stands for it.
Args(argc, r) ==
  LET next == parseredirs(r.cmd, Tail(r.rest))
  IN  CASE ~IsOk(r) -> Panic
        [] r.rest = <<>> \/ peek(r.rest, Stops) -> [r EXCEPT !.cmd = <<argc, @>>]
        [] Head(r.rest) # "a" \/ argc + 1 >= MAXARGS -> Panic
        [] OTHER -> Args(argc + 1, next)

RECURSIVE Fill(_, _)
Fill(cmd, argc) == IF cmd[1] = "EXEC" THEN execcmd(argc)
                   ELSE redircmd(Fill(cmd[3], argc), cmd[2])

parseexec(s) ==
  LET r == Args(0, parseredirs(execcmd(0), s))
  IN  CASE peek(s, {"("}) -> parseblock(s)
        [] ~IsOk(r) -> Panic
        [] OTHER -> Ok(Fill(r.cmd[2], r.cmd[1]), r.rest)

parsepipe(s) ==
  LET l == parseexec(s)
      r == parsepipe(Tail(l.rest))
  IN  CASE ~IsOk(l) -> Panic
        [] ~peek(l.rest, {"|"}) -> l
        [] ~IsOk(r) -> Panic
        [] OTHER -> Ok(pipecmd(l.cmd, r.cmd), r.rest)

Backs(r) == IF peek(r.rest, {"&"}) THEN Backs(Ok(backcmd(r.cmd), Tail(r.rest))) ELSE r

parseline(s) ==
  LET p == parsepipe(s)
      l == Backs(p)
      r == parseline(Tail(l.rest))
  IN  CASE ~IsOk(p) -> Panic
        [] ~peek(l.rest, {";"}) -> l
        [] ~IsOk(r) -> Panic
        [] OTHER -> Ok(listcmd(l.cmd, r.cmd), r.rest)

\* (mutant: what follows the command is dropped)
parsecmd_lenient(s) == parseline(s).cmd

parsecmd(s) == LET r == parseline(s) IN IF r.rest = <<>> THEN r.cmd ELSE Bad

-----------------------------------------------------------------------------
\* The same language, by where the separators are instead of by descent: the
\* first ; outside parentheses, then the last &, then the first |.
Depth(s, i) == Cardinality({j \in 1..i : s[j] = "("}) - Cardinality({j \in 1..i : s[j] = ")"})
Outer(s, tok) == {i \in DOMAIN s : s[i] = tok /\ Depth(s, i) = 0}
Least(S) == CHOOSE i \in S : \A j \in S : i <= j
Before(s, i) == SubSeq(s, 1, i - 1)
After(s, i) == SubSeq(s, i + 1, Len(s))

RECURSIVE Line(_), Pipeline(_), Redirected(_, _)
Redirected(cmd, s) ==
  CASE s = <<>> -> cmd
    [] Len(s) > 1 /\ s[1] \in {"<", ">", "+"} /\ s[2] = "a" ->
         Redirected(redircmd(cmd, s[1]), SubSeq(s, 3, Len(s)))
    [] OTHER -> Bad

IsFile(s, i) == i > 1 /\ s[i] = "a" /\ s[i - 1] \in {"<", ">", "+"}
IsArg(s, i) == s[i] = "a" /\ ~IsFile(s, i)
Argc(s) == Cardinality({i \in DOMAIN s : IsArg(s, i)})
NoArgs(s) == LET keep == SetToSortSeq({i \in DOMAIN s : ~IsArg(s, i)}, <)
             IN  [k \in DOMAIN keep |-> s[keep[k]]]

Simple(s) ==
  LET close == Outer(s, ")")
      inner == Line(SubSeq(s, 2, Least(close) - 1))
  IN  CASE s # <<>> /\ s[1] = "(" ->
             IF close = {} \/ inner = Bad THEN Bad
             ELSE Redirected(inner, After(s, Least(close)))
        [] Argc(s) >= MAXARGS -> Bad
        [] OTHER -> Redirected(execcmd(Argc(s)), NoArgs(s))

Both(l, r, Node(_, _)) == IF Bad \in {l, r} THEN Bad ELSE Node(l, r)

Pipeline(s) ==
  LET bar == Outer(s, "|")
  IN  IF bar = {} THEN Simple(s)
      ELSE Both(Simple(Before(s, Least(bar))), Pipeline(After(s, Least(bar))), pipecmd)

RECURSIVE Job(_)
Job(s) == IF s # <<>> /\ Last(s) = "&" /\ Depth(s, Len(s)) = 0
          THEN LET j == Job(Front(s)) IN IF j = Bad THEN j ELSE backcmd(j)
          ELSE Pipeline(s)

Line(s) ==
  LET semi == Outer(s, ";")
  IN  IF semi = {} THEN Job(s)
      ELSE Both(Job(Before(s, Least(semi))), Line(After(s, Least(semi))), listcmd)

\* Every line, the malformed ones included, is parsed as its separators say
\* and refused when they say nothing (parsecmd, parseline, parsepipe,
\* parseexec, parseblock, parseredirs).
ParsesTheLine == parsecmd(line) = Line(line)

ParserInit == line \in UNION {[1..n -> Tokens] : n \in 0..MaxTokens}
=============================================================================
