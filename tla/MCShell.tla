------------------------------ MODULE MCShell -------------------------------
(***************************************************************************)
(* Shell with the lines written from every command of a bounded depth, and *)
(* some lines that stand for no command.                                   *)
(***************************************************************************)
EXTENDS Shell

\* Commands: programs with their redirections, the operators on those, and one
\* more operator on top.
Plain == {[execcmd EXCEPT !.argv = a] : a \in {<<>>, <<<<"a">>>>, <<<<"a">>, <<"b", "a">>>>}}
Redirected ==
  Plain \cup {redircmd(c, <<"x">>, m) : c \in Plain, m \in {"<", ">", "+"}}
Inner ==
  LET a == [execcmd EXCEPT !.argv = <<<<"a">>>>]
      p == {a, redircmd(a, <<"x">>, ">"), redircmd(redircmd(a, <<"x">>, ">"), <<"y">>, ">")}
  IN p \cup {pipecmd(c, a) : c \in p} \cup {listcmd(c, a) : c \in p} \cup {backcmd(c) : c \in p}
Cmds ==
  Inner \cup {pipecmd(c, d) : c \in Redirected, d \in Plain}
    \cup {pipecmd(c, d) : c \in Inner, d \in Inner} \cup {listcmd(c, d) : c \in Inner, d \in Inner}
    \cup {backcmd(c) : c \in Inner} \cup {redircmd(c, <<"y">>, m) : c \in Inner, m \in {"<", ">"}}

\* How a command is written: a command of a lower rank goes in a block.
Rank(c) == CASE c.type = "LIST" -> 0 [] c.type = "BACK" -> 1 [] c.type = "PIPE" -> 2 [] OTHER -> 3

RECURSIVE Written(_, _)
Written(c, rank) ==
  LET op(m) == IF m = "+" THEN <<">", ">">> ELSE <<m>>
      spaced(words) == FlattenSeq([i \in DOMAIN words |-> IF i = 1 THEN words[i] ELSE <<" ">> \o words[i]])
      w == CASE c.type = "EXEC" -> spaced(c.argv)
             [] c.type = "REDIR" -> Written(c.cmd, 3) \o op(c.mode) \o c.file
             [] c.type = "PIPE" -> Written(c.left, 3) \o <<" ", "|">> \o Written(c.right, 2)
             [] c.type = "LIST" -> Written(c.left, 1) \o <<";", " ">> \o Written(c.right, 0)
             [] OTHER -> Written(c.cmd, 1) \o <<"&">>
  IN IF Rank(c) < rank THEN <<"(">> \o w \o <<")">> ELSE w

BadLines ==
  {<<"a", "&", "b">>, <<"(", "a">>, <<"a", ">">>, <<"a", "(", "b", ")">>, <<"a", ")">>,
   <<"a", "|", "(", "b">>, <<"a", "<", ";">>, <<"a", " ", "a", " ", "a">>}

MCLines ==
  {<<Written(c, 0) \o <<"nl">>, c>> : c \in Cmds} \cup {<<l \o <<"nl">>, Error>> : l \in BadLines}

=============================================================================
