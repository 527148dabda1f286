-------------------------------- MODULE MCFs --------------------------------
(* The instance of Fs that TLC checks. *)
EXTENDS Fs, TLC

Path(abs, elems) == [abs |-> abs, elems |-> elems]

MCPaths == {Path(TRUE, <<"a">>), Path(TRUE, <<"a", "b">>), Path(FALSE, <<"b">>),
            Path(FALSE, <<"..">>)}

\* The root as mkfs makes it; directories /a and /a/b; a directory /a and a file /b.
Dir(nlink, a, b, up) == [type |-> "dir", nlink |-> nlink,
                         ent |-> [n \in {"a", "b", ".."} |-> CASE n = "a" -> a [] n = "b" -> b [] OTHER -> up]]
MCImages == {[tree |-> <<Dir(1, 0, 0, 1)>>, cwds |-> {1}],
             [tree |-> <<Dir(2, 2, 0, 1), Dir(2, 0, 3, 1), Dir(1, 0, 0, 2)>>, cwds |-> {1, 3}],
             [tree |-> <<Dir(2, 2, 3, 1), Dir(1, 0, 0, 1),
                         [Dir(1, 0, 0, 0) EXCEPT !.type = "file"]>>, cwds |-> {1, 2}]}
MCName == {"a", "b"}
Symmetry == Permutations(Proc)
=============================================================================
