----------------------------- MODULE MCPrograms -----------------------------
(* Files, the terminal and the editor for TLC: the parts share no state, so *)
(* that a behaviour is one of one part, and one run looks at them all.      *)
EXTENDS Fat, Tedit, Terminal, TLC

VARIABLE part \* the one the behaviour is of

ProgramsInit ==
  /\ part = "none"
  /\ FatInit /\ TeditInit /\ TerminalInit

Of(name) == part \in {"none", name} /\ part' = name

ProgramsNext ==
  \/ /\ Of("fat") /\ FatNext
     /\ UNCHANGED <<teditVars, terminalVars>>
  \/ /\ Of("tedit") /\ TeditNext
     /\ UNCHANGED <<fatVars, terminalVars>>
  \/ /\ Of("terminal") /\ TerminalNext
     /\ UNCHANGED <<fatVars, teditVars>>

Symmetry == Permutations(Fds)

-----------------------------------------------------------------------------
(* Tedit and Terminal. *)

MCTexts == {<<>>, <<"n", "n", "3", "c", "c">>, <<"2", "n">>}
MCTyped == {<<"t">>}

Cmd(c, a) == [command |-> c, arg |-> a]
TypedLine(text, commands, to) == [text |-> text, commands |-> commands, to |-> to]
MCLines ==
  {TypedLine(<<"e", " ", "a", " ", ">", "f">>, <<Cmd(<<"e">>, <<"a">>)>>, <<"f">>),
   TypedLine(<<"c", " ", "f", "|", "c", " ">>, <<Cmd(<<"c">>, <<"f">>), Cmd(<<"c">>, <<>>)>>, <<>>),
   TypedLine(<<"p">>, <<Cmd(<<"p">>, <<>>)>>, <<>>),
   TypedLine(<<"c">>, <<Cmd(<<"c">>, <<>>)>>, <<>>),
   TypedLine(<<"l">>, <<Cmd(<<"l">>, <<>>)>>, <<>>),
   TypedLine(<<"l", " ", "|", "p">>, <<Cmd(<<"l">>, <<>>), Cmd(<<"p">>, <<>>)>>, <<>>),
   TypedLine(<<"e", " ", "$", "?", " ">>, <<Cmd(<<"e">>, <<"$", "?">>)>>, <<>>),
   TypedLine(<<"d", " ", "|", " ", "p", ">", "f">>, <<Cmd(<<"d">>, <<>>), Cmd(<<"p">>, <<>>)>>, <<"f">>),
   TypedLine(<<"l", ">", "d">>, <<>>, <<>>),
   TypedLine(<<"k">>, <<>>, <<>>)}
MCInputs == {<<"a", "N">>}
MCResults == {[out |-> <<"b", "E", "[", "3", "4", "m", "w">>, code |-> "3"],
              [out |-> <<"!", "w", "a", "w", "E", "a", "N">>, code |-> "0"]}
MCRoot == {<<"d">>, <<"g">>}
MCApps == {<<"p">>, <<"d">>}
MCDirectories == {<<"d">>}

=============================================================================
