------------------------------ MODULE MCShell -------------------------------
(***************************************************************************)
(* An instance of Shell for TLC: three processes, two files, a home and    *)
(* its parent directory, and a line of every form the parser tells apart.  *)
(***************************************************************************)
EXTENDS Shell

SmallUp == [d \in {"/", "/home"} |-> "/"]
SomeMasks == {{}, {"CHLD"}}

SmallLines ==
    { <<>>, <<"exit">>, <<"help">>,
      <<"cd">>, <<"cd", "-">>, <<"cd", "..">>, <<"cd", "nodir">>,
      <<"prog">>, <<"missing">>,
      <<"prog", ">", "f">>, <<"missing", ">", "f">>, <<"prog", ">", "ro">>,
      <<"prog", "<", "f">>, <<"prog", "<", "ro">>, <<"help", ">", "f">>,
      <<"prog", "<", "ro", ">", "f">>, <<"prog", ">", "f", "<", "ro">>,
      <<"prog", "<", ">", "ro", ">", "f">>,
      <<"prog", ">">>, <<" ", "<", "ro">>, <<"<">>,
      <<"prog", "|", "prog">>, <<"|", "|">>, <<"prog", "|", "prog", ">", "f">> }
=============================================================================
