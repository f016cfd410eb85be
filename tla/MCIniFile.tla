----------------------------- MODULE MCIniFile -----------------------------
(* An instance of IniFile for TLC. *)
EXTENDS IniFile

\* Lines as somebody may have written them: each is ended, no remark is empty or
\* ends in a blank, and no quoted value does.
LineShapes == {
  <<"[", "s", "]">>, <<"[", " ", "t", " ", "]", " ", ";", "r">>,
  <<"k", " ", "=", " ", "v">>, <<"l", "=", "w">>,
  <<" ", "k", "=", "\"", ";", "v", "\"", " ", ";", " ", "r">>,
  <<"k", "=", " ", ";", "q">>,
  <<";", "k", "=", "v">>, <<"v", " ", ";", "=">>, <<>>}

MCTexts == {FlattenSeq([i \in 1..Len(t) |-> Append(t[i], "lf")]) :
              t \in BoundedSeq(LineShapes, 3)}
=============================================================================
