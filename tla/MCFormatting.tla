---------------------------- MODULE MCFormatting ----------------------------
(***************************************************************************)
(* Settings objects and .editorconfig files for TLC: each object and each  *)
(* file is there for one rule of the code.                                 *)
(***************************************************************************)
EXTENDS Formatting

MCObjects ==
    {[Empty EXCEPT !.formatIndentSpaces = Value(2), !.shellcheckPath = Value("")],
     [Empty EXCEPT !.formatIndentSpaces = Null, !.shellcheckPath = Null, !.shellcheckArguments = Null],
     [Empty EXCEPT !.formatIndentSpaces = Bad, !.shellcheckArguments = Value("list")],
     [Empty EXCEPT !.formatIndentSpaces = Value(8), !.workspaceScanEnabled = Bad]}

Section(matches) == [is |-> "section", matches |-> matches]
Root(stop) == [is |-> "root", stop |-> stop]
Style(s) == [is |-> "style", value |-> s]
Size(n) == [is |-> "size", value |-> n]

MCFiles ==
    {<<Section(TRUE), Style("space"), Size(2)>>,
     <<Root(TRUE), Section(TRUE), Style("tab"), Section(FALSE), Style("space"), Size(4)>>,
     <<Size(3), Section(TRUE), Style("unset"), Size(-1), Size(6)>>,
     <<Root(FALSE), Section(TRUE), Style("tab"), Style(""), Size(-1), Root(TRUE)>>,
     <<Section(TRUE), Style("space"), Section(TRUE), Style("tab"), Size(2), Root(TRUE)>>}
=============================================================================
