------------------------------ MODULE MCLogger ------------------------------
(* An instance of Logger for TLC. *)
EXTENDS Logger

Fmt(f, a, fl) == [format |-> f, args |-> a, flush |-> fl]
(* Text around a placeholder, an escaped placeholder, an escaped escape    *)
(* before a placeholder, too few and too many arguments, a lone escape, an *)
(* argument that throws.                                                   *)
MCFmtCalls == {
  Fmt(<<"p", "#", "q">>, <<"1">>, TRUE),
  Fmt(<<Escape, "#", "#">>, <<"1">>, FALSE),
  Fmt(<<Escape, Escape, "#">>, <<"1">>, FALSE),
  Fmt(<<"#", "#">>, <<"1">>, FALSE),
  Fmt(<<"p">>, <<"1">>, FALSE),
  Fmt(<<"p", Escape>>, <<>>, TRUE),
  Fmt(<<"p", "#">>, <<"bad">>, TRUE)}
MCPlainCalls == {[args |-> <<"1", "2">>, flush |-> TRUE],
                 [args |-> <<"1", "bad">>, flush |-> FALSE]}
=============================================================================
