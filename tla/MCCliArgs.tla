----------------------------- MODULE MCCliArgs -----------------------------
(***************************************************************************)
(* Model values for CliArgs: the value arguments.  "19" overflows a 4-bit *)
(* unsigned long, "9" a 4-bit int; ",1" starts with an empty entry that    *)
(* stoi refuses, "1,9" ends with an entry that does not fit an int; "-1"   *)
(* is a negative number; "~" is expanded; the empty argument has no digit. *)
(***************************************************************************)
EXTENDS CliArgs

MCValues ==
  {<<>>, <<"1">>, <<"9">>, <<"1", "9">>, <<"-", "1">>, <<"1", ",", "9">>,
   <<",", "1">>, <<"~">>, <<"/">>}

=============================================================================
