---------------------------- MODULE MCEndpoints ----------------------------
(* Texts with each of the characters that URLs give a meaning to, some of  *)
(* them dots in disguise, and the same numeral that identifies by number.  *)
EXTENDS Endpoints

MCTexts ==
  {<<>>, <<".">>, <<".", ".">>, <<"7">>, <<"/">>, <<"\\">>, <<"%">>, <<"?">>, <<"#">>,
   <<"a", ".", "a">>, <<"a", "/", "7">>, <<"7", "/", ".", ".">>, <<".", ".", "\\", "a">>,
   <<"%", "2F">>, <<"%", "2E", "%", "2E">>, <<"a", "?", "page", "#">>,
   <<"/", "api", "/", "v1", "/">>, <<"a", "/", "positions", "/", "7">>}

MCBasePaths ==
  {<<Slash>>, <<Slash, "api", Slash, "v1">>, <<Slash, "pretix", Slash, "api", Slash, "v1", Slash>>}

=============================================================================
