------------------------------- MODULE MCWorkDir -------------------------------
(* Small instances of WorkDir: two devices, a directory in a directory, two files that *)
(* differ by case. *)
EXTENDS WorkDir

MCRank ==
  [n \in Names |-> CASE n = "x" -> -1 [] n \in {"..", "a", "A"} -> 0
                    [] n = "ux0:" -> 2 [] OTHER -> 1]
MCPaths ==
  {<<"ux0:">>, <<"ur0:">>, <<"ux0:", "x">>, <<"ux0:", "x", "y">>, <<"ux0:", "a">>,
   <<"ux0:", "A">>}
MCArgs ==
  {<<"..">>, HOME_PATH, <<"ux0:">>, <<"ux0:", "x">>, <<"x">>, <<"y">>, <<"a">>, <<"x", "y">>}
================================================================================
