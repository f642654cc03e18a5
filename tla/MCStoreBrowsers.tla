--------------------------- MODULE MCStoreBrowsers ---------------------------
(* Two processes, two stores and two ports: a command that uses a store meets *)
(* one that uses, opens or closes another, or the same.                       *)
EXTENDS StoreBrowsers, TLC

CONSTANTS p1, p2, s1, s2

TwoDo == p1 :> {<<"page", s1>>, <<"open", s1>>} @@ p2 :> {<<"page", s2>>, <<"exit", s2>>, <<"exit", s1>>, <<"status", None>>}
===============================================================================
