----------------------------- MODULE MCWebShell -----------------------------
(* Two rows per service and a window of one, so that rows appear out of      *)
(* order and push each other out; two checks and two actions, so that one    *)
(* can be old news.                                                          *)
EXTENDS WebShell
=============================================================================
