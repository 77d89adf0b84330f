------------------------------- MODULE Backend -------------------------------
(* The two services as the web application sees them: each answers or not.  *)

VARIABLE up             \* [Services -> BOOLEAN]: does the service answer?

Services == {"estoque", "faturamento"}

\* Started or stopped, by Control or on its own.
Turn(s) == up' = [up EXCEPT ![s] = ~@]
=============================================================================
