---------------------------- MODULE MCSupervisor ----------------------------
(* Two handlers of actions and three processes of one service.              *)
EXTENDS Supervisor

CONSTANTS h1, h2, c1, c2, c3

TwoHandlers == {h1, h2}
ThreeChildren == {c1, c2, c3}
=============================================================================
