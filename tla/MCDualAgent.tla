---------------------------- MODULE MCDualAgent ----------------------------
(* The conversation of integration_example.py for TLC, with one question.   *)
EXTENDS DualAgent

Flow == <<"ask", "search", "explain", "qa", "closing">>
MCNodes == Range(Flow)
MCKind == [n \in MCNodes |->
  CASE n = "search" -> "tool" [] n = "explain" -> "explanation"
    [] n = "qa" -> "react" [] OTHER -> "speak"]
MCNext == [n \in MCNodes |->
  LET p == CHOOSE q \in DOMAIN Flow : Flow[q] = n IN
  IF p = Len(Flow) THEN "none" ELSE Flow[p + 1]]
MCTool == [n \in MCNodes |-> "kb_search"]
=============================================================================
