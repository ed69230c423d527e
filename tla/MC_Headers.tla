---------------------------- MODULE MC_Headers ----------------------------
(***************************************************************************)
(* A block tree of two forks for model checking the Headers stage:        *)
(*   g - a1 - a2 - a3                                                      *)
(*         \- b2 - b3                                                      *)
(* The consensus client may publish a3, b3 (a reorg to the other fork)    *)
(* or a1 (a head below the synced one).                                    *)
(***************************************************************************)
EXTENDS HeadersStage

MCHash == {"g", "a1", "a2", "a3", "b2", "b3"}

MCParent == [h \in MCHash |->
                CASE h = "g"  -> NoHash
                  [] h = "a1" -> "g"
                  [] h = "a2" -> "a1"
                  [] h = "a3" -> "a2"
                  [] h = "b2" -> "a1"
                  [] h = "b3" -> "b2"]

MCNumber == [h \in MCHash |->
                CASE h = "g" -> 0
                  [] h = "a1" -> 1
                  [] h \in {"a2", "b2"} -> 2
                  [] h \in {"a3", "b3"} -> 3]

MCHashRank == [h \in MCHash |->
                CASE h = "g" -> 0 [] h = "a1" -> 1 [] h = "a2" -> 2
                  [] h = "a3" -> 3 [] h = "b2" -> 4 [] h = "b3" -> 5]

MCFcHeads == {"a1", "a3", "b3"}
==============================================================================
