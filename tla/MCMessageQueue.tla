--------------------------- MODULE MCMessageQueue ---------------------------
(***************************************************************************)
(* Three priority levels and five messages, each of which may be queued    *)
(* again once it has left: at the top level one of the personal banker, at *)
(* the middle one a flusher and content it flushes, at the lowest level    *)
(* content with a time to live and a message that is not content.          *)
(***************************************************************************)
EXTENDS MessageQueue

MCRatio == <<1, 2, 1>>
MCMsg == {"p", "f", "c", "e", "n"}
MCLevelOf == [m \in MCMsg |->
                CASE m = "p" -> 1 [] m \in {"f", "c"} -> 2 [] m \in {"e", "n"} -> 3]
MCTagOf == [m \in MCMsg |->
              CASE m = "p" -> "pb" [] m \in {"f", "c"} -> "promo"
                [] m = "e" -> "none" [] m = "n" -> "notcontent"]
MCScreenOf == [m \in MCMsg |-> IF m = "p" THEN 1 ELSE 2]
=============================================================================
