--------------------------- MODULE MCCommandLine ---------------------------
(***************************************************************************)
(* Two processes, each started twice: two providers, one of them reading   *)
(* standard input, two getters, or one of each.  The collection has a blob *)
(* of two segments, an unnamed empty one, and the empty one once more      *)
(* under the name of the first.                                            *)
(***************************************************************************)
EXTENDS CommandLine, TLC

MCCommands == {("p" :> "provide") @@ ("q" :> "provide_stdin"),
               ("p" :> "get") @@ ("q" :> "get"),
               ("p" :> "get") @@ ("q" :> "provide")}
MCList == <<[name |-> "x", hash |-> "a"], [name |-> "", hash |-> "e"],
            [name |-> "x", hash |-> "e"]>>
MCSegments == ("a" :> 2) @@ ("e" :> 0)
MCHashName == ("a" :> "hash of a") @@ ("e" :> "hash of e")
=============================================================================
