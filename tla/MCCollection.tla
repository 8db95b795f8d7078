---------------------------- MODULE MCCollection ----------------------------
(***************************************************************************)
(* Up to three sources over two files: each once, with names that are      *)
(* empty or as long as a varint of one byte allows; one file listed twice; *)
(* a name that is one byte longer; and one file more than fits.            *)
(* Postcard's own bytes are 7, 7, 8 and 9.                                 *)
(***************************************************************************)
EXTENDS Collection

MCFileName == [p \in Path |-> "short"]
MCNameLen == [n \in Name |-> CASE n = "empty" -> 0 [] n = "short" -> 5
                               [] n = "long" -> 127 [] n = "longer" -> 128]
File(p) == [path |-> p, name |-> NoName]
NamedFile(p, n) == [path |-> p, name |-> n]
MCSourceLists == {
    <<NamedFile("p", "empty"), NamedFile("q", "long")>>,
    <<File("p"), NamedFile("p", "empty")>>,
    <<File("p"), NamedFile("q", "longer")>>,
    <<File("p"), File("q"), NamedFile("p", "empty")>>}
MCContents == {<<>>, <<"x">>, <<"y">>, <<"x", "y">>, <<"y", "y">>}
=============================================================================
