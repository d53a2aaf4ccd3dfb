------------------------------ MODULE MCPrintf ------------------------------
(***************************************************************************)
(* Calls for Printf, made of directives like those of the programs' calls. *)
(* Words have four bits.                                                   *)
(***************************************************************************)
EXTENDS Printf

MCTexts == { <<>>, <<"%", "d">> }

NumberItems(mods, conversion, width, base, long, values) ==
  { [prints |-> "number", mods |-> mods, conversion |-> conversion, value |-> v,
     long |-> long, base |-> base, width |-> width] : v \in values }

Words4 == {0, 9, 10, 15}
Ulls == {0, 10, 16, 160, 255}

Items ==
  { [prints |-> "text", text |-> <<"l">>],
    [prints |-> "char", mods |-> <<>>, conversion |-> "c", value |-> "%"] }
    \cup { [prints |-> "string", mods |-> <<>>, conversion |-> "s", value |-> str] :
             str \in MCTexts }
    \cup NumberItems(<<>>, "d", 0, 10, FALSE, Words4)
    \cup NumberItems(<<"0", "2">>, "d", 2, 10, FALSE, Words4)
    \cup NumberItems(<<"z">>, "u", 0, 10, FALSE, Words4)
    \cup NumberItems(<<"3">>, "x", 3, 16, FALSE, Words4)
    \cup NumberItems(<<>>, "p", 0, 16, FALSE, Words4)
    \cup NumberItems(<<"l">>, "x", 0, 16, FALSE, Words4)
    \cup NumberItems(<<"l", "l">>, "x", 0, 16, TRUE, Ulls)
    \cup NumberItems(<<"2", "l", "l">>, "u", 2, 10, TRUE, Ulls)

MCPrintfCalls == UNION { [1 .. n -> Items] : n \in 0 .. 2 }

=============================================================================
