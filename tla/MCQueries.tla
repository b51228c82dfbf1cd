----------------------------- MODULE MCQueries -----------------------------
(***************************************************************************)
(* Three files, of which 1 and 2 may be sourced.  Each text is there for   *)
(* one rule of the code.                                                   *)
(***************************************************************************)
EXTENDS Queries

At(kind, name) == [is |-> kind, name |-> name, word |-> name]
Source(u) == [is |-> "source", name |-> "source", word |-> "lib.sh", target |-> u]

MCTokens ==
    [caller |-> <<Source(2), At("call", "f"), [is |-> "expand", name |-> "g", word |-> "g.txt"]>>,
     library |-> <<At("nested", "f"), At("assign", "g"), At("other", "f")>>,
     broken |-> <<Source(1), At("function", "cd"), At("assign", "f"), At("call", "f")>>]

MCParsed == [caller |-> 3, library |-> 3, broken |-> 3]
MCText == DOMAIN MCTokens
=============================================================================
