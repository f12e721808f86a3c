---------------------------- MODULE MCJoinNumeric ----------------------------
(***************************************************************************)
(* All paths of up to MaxNodes nodes of seven kinds, and all of up to       *)
(* MaxMixed that may have an eighth: the form of a word is the dictionary's, *)
(* whatever its characters are, so that one of digits may have a separator  *)
(* in its form.                                                             *)
(***************************************************************************)
EXTENDS JoinNumeric

CONSTANTS MaxNodes, MaxMixed

Kind(form, cats, numeral) == [form |-> form, cats |-> cats, numeral |-> numeral, parts |-> <<form>>]
Kinds == {Kind(<<1>>, {"NUMERIC"}, TRUE), Kind(<<1>>, {"KANJINUMERIC"}, FALSE),
          Kind(<<0, 0, 0>>, {"NUMERIC"}, TRUE), Kind(<<-1>>, {"KANJINUMERIC"}, TRUE),
          Kind(<<Comma>>, {}, FALSE), Kind(<<Point>>, {}, FALSE), Kind(<<Other>>, {}, FALSE)}
Mixed == Kinds \cup {Kind(<<1, Point, 1>>, {"NUMERIC"}, TRUE)}

MCPaths == UNION {[1 .. n -> Kinds] : n \in 0 .. MaxNodes}
           \cup UNION {[1 .. n -> Mixed] : n \in 0 .. MaxMixed}
=============================================================================
