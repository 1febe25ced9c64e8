----------------------------- MODULE MCAttributes -----------------------------
(***************************************************************************)
(* Instances of Attributes for TLC.                                        *)
(*                                                                         *)
(* The texts are a word, a number written with a zero before it and what   *)
(* becomes of it: an integer 1, a decimal 1.0, a boolean True.             *)
(***************************************************************************)
EXTENDS Attributes, TLC

Text(s) == [json |-> "string", str |-> s]

Texts == {"red", "01", "1", "1.0", "True"}

SampleReading == [type \in Parsed |-> [s \in Texts |->
  CASE type = "integer" /\ s \in {"01", "1"} -> "1"
    [] type = "decimal" /\ s \in {"01", "1", "1.0"} -> "1.0"
    [] type = "boolean" /\ s \in {"1", "True"} -> "True"
    [] OTHER -> Nil]]

SampleValues == {Text("red"), Text("01"), Empty}

SampleOptions == {{}, {"red"}}

Symmetry == Permutations(Cats) \cup Permutations(Attrs) \cup Permutations(Names)
            \cup Permutations(Catalogs)
=============================================================================
