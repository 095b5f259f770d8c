---------------------------- MODULE MCConfigSync ----------------------------
(***************************************************************************)
(* Instances of ConfigSync for TLC.  The fields are the screens of the     *)
(* layout and, in some runs, the links between them.  A config validates   *)
(* (Config::validate) when its links join screens it has, and when the     *)
(* machine's own screen is among its screens.                              *)
(***************************************************************************)
EXTENDS ConfigSync

CONSTANT OnlyInWide  \* machines whose own screen the "small" layout leaves out

\* Discovery works both ways, or only shows b to a.
BothWays == [n \in Nodes |-> Nodes \ {n}]
OneWay == [n \in Nodes |-> IF n = "a" THEN Nodes \ {n} ELSE {}]

MCRank == [n \in Nodes |-> CASE n = "a" -> 1 [] n = "b" -> 2 [] OTHER -> 3]

MCValidConfigs ==
    [n \in Nodes |->
        {c \in Configs :
            c["screens"] = "small" =>
                /\ n \notin OnlyInWide
                /\ "links" \in Fields => c["links"] = "small"}]

\* Every screen is there and nothing is linked yet.
MCFirstConfigs == {[f \in Fields |-> IF f = "screens" THEN "wide" ELSE "small"]}
=============================================================================
