---------------------------- MODULE MCSynthTree ----------------------------
(* Instances of SynthTree for TLC. *)
EXTENDS SynthTree

Channels == <<"c1", "c2">>
Chains   == <<"k1">>

(* Every way to connect four modules by two channels and a chain, up to    *)
(* swapping the channels, where the chain has no module, the two of one    *)
(* half, three or all; and the ways to spread a service over three.        *)
Connected == {p \in Program :
                /\ p.client = {} /\ p.server = 0
                /\ ~Earlier(p.chan["c2"], p.chan["c1"])
                /\ p.chain["k1"] \in {{}, {1, 2}, {1, 2, 4}, Modules}}
Served    == {p \in Program :
                /\ p.chan["c2"] = <<0, 0>> /\ p.chain["k1"] \in {{}, {1, 3}}
                /\ p.client # {} /\ p.client \subseteq {1, 2, 3} /\ p.server < 4}
AllPrograms == Connected \cup Served

(* The modules in alphabetical order on the tour of the area groups, and a *)
(* tour that is not.                                                       *)
Tours == {NoArea, [m \in Modules |-> m], [m \in Modules |-> IF m = 1 THEN 3 ELSE IF m = 2 THEN 1 ELSE IF m = 3 THEN 2 ELSE m]}
=============================================================================
