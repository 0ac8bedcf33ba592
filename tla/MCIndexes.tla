------------------------------- MODULE MCIndexes -------------------------------
(* An instance of Indexes: two indexes over a low one and a mirror. *)
EXTENDS Indexes, TLC

CONSTANTS u1, u2, top, mid, low, mirror

OwnerOf == (top :> u1) @@ (mid :> u1) @@ (low :> u2) @@ (mirror :> u2)

\* The low one may be created again as a mirror.
TypesOf == [i \in StageNames |->
    CASE i = mirror -> {"mirror"} [] i = low -> {"stage", "mirror"} [] OTHER -> {"stage"}]

\* Chains, a diamond, two ways to a mirror, cycles of one, two and three indexes.
BasesOf(i) ==
    CASE i = top -> {<<>>, <<mid>>, <<mid, low>>, <<mirror, low, mid>>}
      [] i = mid -> {<<>>, <<low>>, <<mirror, mid>>}
      [] i = low -> {<<>>, <<mirror>>, <<top, mirror>>}
      [] OTHER -> {<<>>}

SettingsOf == [i \in StageNames |->
    [bases |-> BasesOf(i),
     whitelist |-> {{}} \cup (IF i # low THEN {{"project"}} ELSE {})
                       \cup (IF i # mid THEN {{"*"}} ELSE {}),
     inheritance |-> IF i = top THEN {"intersection", "union"} ELSE {"intersection"},
     volatile |-> IF i = mid THEN BOOLEAN ELSE {TRUE}]]
=============================================================================
