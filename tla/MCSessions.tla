------------------------------ MODULE MCSessions ------------------------------
(* An instance of Sessions for TLC: one session of an MCP request, and two     *)
(* profiles of one browser that come and go behind two bridges.  Exchanging    *)
(* the profiles together with their instances changes nothing.                 *)
EXTENDS Sessions, TLC

CONSTANTS h1, h2, i1, i2, chrome, e1, x1, s1, r1

MCKind == [h \in {h1, h2} |-> chrome]
MCInstance == [h \in {h1, h2} |-> IF h = h1 THEN i1 ELSE i2]
MCExtension == [h \in {h1, h2} |-> e1]
MCRequest == [x \in {x1} |-> r1]
MCStepSession == [s \in {s1} |-> x1]
MCStepRequest == [s \in {s1} |-> Nil]
MCOpenAims == {Aim("browser", chrome, FALSE)}
MCStepAims == {OwnSession, Aim("instance", i1, FALSE), Aim("instance", i2, FALSE)}
MCCloseAims == {OwnSession}

Profiles == {p \in Permutations({h1, h2, i1, i2}) :
               \A h \in {h1, h2} : p[h] \in {h1, h2} /\ p[MCInstance[h]] = MCInstance[p[h]]}
=============================================================================
