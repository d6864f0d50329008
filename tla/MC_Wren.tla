------------------------------- MODULE MC_Wren -------------------------------
(* Finite instances of the three models of the Wren side.  They share no   *)
(* state, so a behaviour is one of one of them, which part says.           *)
EXTENDS WrenXml, WrenRuntime, WrenModules

VARIABLE part

allVars == <<xmlVars, wrenVars, moduleVars, part>>

Init ==
    /\ XmlInit /\ WrenInit /\ ModulesInit
    /\ part \in {"xml", "runtime", "modules"}

XmlStep == part = "xml" /\ XmlNext /\ UNCHANGED <<wrenVars, moduleVars, part>>
RuntimeStep ==
    part = "runtime" /\ WrenNext /\ UNCHANGED <<xmlVars, moduleVars, part>>
ModulesStep ==
    part = "modules" /\ ModulesNext /\ UNCHANGED <<xmlVars, wrenVars, part>>

Next == XmlStep \/ RuntimeStep \/ ModulesStep

(* A thread that has begun a load, and Lua's thread in an invocation, go   *)
(* on: nothing else has to happen, least of all another load.              *)
Fairness ==
    /\ \A t \in Threads : WF_wrenVars(part = "runtime" /\ wrenState = "running"
                                      /\ ThreadStep(t))
    /\ WF_wrenVars(part = "runtime" /\ wrenState = "running" /\ LuaStep)

FairSpec == Init /\ [][Next]_allVars /\ Fairness

(* Every variable keeps the shape its declaration gives it. *)
TypeOK == XmlTypeOK /\ WrenTypeOK /\ ModulesTypeOK

MCFiles == {<<"base", "wren", "base">>, <<"base", "wren", "private", "p">>,
            <<"a", "src", "main">>, <<"b", "wren", "b">>}
MCRequests ==
    {<<"base", "native">>, <<"base", "native", "internal_001">>,
     <<"base", "native", "Environment_001">>,
     <<"base", "native", "LuaInterface_001">>, <<"base", "private", "p">>,
     <<"__raw_force_load", "a", "main">>, <<"__raw_force_load", "b">>,
     <<".", "base", "private", "p">>, <<"...", "private", "p">>}
MCRoots == {"src"}
=============================================================================
