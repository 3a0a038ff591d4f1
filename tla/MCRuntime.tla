----------------------------- MODULE MCRuntime -----------------------------
(* The components of runtime/ that do not interact, side by side: a          *)
(* behaviour is one of a single component, the others stay as they start.    *)
EXTENDS GrPool, TaskGroup, PerfCounter, GoLocal, StatMgr

VARIABLE subject

allVars == <<subject, grVars, tgVars, pcVars, glVars, stVars>>

Init == /\ subject \in {"gr", "tg", "pc", "gl", "st"}
        /\ TgInit /\ PcInit /\ GlInit /\ StInit
        /\ GrInit /\ (subject # "gr" => \A p \in GrPools : grSize[p] = GrMaxSize)

Of(c) == subject = c /\ UNCHANGED subject

Next == \/ Of("gr") /\ GrNext /\ UNCHANGED <<tgVars, pcVars, glVars, stVars>>
        \/ Of("tg") /\ TgNext /\ UNCHANGED <<grVars, pcVars, glVars, stVars>>
        \/ Of("pc") /\ PcNext /\ UNCHANGED <<grVars, tgVars, glVars, stVars>>
        \/ Of("gl") /\ GlNext /\ UNCHANGED <<grVars, tgVars, pcVars, stVars>>
        \/ Of("st") /\ StNext /\ UNCHANGED <<grVars, tgVars, pcVars, glVars>>

Spec == Init /\ [][Next]_allVars

(* Goroutines run, functions return; a blocked send is served in its turn,   *)
(* since a channel wakes its senders in the order they came.                 *)
FairSpec ==
    /\ Spec
    /\ \A t \in GrTasks : /\ SF_grVars(Of("gr") /\ GrUnblock(t)) /\ WF_grVars(Of("gr") /\ GrSpawn(t))
                          /\ WF_grVars(Of("gr") /\ GrReceive(t)) /\ WF_grVars(Of("gr") /\ GrDone(t))
    /\ \A p \in GrPools : WF_grVars(Of("gr") /\ GrCloseChan(p)) /\ WF_grVars(Of("gr") /\ GrWait(p))
=============================================================================
