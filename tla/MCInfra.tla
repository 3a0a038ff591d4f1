------------------------------ MODULE MCInfra -------------------------------
(* Logging, service registration and discovery, the engine and the clients of *)
(* redis, MySQL and HTTP, side by side: a behaviour is one of a single        *)
(* component, the others stay as they start.                                  *)
EXTENDS Dlog, Registry, Discovery, Engine, RedisPool, RedisCluster, MysqlClient, HttpClient

CONSTANT Subjects   \* the components that run, among "lg", "rg", "zr", "ed", "zd", "eg", "rp", "rc", "my", "hc"

VARIABLE subject

allVars == <<subject, lgVars, rgVars, zrVars, edVars, zdVars, egVars, rpVars, rcVars, myVars, hcVars>>

X(tag, type, level) == [enabled |-> "true", tag |-> tag, type |-> type, level |-> level, props |-> TRUE]
Configs == {<<X("sock", "socket", 4), X("file", "file", 2)>>, <<[X("file", "file", 2) EXCEPT !.props = FALSE]>>}
Servers == <<"http", "rpc">>
AddrLists == {<<>>, <<"">>, <<"s1", "", "s1">>, <<"s1", "s2">>}
Lists == {<<"a", "b">>, <<"a", "a">>}

MyConf(from, type, masters, slaves) == [from |-> from, type |-> type, masters |-> masters, slaves |-> slaves]
MyLists == {MyConf("file", "mysql", <<"a">>, <<"s">>), MyConf("file", "mysql", <<"a", "b", "c">>, <<"">>),
            MyConf("file", "dm", <<"a">>, <<"">>), MyConf("common", "mysql", <<"a">>, <<"s">>), MyConf("file", "mysql", <<"">>, <<"">>)}

Init == /\ subject \in Subjects
        /\ LgInit /\ RgInit /\ ZrInit /\ EdInit /\ ZdInit /\ EgInit /\ RpInit /\ RcInit /\ MyInit /\ HcInit
        /\ (subject # "ed" => edStore = {}) /\ (subject # "zd" => zdKids = {})
        /\ (subject # "eg" => egConf = [log |-> "off", toFile |-> FALSE, falcon |-> FALSE, ports |-> {}])
        /\ (subject # "my" => myConf = MyConf("file", "mysql", <<"a">>, <<"s">>))
        /\ (subject # "rc" => \A k \in RcKeys : rcStore[k] = "nil")

Of(c) == subject = c /\ UNCHANGED subject

Next == \/ Of("lg") /\ LgNext /\ UNCHANGED <<rgVars, zrVars, edVars, zdVars, egVars, rpVars, rcVars, myVars, hcVars>>
        \/ Of("rg") /\ RgNext /\ UNCHANGED <<lgVars, zrVars, edVars, zdVars, egVars, rpVars, rcVars, myVars, hcVars>>
        \/ Of("zr") /\ ZrNext /\ UNCHANGED <<lgVars, rgVars, edVars, zdVars, egVars, rpVars, rcVars, myVars, hcVars>>
        \/ Of("ed") /\ EdNext /\ UNCHANGED <<lgVars, rgVars, zrVars, zdVars, egVars, rpVars, rcVars, myVars, hcVars>>
        \/ Of("zd") /\ ZdNext /\ UNCHANGED <<lgVars, rgVars, zrVars, edVars, egVars, rpVars, rcVars, myVars, hcVars>>
        \/ Of("eg") /\ EgNext /\ UNCHANGED <<lgVars, rgVars, zrVars, edVars, zdVars, rpVars, rcVars, myVars, hcVars>>
        \/ Of("rp") /\ RpNext /\ UNCHANGED <<lgVars, rgVars, zrVars, edVars, zdVars, egVars, rcVars, myVars, hcVars>>
        \/ Of("rc") /\ RcNext /\ UNCHANGED <<lgVars, rgVars, zrVars, edVars, zdVars, egVars, rpVars, myVars, hcVars>>
        \/ Of("my") /\ MyNext /\ UNCHANGED <<lgVars, rgVars, zrVars, edVars, zdVars, egVars, rpVars, rcVars, hcVars>>
        \/ Of("hc") /\ HcNext /\ UNCHANGED <<lgVars, rgVars, zrVars, edVars, zdVars, egVars, rpVars, rcVars, myVars>>

Spec == Init /\ [][Next]_allVars

(* Goroutines run and calls of the network return; a lease that nobody       *)
(* renews runs out. Crashes, changes in the stores and calls of the user     *)
(* need not happen.                                                          *)
FairSpec ==
    /\ Spec
    /\ \A t \in LgRoutines : WF_lgVars(Of("lg") /\ lgEnd = "no" /\ (LgTest(t) \/ LgWrite(t) \/ \E f \in {"stdout", "file", "sock"} : LgPick(t, f)))
    /\ WF_lgVars(Of("lg") /\ lgEnd = "no" /\ \E w \in DOMAIN lgW : LgPrint(w))
    /\ WF_lgVars(Of("lg") /\ lgEnd = "no" /\ \E w \in DOMAIN lgW : LgFile(w))
    /\ WF_rgVars(Of("rg") /\ (RgGrant \/ RgPut \/ RgCloseRevoke \/ RgCloseClient)) /\ WF_rgVars(Of("rg") /\ RgKeeperEnds)
    /\ \A l \in 1..RgLives : WF_rgVars(Of("rg") /\ ~RgRenewed(l) /\ RgExpire(l))
    /\ WF_edVars(Of("ed") /\ (EdGet \/ EdWatchFrom \/ EdTake)) /\ WF_edVars(Of("ed") /\ EdPut("watch"))
    /\ WF_edVars(Of("ed") /\ EdStopped)
    /\ WF_egVars(Of("eg") /\ EgStep)

\* Close of a registration and of a watch takes effect: the address leaves the
\* store (register/etcd.go:75-84) and the watch ends (discovery/etcd.go:75-83, 272).
CloseTakesEffect == RgGone /\ EdCloseStops
=============================================================================
