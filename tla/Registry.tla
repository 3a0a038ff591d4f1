------------------------------ MODULE Registry ------------------------------
(* service/register: a process publishes its address in etcd, under a lease   *)
(* that a background goroutine watches, or in zookeeper, as an ephemeral node *)
(* below a path that the first process of the service creates. Processes      *)
(* crash and start again; the stores outlive them.                            *)
EXTENDS Integers, FiniteSets

CONSTANTS
    RgRetries,   \* DefaultRetryTimes
    RgLives,     \* bound: lives of the etcd process, one lease each
    ZrProcs,     \* processes that register in zookeeper
    ZrSessions   \* bound: zookeeper sessions, 1..ZrSessions
ASSUME RegAssumption == RgRetries \in Nat /\ RgLives \in Nat /\ ZrSessions \in Nat

VARIABLES
    rgStart,     \* where Start is, or how it ended
    rgTry,       \* Puts that reported an error
    rgExit,      \* exitChan: "nil", "open", "closed"
    rgClient,    \* e.client is set
    rgConn,      \* the etcd client itself: "none", "live", "closed"
    rgLease,     \* leaseID
    rgGrant,     \* the lease this life was granted, 0 before
    rgKeeper,    \* the keep-alive goroutine: "none", "loop", "gone"
    rgClose,     \* where Close is, or how it ended
    rgLive,      \* in etcd: the leases that are alive
    rgNode,      \* in etcd: the lease the node of this address hangs on, 0 when it is not there
    rgLife,      \* which life of the process this is
    zrPc,        \* where each process is in Start, or how it ended
    zrLevel,     \* the level of the path it is creating
    zrConn,      \* the session of its client, 0 when client is nil
    zrFirst,     \* the session its node was created in
    zrNext,      \* the next session number
    zrDepth,     \* in zookeeper: levels of service/environ/pool that exist
    zrNode       \* in zookeeper: the session that owns each process's node, 0 if none

rgApp == <<rgStart, rgTry, rgExit, rgClient, rgConn, rgLease, rgGrant, rgKeeper, rgClose, rgLife>>
rgVars == <<rgApp, rgLive, rgNode>>
zrVars == <<zrPc, zrLevel, zrConn, zrFirst, zrNext, zrDepth, zrNode>>

RgInit == /\ rgStart = "new" /\ rgTry = 0 /\ rgExit = "nil" /\ rgClient = FALSE /\ rgConn = "none"
          /\ rgLease = 0 /\ rgGrant = 0 /\ rgKeeper = "none" /\ rgClose = "no"
          /\ rgLive = {} /\ rgNode = 0 /\ rgLife = 1

(* Start: the configuration is bad, or exitChan is made and the client is    *)
(* created; its error is dropped, and register then uses a nil client.       *)
RgBegin == /\ rgStart = "new" /\ rgClose = "no"
           /\ \/ /\ rgStart' = "err" /\ UNCHANGED <<rgExit, rgClient, rgConn>>
              \/ /\ rgExit' = "open"
                 /\ \/ rgClient' = TRUE /\ rgConn' = "live" /\ rgStart' = "grant"
                    \/ rgStart' = "panicked" /\ UNCHANGED <<rgClient, rgConn>>
           /\ UNCHANGED <<rgTry, rgLease, rgGrant, rgKeeper, rgClose, rgLife, rgLive, rgNode>>

(* The Grant of register. *)
RgGrant == /\ rgStart = "grant"
           /\ \/ rgStart' = "put" /\ rgGrant' = rgLife /\ rgLive' = rgLive \union {rgLife}
              \/ rgStart' = "err" /\ UNCHANGED <<rgGrant, rgLive>>
           /\ UNCHANGED <<rgTry, rgExit, rgClient, rgConn, rgLease, rgKeeper, rgClose, rgLife, rgNode>>

\* The node hangs on the lease if the lease is still alive.
RgStored(n) == n = IF rgGrant \in rgLive THEN rgGrant ELSE rgNode

\* Faulty variant: the loop is left after the first Put, whatever its result.
RgPutFailsOnce == /\ rgStart' = "ok" /\ rgKeeper' = "loop" /\ rgTry' = rgTry + 1 /\ UNCHANGED rgLease
                  /\ rgNode' \in {rgNode}

(* A Put that fails, applied or not, is tried again; after the last failure  *)
(* register goes on as after a success.                                      *)
RgPutFails == /\ rgTry' = rgTry + 1 /\ UNCHANGED rgLease
              /\ IF rgTry' = RgRetries THEN rgStart' = "ok" /\ rgKeeper' = "loop"
                                       ELSE UNCHANGED <<rgStart, rgKeeper>>
              /\ (RgStored(rgNode') \/ UNCHANGED rgNode)

(* A Put of register, and after the last one the keep-alive goroutine.       *)
RgPut == /\ rgStart = "put"
         /\ \/ /\ rgGrant \in rgLive /\ RgStored(rgNode') /\ rgLease' = rgGrant
               /\ rgStart' = "ok" /\ rgKeeper' = "loop" /\ UNCHANGED rgTry
            \/ RgPutFails
         /\ UNCHANGED <<rgExit, rgClient, rgConn, rgGrant, rgClose, rgLife, rgLive>>

(* revoke, which may fail: leaseID and the node that hangs on it go.         *)
RgRevoke == \/ /\ rgLive' = rgLive \ {rgLease}
               /\ rgNode' = IF rgNode = rgLease THEN 0 ELSE rgNode
            \/ UNCHANGED <<rgLive, rgNode>>

(* The keep-alive goroutine ends: the channel is closed, because the lease   *)
(* is lost or the client closed, and it revokes, panicking on a nil client   *)
(* as it does when it looks at its context (recovered); or exitChan or the   *)
(* client is closed.                                                         *)
RgKeeperEnds == /\ rgKeeper = "loop"
                /\ \/ /\ rgGrant \notin rgLive \/ rgConn = "closed"
                      /\ IF rgClient THEN RgRevoke ELSE UNCHANGED <<rgLive, rgNode>>
                   \/ (rgExit = "closed" \/ rgConn = "closed" \/ ~rgClient) /\ UNCHANGED <<rgLive, rgNode>>
                /\ rgKeeper' = "gone"
                /\ UNCHANGED <<rgStart, rgTry, rgExit, rgClient, rgConn, rgLease, rgGrant, rgClose, rgLife>>

(* Close: a nil exitChan panics. *)
RgCloseExit == /\ rgClose = "no" /\ rgStart \in {"new", "ok", "err", "panicked"}
               /\ IF rgExit = "nil" THEN rgClose' = "panicked" /\ UNCHANGED rgExit
                  ELSE rgExit' = "closed" /\ rgClose' = IF rgClient THEN "revoke" ELSE "done"
               /\ UNCHANGED <<rgStart, rgTry, rgClient, rgConn, rgLease, rgGrant, rgKeeper, rgLife, rgLive, rgNode>>

RgCloseRevoke == /\ rgClose = "revoke" /\ RgRevoke /\ rgClose' = "client"
                 /\ UNCHANGED <<rgStart, rgTry, rgExit, rgClient, rgConn, rgLease, rgGrant, rgKeeper, rgLife>>

\* Faulty variant: the client is forgotten, not closed.
RgCloseForgets == /\ rgClose = "client" /\ rgClient' = FALSE /\ rgClose' = "done"
                  /\ UNCHANGED <<rgStart, rgTry, rgExit, rgConn, rgLease, rgGrant, rgKeeper, rgLife, rgLive, rgNode>>

RgCloseClient == /\ rgClose = "client" /\ rgConn' = "closed" /\ rgClient' = FALSE /\ rgClose' = "done"
                 /\ UNCHANGED <<rgStart, rgTry, rgExit, rgLease, rgGrant, rgKeeper, rgLife, rgLive, rgNode>>

(* A lease runs out: nobody renews it, or the renewals do not arrive.        *)
RgExpire(l) == /\ l \in rgLive /\ rgLive' = rgLive \ {l}
               /\ rgNode' = IF rgNode = l THEN 0 ELSE rgNode
               /\ UNCHANGED rgApp

\* The client renews its lease by itself, whoever reads the responses.
RgRenewed(l) == l = rgGrant /\ rgConn = "live" /\ rgStart = "ok"

(* The process dies and starts again.                                        *)
RgCrash == /\ rgLife < RgLives /\ rgLife' = rgLife + 1
           /\ rgStart' = "new" /\ rgTry' = 0 /\ rgExit' = "nil" /\ rgClient' = FALSE /\ rgConn' = "none"
           /\ rgLease' = 0 /\ rgGrant' = 0 /\ rgKeeper' = "none" /\ rgClose' = "no"
           /\ UNCHANGED <<rgLive, rgNode>>

RgNext == RgBegin \/ RgGrant \/ RgPut \/ RgKeeperEnds \/ RgCloseExit \/ RgCloseRevoke \/ RgCloseClient
          \/ RgCrash \/ \E l \in rgLive : RgExpire(l)

(* Once Start has returned without error, the address is published as long   *)
(* as the lease lives, also when the previous life's lease runs out then;    *)
(* the only exception is a register whose every Put has failed.              *)
RgPublished == rgStart = "ok" /\ rgClose = "no" /\ rgGrant \in rgLive /\ rgTry < RgRetries => rgNode = rgGrant

(* After Close the address leaves etcd, even when the revoke fails: nothing  *)
(* renews the lease any more.                                                *)
RgGone == (rgClose = "done") ~> (rgNode = 0 \/ rgClose # "done")

-----------------------------------------------------------------------------
ZrInit == /\ zrPc = [i \in ZrProcs |-> "new"] /\ zrLevel = [i \in ZrProcs |-> 1]
          /\ zrConn = [i \in ZrProcs |-> 0] /\ zrFirst = [i \in ZrProcs |-> 0] /\ zrNext = 1
          /\ zrDepth = 0 /\ zrNode = [i \in ZrProcs |-> 0]

ZrGoto(i, pc) == zrPc' = [zrPc EXCEPT ![i] = pc]

(* Start: the configuration or the connection fails, or a session begins.    *)
ZrStart(i) == /\ zrPc[i] = "new"
              /\ \/ ZrGoto(i, "err") /\ UNCHANGED <<zrConn, zrNext>>
                 \/ /\ zrNext <= ZrSessions /\ ZrGoto(i, "exists")
                    /\ zrConn' = [zrConn EXCEPT ![i] = zrNext] /\ zrNext' = zrNext + 1
              /\ UNCHANGED <<zrLevel, zrFirst, zrDepth, zrNode>>

(* isExistNode looks for the service's node only, not for what is below it.  *)
ZrExists(i) == /\ zrPc[i] = "exists"
               /\ \E pc \in {"err", IF zrDepth > 0 THEN "run" ELSE "create"} : ZrGoto(i, pc)
               /\ zrLevel' = [zrLevel EXCEPT ![i] = 1]
               /\ UNCHANGED <<zrConn, zrFirst, zrNext, zrDepth, zrNode>>

(* It creates the levels in turn; one that exists by now is an error, and a  *)
(* create may fail before or after it takes effect.                          *)
ZrCreate(i) == /\ zrPc[i] = "create"
               /\ \/ /\ zrDepth = zrLevel[i] - 1 /\ zrDepth' = zrLevel[i]
                     /\ \/ /\ zrLevel' = [zrLevel EXCEPT ![i] = @ + 1]
                           /\ ZrGoto(i, IF zrLevel[i] = 3 THEN "run" ELSE "create")
                        \/ ZrGoto(i, "err") /\ UNCHANGED zrLevel
                  \/ ZrGoto(i, "err") /\ UNCHANGED <<zrDepth, zrLevel>>
               /\ UNCHANGED <<zrConn, zrFirst, zrNext, zrNode>>

(* run creates the ephemeral node; an older session's node is in the way     *)
(* until that session ends.                                                  *)
ZrRun(i) == /\ zrPc[i] = "run"
            /\ \/ /\ zrDepth = 3 /\ zrNode[i] = 0 /\ zrNode' = [zrNode EXCEPT ![i] = zrConn[i]]
                  /\ \/ ZrGoto(i, "ok") /\ zrFirst' = [zrFirst EXCEPT ![i] = zrConn[i]]
                     \/ ZrGoto(i, "err") /\ UNCHANGED zrFirst
               \/ ZrGoto(i, "err") /\ UNCHANGED <<zrNode, zrFirst>>
            /\ UNCHANGED <<zrLevel, zrConn, zrNext, zrDepth>>

(* Close ends the session and with it the node; again it does nothing.       *)
ZrClose(i) == /\ zrPc[i] \in {"ok", "err"} /\ zrConn[i] # 0
              /\ zrNode' = [j \in ZrProcs |-> IF zrNode[j] = zrConn[i] THEN 0 ELSE zrNode[j]]
              /\ zrConn' = [zrConn EXCEPT ![i] = 0] /\ ZrGoto(i, "closed")
              /\ UNCHANGED <<zrLevel, zrFirst, zrNext, zrDepth>>

(* The process dies; its session lives on until it expires.                  *)
ZrCrash(i) == /\ zrPc[i] # "new" /\ ZrGoto(i, "new") /\ zrConn' = [zrConn EXCEPT ![i] = 0]
              /\ zrFirst' = [zrFirst EXCEPT ![i] = 0]
              /\ UNCHANGED <<zrLevel, zrNext, zrDepth, zrNode>>

(* A session expires: its nodes go, and the client library connects in a new *)
(* session that has no nodes.                                                *)
ZrExpire(s) == /\ zrNext <= ZrSessions /\ \E j \in ZrProcs : s \in {zrNode[j], zrConn[j]}
               /\ zrNode' = [j \in ZrProcs |-> IF zrNode[j] = s THEN 0 ELSE zrNode[j]]
               /\ zrConn' = [j \in ZrProcs |-> IF zrConn[j] = s THEN zrNext ELSE zrConn[j]]
               /\ zrNext' = zrNext + 1
               /\ UNCHANGED <<zrPc, zrLevel, zrFirst, zrDepth>>

ZrNext == \/ \E i \in ZrProcs : ZrStart(i) \/ ZrExists(i) \/ ZrCreate(i) \/ ZrRun(i) \/ ZrClose(i) \/ ZrCrash(i)
          \/ \E s \in 1..ZrSessions : ZrExpire(s)

(* A process whose Start succeeded owns the node of its address as long as   *)
(* the session of that Start lives: no older session's end takes it away.    *)
ZrOwn == \A i \in ZrProcs : zrPc[i] = "ok" /\ zrConn[i] = zrFirst[i] => zrNode[i] = zrConn[i]

\* A registered address is published by the process that registered it, through
\* etcd (etcd.go:161-236) as through zookeeper (zk.go:129-161), whatever crashed
\* before.
RegOwned == RgPublished /\ ZrOwn

\* Registration through etcd and through zookeeper; they share nothing.
RegSpec == RgInit /\ [][RgNext]_rgVars /\ ZrInit /\ [][ZrNext]_zrVars
=============================================================================
