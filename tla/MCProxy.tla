------------------------------ MODULE MCProxy -------------------------------
(* Instances of the parts of a proxy, and of the pool of Redis clients, for *)
(* TLC.                                                                    *)
EXTENDS BackendConn, Session, HotKeyCache, ProxyACL, QPSLimit, AuthGuard, ClientPool, TLC

CONSTANTS i1, i2, s1, s2, s3

(* Calls of SetACL bind the user to database 1, switch the ACL off, and    *)
(* switch it on with the user free, in any order and as often as there are *)
(* calls.                                                                  *)
SomeACLs == {[rev |-> 1, on |-> TRUE, db |-> 1],
             [rev |-> 2, on |-> FALSE, db |-> 1],
             [rev |-> 3, on |-> TRUE, db |-> Unbound]}

(* Two sessions of one address and one of another.                         *)
SessionIP == s1 :> i1 @@ s2 :> i1 @@ s3 :> i2

(* The components are independent: a behaviour is one of the component in  *)
(* focus, and the others stay as they began.                               *)
CONSTANT Parts
VARIABLE focus

Init ==
    /\ focus \in Parts
    /\ BcInit /\ SsInit /\ HkInit /\ PaInit /\ QlInit /\ AgInit /\ CpInit
    /\ focus # "session" => ~ ssBreak

Next ==
    /\ UNCHANGED focus
    /\ \/ focus = "backend" /\ BcNext /\ UNCHANGED <<ssVars, hkVars, paVars, qlVars, agVars, cpVars>>
       \/ focus = "session" /\ SsNext /\ UNCHANGED <<bcVars, hkVars, paVars, qlVars, agVars, cpVars>>
       \/ focus = "cache" /\ HkNext /\ UNCHANGED <<bcVars, ssVars, paVars, qlVars, agVars, cpVars>>
       \/ focus = "acl" /\ PaNext /\ UNCHANGED <<bcVars, ssVars, hkVars, qlVars, agVars, cpVars>>
       \/ focus = "qps" /\ QlNext /\ UNCHANGED <<bcVars, ssVars, hkVars, paVars, agVars, cpVars>>
       \/ focus = "auth" /\ AgNext /\ UNCHANGED <<bcVars, ssVars, hkVars, paVars, qlVars, cpVars>>
       \/ focus = "pool" /\ CpNext /\ UNCHANGED <<bcVars, ssVars, hkVars, paVars, qlVars, agVars>>

(* Goroutines run; a dial ends after 5 s, and a read after the timeout of  *)
(* the connection (backend_recv_timeout).                                  *)
BcFairness ==
    LET on == focus = "backend"
    IN  /\ \A r \in Reqs : WF_bcVars(on /\ PushBack(r))
        /\ \A c \in Conns : WF_bcVars(on /\ Writer(c))
        /\ \A c \in Conns, i \in 1 .. MaxFaults + 1 : WF_bcVars(on /\ i <= Round(c) /\ Reader(c, i))
        /\ \A s \in PoolSlots : WF_bcVars(on /\ fillSlot(s, FALSE))

(* Goroutines run, and backends answer.                                    *)
SsFairness ==
    LET on == focus = "session"
    IN  /\ WF_ssVars(on /\ ReadLoop) /\ WF_ssVars(on /\ WriteLoop)
        /\ \A c \in Cmds, i \in 1 .. MaxSubs : WF_ssVars(on /\ AnswerSub(c, i))

(* The loop of the reporter and the calls of the dashboard go on.          *)
HkFairness ==
    LET on == focus = "cache"
    IN  /\ \A p \in HkProxies : WF_hkVars(on /\ mergePending(p)) /\ WF_hkVars(on /\ flushPending(p))
        /\ WF_hkVars(on /\ \E c \in hkCalls : RemoteBump(c) \/ RemoteRemove(c))

Spec == Init /\ [][Next]_<<focus, bcVars, ssVars, hkVars, paVars, qlVars, agVars, cpVars>>
        /\ BcFairness /\ SsFairness /\ HkFairness
=============================================================================
