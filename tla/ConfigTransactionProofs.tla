---------------------- MODULE ConfigTransactionProofs ----------------------
(***************************************************************************)
(* Proofs about ConfigTransaction, for any number of clients, operations,  *)
(* requests and failures.                                                  *)
(***************************************************************************)
EXTENDS ConfigTransaction, FiniteSetTheorems, TLAPS

(* What a client relies on in each phase: a view it refreshes or publishes  *)
(* from is a published bundle, a commit works on its own operation, and     *)
(* nothing is published without an id.                                      *)
Publishing == {"prepared", "published", "ready", "replaced", "switched"}

ClientInv ==
    \A c \in Clients :
        /\ view[c] \in Published \cup {NoTx}
        /\ pc[c] = "files" => view[c] \in Published
        /\ pc[c] \in Publishing \cup {"waiting", "holding"} => mode[c] # "open"
        /\ pc[c] \in Publishing => target[c] \in TxIds
        /\ mode[c] \in {"commit", "resume"} => op[c] \in Ops /\ target[c] = op[c]
        /\ op[c] # NoTx => req[c] \in Requests
        /\ pc[c] = "prepared" /\ view[c] # NoTx => req[c] \in Requests

TypeInv == TypeOK /\ ClientInv /\ LockHeldInside

(* The number of configuration files is a natural number. *)
LEMMA FilesLength == Len(Files) \in Nat
  BY BoundAssumption

(* Initially every variable has its type and no client is at work. *)
LEMMA InitTypeInv == Init => TypeInv
<1> SUFFICES ASSUME Init PROVE TypeInv
  OBVIOUS
<1> USE DEF Init, Published
<1>1. TypeOK
  BY FilesLength, BoundAssumption DEF TypeOK, Phases, Modes, Manifest
<1>2. ClientInv
  BY DEF ClientInv, Publishing
<1>3. LockHeldInside
  BY TxAssumption DEF LockHeldInside, Inside
<1> QED BY <1>1, <1>2, <1>3 DEF TypeInv

(* What is published is a manifest. *)
LEMMA NextManifestType ==
    ASSUME TypeInv, NEW c \in Clients, PublishBundle(c) PROVE NextManifest(c) \in Manifest
<1>1. view[c] \in Published \cup {NoTx} /\ target[c] \in TxIds
      /\ (view[c] # NoTx => req[c] \in Requests)
  BY DEF TypeInv, ClientInv, PublishBundle, Publishing
<1>2. view[c] # NoTx => bundles[view[c]] \in Manifest
  BY <1>1 DEF TypeInv, TypeOK
<1>3. NextContent(c) \in Contents
  <2>1. CASE view[c] = NoTx
    BY <2>1, TxAssumption DEF NextContent
  <2>2. CASE view[c] # NoTx
    <3>1. req[c].writes \in Contents \cup {AnyContent} /\ bundles[view[c]].content \in Contents
      BY <1>1, <1>2, <2>2, TxAssumption DEF Manifest
    <3> QED BY <2>2, <3>1 DEF NextContent
  <2> QED BY <2>1, <2>2
<1>4. Applied(view[c]) \subseteq TxIds
  BY <1>1, <1>2 DEF Applied, Manifest, TypeInv, TypeOK
<1>5. (IF view[c] = NoTx THEN 0 ELSE bundles[view[c]].gen + 1) \in Nat
  BY <1>2 DEF Manifest
<1>6. (IF view[c] = NoTx THEN NoRequest ELSE req[c]) \in Requests \cup {NoRequest}
  BY <1>1
<1>7. view[c] \in TxIds \cup {NoTx}
  BY DEF TypeInv, TypeOK
<1> QED BY <1>1, <1>3, <1>4, <1>5, <1>6, <1>7 DEF NextManifest, Manifest

(* Every operation, failure and crash keeps the types and the lock. *)
LEMMA NextTypeInv == TypeInv /\ [Next]_vars => TypeInv'
<1> SUFFICES ASSUME TypeInv, [Next]_vars PROVE TypeInv'
  OBVIOUS
<1> USE FilesLength DEF TypeInv, TypeOK, ClientInv, LockHeldInside, Inside, Published, Publishing,
     store, flat
<1>1. ASSUME NEW c \in Clients, NEW o \in Ops, NEW r \in Requests, Submit(c, o, r)
      PROVE TypeInv'
  BY <1>1, BoundAssumption DEF Submit, Goto, Phases, TxIds
<1>2. ASSUME NEW c \in Clients, Read(c) PROVE TypeInv'
  BY <1>2 DEF Read, Goto, Phases
<1>3. ASSUME NEW c \in Clients, Open(c) PROVE TypeInv'
  <2>1. CASE /\ mode' = [mode EXCEPT ![c] = "import"]
              /\ Goto(c, "waiting")
              /\ UNCHANGED <<op, req, view, target, at>>
    BY <1>3, <2>1 DEF Open, Goto, Phases, Modes
  <2>2. CASE Readable(head) /\ Materializing(c, "open", head)
    BY <1>3, <2>2 DEF Open, Goto, Return, Materializing, Readable, Phases, Modes
  <2> QED BY <1>3, <2>1, <2>2 DEF Open
<1>4. ASSUME NEW c \in Clients, Lock(c) PROVE TypeInv'
  BY <1>4, TxAssumption DEF Lock, Goto, Phases
<1>5. ASSUME NEW c \in Clients, LockTimeout(c) PROVE TypeInv'
  BY <1>5 DEF LockTimeout, Return, Phases, Modes
<1>7. ASSUME NEW c \in Clients, ImportFound(c) PROVE TypeInv'
  BY <1>7 DEF ImportFound, Materializing, Goto, Readable, Phases, Modes
<1>8. ASSUME NEW c \in Clients, ImportPrepare(c) PROVE TypeInv'
  BY <1>8 DEF ImportPrepare, Goto, Phases, TxIds
<1>9. ASSUME NEW c \in Clients, Replay(c) PROVE TypeInv'
  BY <1>9, TxAssumption DEF Replay, Executing, Applied, Readable, Tell, Unlock, Return,
     Phases, Modes, Reply, Manifest, Acks, Refusals
<1>10. ASSUME NEW c \in Clients, ResumeOrphan(c) PROVE TypeInv'
  BY <1>10 DEF ResumeOrphan, Orphaned, Executing, Readable, Goto, Phases, Modes
<1>11. ASSUME NEW c \in Clients, RejectOrphan(c) PROVE TypeInv'
  BY <1>11, TxAssumption DEF RejectOrphan, Orphaned, Executing, Tell, Unlock, Return, Phases, Modes, Reply, Acks, Refusals
<1>12. ASSUME NEW c \in Clients, Transform(c) PROVE TypeInv'
  BY <1>12, TxAssumption DEF Transform, Executing, Readable, Goto, Phases, Modes, TxIds
<1>13. ASSUME NEW c \in Clients, TransformRefuses(c) PROVE TypeInv'
  BY <1>13, TxAssumption DEF TransformRefuses, Executing, Tell, Unlock, Return, Phases, Modes, Reply, Acks, Refusals
<1>14. ASSUME NEW c \in Clients, PublishBundle(c) PROVE TypeInv'
  <2>1. NextManifest(c) \in Manifest /\ target[c] \in TxIds
    BY <1>14, NextManifestType DEF PublishBundle
  <2> QED BY <1>14, <2>1 DEF PublishBundle, Goto, Phases
<1>15. ASSUME NEW c \in Clients, FlushBundle(c) PROVE TypeInv'
  BY <1>15 DEF FlushBundle, Goto, Phases
<1>16. ASSUME NEW c \in Clients, ReplaceHead(c) PROVE TypeInv'
  BY <1>16 DEF ReplaceHead, Goto, Phases
<1>17. ASSUME NEW c \in Clients, FlushHead(c) PROVE TypeInv'
  BY <1>17 DEF FlushHead, Goto, Phases
<1>18. ASSUME NEW c \in Clients, Reread(c) PROVE TypeInv'
  BY <1>18 DEF Reread, Materializing, Goto, Readable, Phases, Modes
<1>19. ASSUME NEW c \in Clients, MaterializeFile(c) PROVE TypeInv'
  BY <1>19 DEF MaterializeFile
<1>20. ASSUME NEW c \in Clients, MaterializeStatus(c) PROVE TypeInv'
  <2>1. /\ pc[c] = "files" /\ Unlock(c)
        /\ UNCHANGED <<store, projection, requests>>
        /\ status' \in TxIds \cup {NoTx} /\ faults' \in 0..MaxFaults
        /\ abandoned' = abandoned
    BY <1>20 DEF MaterializeStatus, AfterMaterialize
  <2>2. CASE /\ mode' = [mode EXCEPT ![c] = "commit"] /\ op[c] # NoTx
              /\ mode[c] \in {"open", "import"}
              /\ view' = [view EXCEPT ![c] = NoTx]
              /\ target' = [target EXCEPT ![c] = op[c]]
              /\ at' = [at EXCEPT ![c] = 1]
              /\ Goto(c, "waiting")
              /\ UNCHANGED <<op, req, replies>>
    BY <2>1, <2>2, TxAssumption DEF Unlock, Goto, Phases, Modes, TxIds
  <2>3. CASE Return(c) /\ UNCHANGED replies
    BY <2>1, <2>3, TxAssumption DEF Unlock, Return, Phases, Modes
  <2>4. CASE \E outcome \in {"complete", "pending"} :
                Tell(c, "committed", bundles[view[c]].gen, outcome) /\ Return(c)
    BY <2>1, <2>4, TxAssumption DEF Unlock, Return, Tell, Phases, Modes, Reply, Acks, Manifest
  <2> QED BY <1>20, <2>2, <2>3, <2>4 DEF MaterializeStatus, AfterMaterialize
<1>21. ASSUME NEW c \in Clients, IoError(c) PROVE TypeInv'
  BY <1>21, BoundAssumption, TxAssumption DEF IoError, Fault, FailUnderLock, Tell, Unlock, Return, Phases, Modes, Reply, Acks, Refusals
<1>22. ASSUME NEW c \in Clients, FlushError(c) PROVE TypeInv'
  BY <1>22, BoundAssumption, TxAssumption DEF FlushError, Abandon, Fault, FailUnderLock, Tell, Unlock, Return, Phases, Modes, Reply, Acks, Refusals
<1>23. ASSUME NEW c \in Clients, RereadError(c) PROVE TypeInv'
  BY <1>23, BoundAssumption, TxAssumption DEF RereadError, Fault, Tell, Unlock, Return, Phases, Modes, Reply, Acks, Refusals
<1>24. ASSUME NEW c \in Clients, MaterializeError(c) PROVE TypeInv'
  <2>1. /\ pc[c] = "files" /\ Unlock(c)
        /\ UNCHANGED <<store, projection, requests>>
        /\ status' \in TxIds \cup {NoTx} /\ faults' \in 0..MaxFaults
        /\ abandoned' = abandoned
    BY <1>24, BoundAssumption DEF MaterializeError, Fault, AfterMaterialize
  <2>2. CASE /\ mode' = [mode EXCEPT ![c] = "commit"] /\ op[c] # NoTx
              /\ mode[c] \in {"open", "import"}
              /\ view' = [view EXCEPT ![c] = NoTx]
              /\ target' = [target EXCEPT ![c] = op[c]]
              /\ at' = [at EXCEPT ![c] = 1]
              /\ Goto(c, "waiting")
              /\ UNCHANGED <<op, req, replies>>
    BY <2>1, <2>2, TxAssumption DEF Unlock, Goto, Phases, Modes, TxIds
  <2>3. CASE Return(c) /\ UNCHANGED replies
    BY <2>1, <2>3, TxAssumption DEF Unlock, Return, Phases, Modes
  <2>4. CASE \E outcome \in {"complete", "pending"} :
                Tell(c, "committed", bundles[view[c]].gen, outcome) /\ Return(c)
    BY <2>1, <2>4, TxAssumption DEF Unlock, Return, Tell, Phases, Modes, Reply, Acks, Manifest
  <2> QED BY <1>24, <2>2, <2>3, <2>4 DEF MaterializeError, AfterMaterialize
<1>25. ASSUME NEW c \in Clients, Crash(c) PROVE TypeInv'
  BY <1>25, BoundAssumption, TxAssumption DEF Crash, Abandon, Fault, Unlock, Return, Phases, Modes
<1>26. ASSUME PowerLoss PROVE TypeInv'
  BY <1>26, BoundAssumption, TxAssumption DEF PowerLoss, Fault, Phases, Modes
<1>27. CASE UNCHANGED vars
  BY <1>27 DEF vars, client
<1> QED
  BY <1>1, <1>2, <1>3, <1>4, <1>5, <1>7, <1>8, <1>9, <1>10, <1>11, <1>12, <1>13,
     <1>14, <1>15, <1>16, <1>17, <1>18, <1>19, <1>20, <1>21, <1>22, <1>23, <1>24,
     <1>25, <1>26, <1>27 DEF Next, Work, Fail

(* Whatever fails, crashes or loses power, every variable keeps its type    *)
(* and the device lock is held by exactly the client that is inside.        *)
THEOREM TypeCorrect == Spec => []TypeInv
  BY InitTypeInv, NextTypeInv, PTL DEF Spec

(* _device_lock: the lock of a device is held by exactly the client past  *)
(* it, whatever fails or dies, for any number of clients and requests.     *)
THEOREM LockExclusive == Spec => [](TypeOK /\ LockHeldInside)
  BY TypeCorrect, PTL DEF TypeInv

-----------------------------------------------------------------------------
(***************************************************************************)
(* While the machine keeps power, what was acknowledged stays committed.   *)
(* The argument: bundles never change and never disappear, each carries    *)
(* the transactions of its parent and its own, and what the lock holder is *)
(* about to make the head is a child of the head.                          *)
(***************************************************************************)
BundleInv ==
    /\ head \in Published \cup {NoTx}
    /\ \A t \in Published :
          /\ bundles[t].entries \subseteq Published
          /\ bundles[t].parent \in Published \cup {NoTx}
          /\ bundles[t].entries = Applied(bundles[t].parent) \cup {t}
          /\ t \notin Applied(bundles[t].parent)
          /\ bundles[t].request # NoRequest =>
                /\ bundles[t].parent \in Published
                /\ bundles[t].request.expects \in {AnyContent, bundles[bundles[t].parent].content}

(* What the lock holder has established at each phase. *)
WorkInv ==
    \A c \in Clients :
        /\ pc[c] = "prepared" => /\ view[c] = head
                                 /\ mode[c] = IF view[c] = NoTx THEN "import" ELSE "commit"
                                 /\ mode[c] = "commit" =>
                                       req[c].expects \in {AnyContent, bundles[head].content}
        /\ pc[c] \in {"published", "ready"} =>
               target[c] \in Published /\ bundles[target[c]].parent = head
        /\ pc[c] \in {"replaced", "switched"} => target[c] = head /\ head \in Published
        /\ pc[c] = "files" /\ mode[c] \in {"commit", "resume"} =>
               view[c] = head /\ target[c] = head
        /\ /\ pc[c] \in {"published", "ready", "replaced", "switched", "files"}
           /\ mode[c] \in {"commit", "resume"}
           => bundles[target[c]].request = req[c]

SafeInv == TypeInv /\ BundleInv /\ WorkInv /\ AckedSurvive

(* Initially nothing is published and nobody was told anything. *)
LEMMA InitSafeInv == Init => SafeInv
<1> SUFFICES ASSUME Init PROVE SafeInv
  OBVIOUS
<1>1. TypeInv
  BY InitTypeInv
<1>2. BundleInv /\ WorkInv /\ AckedSurvive
  BY DEF Init, BundleInv, WorkInv, AckedSurvive, Published
<1> QED BY <1>1, <1>2 DEF SafeInv

(* Steps that leave the store and the answers alone. *)
LEMMA QuietStep ==
    ASSUME SafeInv, UNCHANGED <<head, bundles, replies>>
    PROVE  BundleInv' /\ AckedSurvive'
  BY DEF SafeInv, BundleInv, AckedSurvive, Applied, Published

(* A client that is not at work on the device, and the others as they were. *)
LEMMA AsideStep ==
    ASSUME SafeInv, UNCHANGED <<head, bundles>>, NEW c \in Clients,
           pc'[c] \notin {"prepared", "published", "ready", "replaced", "switched"},
           pc'[c] = "files" => mode'[c] = "open",
           \A d \in Clients \ {c} :
               /\ pc'[d] = pc[d] /\ mode'[d] = mode[d] /\ view'[d] = view[d]
               /\ target'[d] = target[d] /\ req'[d] = req[d]
    PROVE  WorkInv'
<1>1. ASSUME NEW d \in Clients \ {c}
      PROVE  /\ pc'[d] = pc[d] /\ mode'[d] = mode[d] /\ view'[d] = view[d]
             /\ target'[d] = target[d] /\ req'[d] = req[d]
  OBVIOUS
<1>2. SUFFICES ASSUME NEW d \in Clients \ {c}
               PROVE  /\ pc'[d] = "prepared" =>
                            /\ view'[d] = head
                            /\ mode'[d] = IF view'[d] = NoTx THEN "import" ELSE "commit"
                            /\ mode'[d] = "commit" =>
                                  req'[d].expects \in {AnyContent, bundles[head].content}
                      /\ pc'[d] \in {"published", "ready"} =>
                            target'[d] \in Published /\ bundles[target'[d]].parent = head
                      /\ pc'[d] \in {"replaced", "switched"} => target'[d] = head /\ head \in Published
                      /\ pc'[d] = "files" /\ mode'[d] \in {"commit", "resume"} =>
                            view'[d] = head /\ target'[d] = head
                      /\ /\ pc'[d] \in {"published", "ready", "replaced", "switched", "files"}
                         /\ mode'[d] \in {"commit", "resume"}
                         => bundles[target'[d]].request = req'[d]
  BY DEF WorkInv, Published
<1> QED BY <1>1 DEF SafeInv, WorkInv

(* A child of the head takes its place: nothing committed is lost. *)
LEMMA HeadStep ==
    ASSUME SafeInv, NEW c \in Clients, ReplaceHead(c)
    PROVE  /\ bundles[head'].parent = head /\ head' \in Published
           /\ Applied(head) \subseteq Applied(head)'
           /\ BundleInv' /\ AckedSurvive'
<1>1. /\ head' \in Published /\ bundles[head'].parent = head
      /\ UNCHANGED <<bundles, replies>>
  BY DEF SafeInv, WorkInv, ReplaceHead
<1>2. Applied(head) \subseteq Applied(head)'
  BY <1>1 DEF SafeInv, BundleInv, Applied, Published
<1>3. BundleInv'
  BY <1>1 DEF SafeInv, BundleInv, Applied, Published
<1>4. AckedSurvive'
  BY <1>1, <1>2 DEF SafeInv, AckedSurvive, Applied, Published
<1> QED BY <1>1, <1>2, <1>3, <1>4

(* A new bundle is a child of the head, and no earlier bundle changes. *)
LEMMA PublishStep ==
    ASSUME SafeInv, NEW c \in Clients, PublishBundle(c)
    PROVE  /\ Published' = Published \cup {target[c]}
           /\ \A t \in Published : bundles'[t] = bundles[t]
           /\ bundles'[target[c]] = NextManifest(c)
           /\ BundleInv' /\ AckedSurvive'
<1>1. /\ Published' = Published \cup {target[c]}
      /\ \A t \in Published : bundles'[t] = bundles[t]
      /\ bundles'[target[c]] = NextManifest(c)
      /\ target[c] \notin Published
      /\ UNCHANGED <<head, replies>>
  BY DEF PublishBundle, Published
<1>2. /\ view[c] = head /\ pc[c] = "prepared"
      /\ NextManifest(c).request # NoRequest =>
            /\ head \in Published
            /\ NextManifest(c).request.expects \in {AnyContent, bundles[head].content}
      /\ NextManifest(c).parent = head
      /\ NextManifest(c).entries = Applied(head) \cup {target[c]}
  BY DEF PublishBundle, SafeInv, WorkInv, NextManifest, TypeInv, TypeOK, ClientInv, Publishing, Modes
<1>3. \A t \in Published \cup {NoTx} : Applied(t)' = Applied(t)
  BY <1>1, TxAssumption DEF Applied, SafeInv, TypeInv, TypeOK, ClientInv, Publishing, PublishBundle
<1>4. BundleInv'
  BY <1>1, <1>2, <1>3 DEF BundleInv, SafeInv, Applied, Published
<1>5. AckedSurvive'
  BY <1>1, <1>3 DEF AckedSurvive, SafeInv, BundleInv, Applied
<1> QED BY <1>1, <1>4, <1>5

(* Every operation and failure keeps the chain of bundles, but for a loss   *)
(* of power: nothing that reached the disk is then undone.                  *)
LEMMA StepSafeInv ==
    ASSUME SafeInv, [Next]_vars, ~PowerLoss
    PROVE  SafeInv'
<1>1. TypeInv'
  BY NextTypeInv DEF SafeInv
<1>2. SUFFICES BundleInv' /\ WorkInv' /\ AckedSurvive'
  BY <1>1 DEF SafeInv
<1> USE DEF TypeInv, TypeOK, LockHeldInside, Inside, SafeInv
<1>3. ASSUME NEW c \in Clients, PublishBundle(c) PROVE BundleInv' /\ WorkInv' /\ AckedSurvive'
  <2>1. ASSUME NEW d \in Clients, d # c
        PROVE pc'[d] = pc[d] /\ pc[d] \notin {"prepared", "published", "ready", "replaced", "switched"}
              /\ (pc[d] = "files" => mode[d] = "open")
    BY <1>3, <2>1 DEF PublishBundle, Goto
  <2>2. pc'[c] = "published" /\ view[c] = head /\ head' = head /\ target' = target
        /\ req' = req /\ mode' = mode /\ bundles'[target[c]] = NextManifest(c)
        /\ target[c] \in Published' /\ view' = view
    <3>1. target[c] \in Published' /\ bundles'[target[c]] = NextManifest(c)
      BY <1>3, PublishStep
    <3>2. pc'[c] = "published" /\ UNCHANGED <<head, target, req, mode, view>>
      BY <1>3 DEF PublishBundle, Goto
    <3>3. view[c] = head
      BY <1>3 DEF PublishBundle, WorkInv
    <3> QED BY <3>1, <3>2, <3>3
  <2>3. NextManifest(c).parent = head
    BY <2>2 DEF NextManifest
  <2>4. mode[c] \in {"commit", "resume"} => NextManifest(c).request = req[c]
    BY <1>3, <2>2 DEF NextManifest, WorkInv, PublishBundle
  <2>5. WorkInv'
    BY <2>1, <2>2, <2>3, <2>4 DEF WorkInv
  <2> QED BY <2>5, <1>3, PublishStep
<1>4. ASSUME NEW c \in Clients, ReplaceHead(c) PROVE BundleInv' /\ WorkInv' /\ AckedSurvive'
  <2>1. WorkInv'
    BY <1>4, HeadStep DEF WorkInv, ReplaceHead, Goto, Published
  <2> QED BY <2>1, <1>4, HeadStep
<1>5. ASSUME NEW c \in Clients, Replay(c) PROVE BundleInv' /\ WorkInv' /\ AckedSurvive'
  <2>1. WorkInv'
    BY <1>5 DEF WorkInv, Replay, Return, store, Published
  <2>2. BundleInv'
    BY <1>5 DEF Replay, BundleInv, Applied, store, Published
  <2>3. AckedSurvive'
    BY <1>5 DEF Replay, Executing, Tell, AckedSurvive, Applied, store, Published, ClientInv, Acks
  <2> QED BY <2>1, <2>2, <2>3
<1>6. ASSUME NEW c \in Clients, NEW o \in Ops, NEW r \in Requests,
            Submit(c, o, r) PROVE BundleInv' /\ WorkInv' /\ AckedSurvive'
  <2>1. UNCHANGED <<head, bundles, replies>>
    BY <1>6 DEF Submit, store
  <2>2. WorkInv'
    BY <1>6, <2>1, TxAssumption DEF WorkInv, Submit, Goto, Published
  <2> QED BY <2>1, <2>2, QuietStep
<1>7. ASSUME NEW c \in Clients, Read(c) PROVE BundleInv' /\ WorkInv' /\ AckedSurvive'
  <2>1. UNCHANGED <<head, bundles, replies>>
    BY <1>7 DEF Read, store
  <2>2. WorkInv'
    BY <1>7, <2>1, TxAssumption DEF WorkInv, Read, Goto, Published
  <2> QED BY <2>1, <2>2, QuietStep
<1>8. ASSUME NEW c \in Clients, Open(c) PROVE BundleInv' /\ WorkInv' /\ AckedSurvive'
  <2>1. UNCHANGED <<head, bundles, replies>>
    BY <1>8 DEF Open, store
  <2>2. WorkInv'
    <3>1. ASSUME NEW d \in Clients, d # c
          PROVE pc'[d] = pc[d] /\ view'[d] = view[d] /\ mode'[d] = mode[d] /\ req'[d] = req[d]
                /\ target'[d] = target[d]
      BY <1>8, <3>1 DEF Open, Goto, Return, Materializing
    <3>2. \/ pc'[c] \in {"waiting", "idle"}
          \/ pc'[c] = "files" /\ mode'[c] = "open"
      BY <1>8 DEF Open, Goto, Return, Materializing
    <3> HIDE DEF TypeInv, TypeOK, LockHeldInside, Inside, SafeInv
    <3> QED BY <2>1, <3>1, <3>2, AsideStep
  <2> QED BY <2>1, <2>2, QuietStep
<1>9. ASSUME NEW c \in Clients, Lock(c) PROVE BundleInv' /\ WorkInv' /\ AckedSurvive'
  <2>1. UNCHANGED <<head, bundles, replies>>
    BY <1>9 DEF Lock, store
  <2>2. WorkInv'
    BY <1>9, <2>1, TxAssumption DEF WorkInv, Lock, Goto, Published
  <2> QED BY <2>1, <2>2, QuietStep
<1>10. ASSUME NEW c \in Clients, LockTimeout(c) PROVE BundleInv' /\ WorkInv' /\ AckedSurvive'
  <2>1. UNCHANGED <<head, bundles, replies>>
    BY <1>10 DEF LockTimeout, store
  <2>2. WorkInv'
    BY <1>10, <2>1, TxAssumption DEF WorkInv, LockTimeout, Return, Published
  <2> QED BY <2>1, <2>2, QuietStep
<1>12. ASSUME NEW c \in Clients, ImportFound(c) PROVE BundleInv' /\ WorkInv' /\ AckedSurvive'
  <2>1. UNCHANGED <<head, bundles, replies>>
    BY <1>12 DEF ImportFound, store
  <2>2. WorkInv'
    BY <1>12, <2>1, TxAssumption DEF WorkInv, ImportFound, Materializing, Goto, Published
  <2> QED BY <2>1, <2>2, QuietStep
<1>13. ASSUME NEW c \in Clients, ImportPrepare(c) PROVE BundleInv' /\ WorkInv' /\ AckedSurvive'
  <2>1. UNCHANGED <<head, bundles, replies>>
    BY <1>13 DEF ImportPrepare, store
  <2>2. WorkInv'
    BY <1>13, <2>1, TxAssumption DEF WorkInv, ImportPrepare, Goto, ClientInv, Published
  <2> QED BY <2>1, <2>2, QuietStep
<1>14. ASSUME NEW c \in Clients, ResumeOrphan(c) PROVE BundleInv' /\ WorkInv' /\ AckedSurvive'
  <2>1. UNCHANGED <<head, bundles, replies>>
    BY <1>14 DEF ResumeOrphan, store
  <2>2. WorkInv'
    BY <1>14, <2>1, TxAssumption DEF WorkInv, ResumeOrphan, Orphaned, Executing, Resumable, Readable, Goto, ClientInv, Published
  <2> QED BY <2>1, <2>2, QuietStep
<1>15. ASSUME NEW c \in Clients, Transform(c) PROVE BundleInv' /\ WorkInv' /\ AckedSurvive'
  <2>1. UNCHANGED <<head, bundles, replies>>
    BY <1>15 DEF Transform, store
  <2>2. WorkInv'
    BY <1>15, <2>1, TxAssumption DEF WorkInv, Transform, Executing, Readable, ExpectationHolds, Goto, Applied, Published
  <2> QED BY <2>1, <2>2, QuietStep
<1>16. ASSUME NEW c \in Clients, FlushBundle(c) PROVE BundleInv' /\ WorkInv' /\ AckedSurvive'
  <2>1. UNCHANGED <<head, bundles, replies>>
    BY <1>16 DEF FlushBundle, store
  <2>2. WorkInv'
    BY <1>16, <2>1, TxAssumption DEF WorkInv, FlushBundle, Goto, Published
  <2> QED BY <2>1, <2>2, QuietStep
<1>17. ASSUME NEW c \in Clients, FlushHead(c) PROVE BundleInv' /\ WorkInv' /\ AckedSurvive'
  <2>1. UNCHANGED <<head, bundles, replies>>
    BY <1>17 DEF FlushHead, store
  <2>2. WorkInv'
    BY <1>17, <2>1, TxAssumption DEF WorkInv, FlushHead, Goto, Published
  <2> QED BY <2>1, <2>2, QuietStep
<1>18. ASSUME NEW c \in Clients, Reread(c) PROVE BundleInv' /\ WorkInv' /\ AckedSurvive'
  <2>1. UNCHANGED <<head, bundles, replies>>
    BY <1>18 DEF Reread, store
  <2>2. WorkInv'
    BY <1>18, <2>1, TxAssumption DEF WorkInv, Reread, Materializing, Goto, Published
  <2> QED BY <2>1, <2>2, QuietStep
<1>19. ASSUME NEW c \in Clients, MaterializeFile(c) PROVE BundleInv' /\ WorkInv' /\ AckedSurvive'
  <2>1. UNCHANGED <<head, bundles, replies>>
    BY <1>19 DEF MaterializeFile, store
  <2>2. WorkInv'
    BY <1>19, <2>1, TxAssumption DEF WorkInv, MaterializeFile, Published
  <2> QED BY <2>1, <2>2, QuietStep
<1>20. ASSUME NEW c \in Clients, Crash(c) PROVE BundleInv' /\ WorkInv' /\ AckedSurvive'
  <2>1. UNCHANGED <<head, bundles, replies>>
    BY <1>20 DEF Crash, store
  <2>2. WorkInv'
    BY <1>20, <2>1, TxAssumption DEF WorkInv, Crash, Return, Published
  <2> QED BY <2>1, <2>2, QuietStep
<1>21. ASSUME NEW c \in Clients, RejectOrphan(c) PROVE BundleInv' /\ WorkInv' /\ AckedSurvive'
  <2>1. UNCHANGED <<head, bundles>> /\ \A r \in replies' : r.kind \in Acks => r \in replies
    BY <1>21 DEF RejectOrphan, Tell, store, Acks
  <2>2. WorkInv'
    BY <1>21, <2>1 DEF WorkInv, RejectOrphan, Tell, Return, Published
  <2>3. BundleInv' /\ AckedSurvive'
    BY <2>1 DEF BundleInv, AckedSurvive, Applied, Published
  <2> QED BY <2>2, <2>3
<1>22. ASSUME NEW c \in Clients, TransformRefuses(c) PROVE BundleInv' /\ WorkInv' /\ AckedSurvive'
  <2>1. UNCHANGED <<head, bundles>> /\ \A r \in replies' : r.kind \in Acks => r \in replies
    BY <1>22 DEF TransformRefuses, Tell, store, Acks
  <2>2. WorkInv'
    BY <1>22, <2>1 DEF WorkInv, TransformRefuses, Tell, Return, Published
  <2>3. BundleInv' /\ AckedSurvive'
    BY <2>1 DEF BundleInv, AckedSurvive, Applied, Published
  <2> QED BY <2>2, <2>3
<1>23. ASSUME NEW c \in Clients, IoError(c) PROVE BundleInv' /\ WorkInv' /\ AckedSurvive'
  <2>1. UNCHANGED <<head, bundles>> /\ \A r \in replies' : r.kind \in Acks => r \in replies
    BY <1>23 DEF IoError, FailUnderLock, Tell, store, Acks
  <2>2. WorkInv'
    BY <1>23, <2>1 DEF WorkInv, IoError, FailUnderLock, Tell, Return, Published
  <2>3. BundleInv' /\ AckedSurvive'
    BY <2>1 DEF BundleInv, AckedSurvive, Applied, Published
  <2> QED BY <2>2, <2>3
<1>24. ASSUME NEW c \in Clients, FlushError(c) PROVE BundleInv' /\ WorkInv' /\ AckedSurvive'
  <2>1. UNCHANGED <<head, bundles>> /\ \A r \in replies' : r.kind \in Acks => r \in replies
    BY <1>24 DEF FlushError, FailUnderLock, Tell, store, Acks
  <2>2. WorkInv'
    BY <1>24, <2>1 DEF WorkInv, FlushError, FailUnderLock, Tell, Return, Published
  <2>3. BundleInv' /\ AckedSurvive'
    BY <2>1 DEF BundleInv, AckedSurvive, Applied, Published
  <2> QED BY <2>2, <2>3
<1>25. ASSUME NEW c \in Clients, RereadError(c) PROVE BundleInv' /\ WorkInv' /\ AckedSurvive'
  <2>1. UNCHANGED <<head, bundles>> /\ \A r \in replies' : r.kind \in Acks => r \in replies
    BY <1>25 DEF RereadError, Tell, store, Acks
  <2>2. WorkInv'
    BY <1>25, <2>1 DEF WorkInv, RereadError, Tell, Return, Published
  <2>3. BundleInv' /\ AckedSurvive'
    BY <2>1 DEF BundleInv, AckedSurvive, Applied, Published
  <2> QED BY <2>2, <2>3
<1>26. ASSUME NEW c \in Clients, MaterializeStatus(c) PROVE BundleInv' /\ WorkInv' /\ AckedSurvive'
  <2>1. UNCHANGED <<head, bundles>> /\ pc[c] = "files" /\ pc'[c] # "files"
    BY <1>26 DEF MaterializeStatus, AfterMaterialize, Goto, Return, store
  <2>2. WorkInv'
    <3>1. pc'[c] \in {"waiting", "idle"}
      BY <1>26 DEF MaterializeStatus, AfterMaterialize, Goto, Return
    <3>2. ASSUME NEW d \in Clients \ {c}
          PROVE  /\ pc'[d] = pc[d] /\ mode'[d] = mode[d] /\ view'[d] = view[d]
                 /\ target'[d] = target[d] /\ req'[d] = req[d]
      BY <1>26, <3>2 DEF MaterializeStatus, AfterMaterialize, Goto, Return
    <3> HIDE DEF TypeInv, TypeOK, LockHeldInside, Inside, SafeInv
    <3> QED BY <2>1, <3>1, <3>2, AsideStep
  <2>3. CASE replies' = replies
    BY <2>1, <2>2, <2>3, QuietStep
  <2>4. CASE mode[c] \in {"commit", "resume"} /\ Tell(c, "committed", bundles[view[c]].gen, "complete")
    BY <2>1, <2>2, <2>4 DEF WorkInv, BundleInv, AckedSurvive, Tell, Applied, Published, Acks, ClientInv
  <2> QED BY <1>26, <2>3, <2>4 DEF MaterializeStatus, AfterMaterialize
<1>27. ASSUME NEW c \in Clients, MaterializeError(c) PROVE BundleInv' /\ WorkInv' /\ AckedSurvive'
  <2>1. UNCHANGED <<head, bundles>> /\ pc[c] = "files" /\ pc'[c] # "files"
    BY <1>27 DEF MaterializeError, AfterMaterialize, Goto, Return, store
  <2>2. WorkInv'
    <3>1. pc'[c] \in {"waiting", "idle"}
      BY <1>27 DEF MaterializeError, AfterMaterialize, Goto, Return
    <3>2. ASSUME NEW d \in Clients \ {c}
          PROVE  /\ pc'[d] = pc[d] /\ mode'[d] = mode[d] /\ view'[d] = view[d]
                 /\ target'[d] = target[d] /\ req'[d] = req[d]
      BY <1>27, <3>2 DEF MaterializeError, AfterMaterialize, Goto, Return
    <3> HIDE DEF TypeInv, TypeOK, LockHeldInside, Inside, SafeInv
    <3> QED BY <2>1, <3>1, <3>2, AsideStep
  <2>3. CASE replies' = replies
    BY <2>1, <2>2, <2>3, QuietStep
  <2>4. CASE mode[c] \in {"commit", "resume"} /\ Tell(c, "committed", bundles[view[c]].gen, "pending")
    BY <2>1, <2>2, <2>4 DEF WorkInv, BundleInv, AckedSurvive, Tell, Applied, Published, Acks, ClientInv
  <2> QED BY <1>27, <2>3, <2>4 DEF MaterializeError, AfterMaterialize
<1>28. CASE UNCHANGED vars
  BY <1>28, QuietStep DEF vars, client, store, WorkInv, Published
<1> QED
  BY <1>3, <1>4, <1>5, <1>6, <1>7, <1>8, <1>9, <1>10, <1>12, <1>13, <1>14, <1>15, <1>16, <1>17, <1>18, <1>19, <1>20, <1>21, <1>22, <1>23, <1>24, <1>25, <1>26, <1>27, <1>28 DEF Next, Work, Fail

LEMMA NextSafeInv ==
    ASSUME "power" \notin Faults, SafeInv, [Next]_vars
    PROVE  SafeInv'
<1>1. ~PowerLoss
  BY DEF PowerLoss, Fault
<1> QED BY <1>1, StepSafeInv

(* What a caller was told is committed stays committed. *)
THEOREM AcknowledgedSurvive ==
    ASSUME "power" \notin Faults PROVE Spec => []AckedSurvive
<1>1. SafeInv /\ [Next]_vars => SafeInv'
  BY NextSafeInv
<1> QED BY <1>1, InitSafeInv, PTL DEF Spec, SafeInv

(* A committed request replaced exactly the content it expected. *)
THEOREM NoUpdateLost ==
    ASSUME "power" \notin Faults PROVE Spec => []NothingOverwritten
<1>1. SafeInv /\ [Next]_vars => SafeInv'
  BY NextSafeInv
<1>2. SafeInv => NothingOverwritten
  BY DEF SafeInv, BundleInv, NothingOverwritten, Applied
<1> QED BY <1>1, <1>2, InitSafeInv, PTL DEF Spec

(* Readers without the lock only ever see the head move to its child. *)
LEMMA OnlyReplaceMovesHead ==
    ASSUME Next PROVE head' = head \/ PowerLoss \/ \E c \in Clients : ReplaceHead(c)
<1>1. ASSUME NEW c \in Clients, NEW o \in Ops, NEW r \in Requests,
             Submit(c, o, r)
      PROVE head' = head
  BY <1>1 DEF Submit, store
<1>4. ASSUME NEW c \in Clients, Read(c) PROVE head' = head
  BY <1>4 DEF Read, store
<1>2. ASSUME NEW c \in Clients, Work(c), ~ReplaceHead(c) PROVE head' = head
  BY <1>2 DEF Work, Open, Lock, LockTimeout, ImportFound, ImportPrepare, Replay,
     ResumeOrphan, RejectOrphan, Transform, TransformRefuses, PublishBundle, FlushBundle,
     FlushHead, Reread, MaterializeFile, MaterializeStatus, AfterMaterialize, store
<1>3. ASSUME NEW c \in Clients, Fail(c) PROVE head' = head
  BY <1>3 DEF Fail, IoError, FlushError, FailUnderLock, RereadError, MaterializeError,
     AfterMaterialize, Crash, store
<1> QED BY <1>1, <1>2, <1>3, <1>4 DEF Next

(* _switch_head: whoever reads the head without the lock sees it move only  *)
(* to the next generation, whose parent is the head it replaces.            *)
THEOREM HeadMovesToChild ==
    ASSUME "power" \notin Faults PROVE Spec => HeadAdvances
<1>1. SafeInv /\ [Next]_vars => SafeInv'
  BY NextSafeInv
<1>2. SafeInv /\ [Next]_vars => [head' # head => bundles'[head'].parent = head]_vars
  <2> SUFFICES ASSUME SafeInv, Next, head' # head PROVE bundles'[head'].parent = head
    BY DEF vars, store
  <2>1. PICK c \in Clients : ReplaceHead(c)
    BY OnlyReplaceMovesHead DEF PowerLoss, Fault
  <2> QED BY <2>1, HeadStep DEF ReplaceHead
<1> QED BY <1>1, <1>2, InitSafeInv, PTL DEF Spec, HeadAdvances

-----------------------------------------------------------------------------
(***************************************************************************)
(* What the steps do that leave the store alone: they answer a caller, or  *)
(* they move a client.                                                     *)
(***************************************************************************)
Changes(c) == PublishBundle(c) \/ FlushBundle(c) \/ ReplaceHead(c) \/ FlushHead(c)

(* Why a request was refused: its id belongs to another request, or to an   *)
(* orphan whose parent is not the head any more.                            *)
Refused(r) ==
    /\ r.tx \in Published
    /\ \/ bundles[r.tx].request # r.request
       \/ r.tx \notin Applied(head) /\ bundles[r.tx].parent # head

(* At most one answer is given, by the client that is inside. *)
Answers(c) ==
    \/ replies' = replies
    \/ \E r \in Reply :
          /\ replies' = replies \cup {r}
          /\ r.kind = "conflict" => Refused(r)
          /\ r.kind \in Acks => Inside(c) /\ pc[c] \in {"holding", "files"}

(* A client takes up an orphan, or it leaves "published" and "replaced" by  *)
(* a flush, a failure of the flush or a crash.                              *)
Moves(c) ==
    /\ \A d \in Clients \ {c} : pc'[d] = pc[d] /\ target'[d] = target[d]
    /\ pc'[c] \notin {"published", "replaced"}
    /\ pc[c] \in {"published", "replaced"} => {"flush", "crash"} \cap Faults # {}
    /\ pc'[c] = "ready" => /\ target'[c] = target[c] /\ target[c] \in Published
                           /\ pc[c] = "holding"

LEMMA Told ==
    ASSUME NEW c \in Clients, NEW kind, NEW gen, NEW outcome, Tell(c, kind, gen, outcome),
           replies' \subseteq Reply
    PROVE  \E r \in Reply : replies' = replies \cup {r} /\ r.kind = kind
<1> DEFINE r == [tx |-> target[c], request |-> req[c], kind |-> kind, gen |-> gen,
                 projection |-> outcome]
<1>1. replies' = replies \cup {r}
  BY DEF Tell
<1>2. r.kind = kind
  OBVIOUS
<1> HIDE DEF r
<1> QED BY <1>1, <1>2

LEMMA OtherSteps ==
    ASSUME SafeInv, Next, ~PowerLoss, \A c \in Clients : ~Changes(c)
    PROVE  UNCHANGED store /\ \E c \in Clients : Answers(c) /\ Moves(c)
<1>a. replies' \subseteq Reply
  BY StepSafeInv DEF SafeInv, TypeInv, TypeOK
<1>b. /\ pc \in [Clients -> Phases] /\ target \in [Clients -> TxIds \cup {NoTx}]
      /\ ClientInv /\ BundleInv
  BY DEF SafeInv, TypeInv, TypeOK
<1> USE <1>b DEF store
<1>1. ASSUME NEW c \in Clients, NEW o \in Ops, NEW r \in Requests, Submit(c, o, r)
      PROVE UNCHANGED store /\ Answers(c) /\ Moves(c)
  BY <1>1 DEF Submit, Goto, Answers, Moves
<1>2. ASSUME NEW c \in Clients, Read(c) \/ Open(c) \/ Lock(c) \/ LockTimeout(c)
      PROVE UNCHANGED store /\ Answers(c) /\ Moves(c)
  BY <1>2 DEF Read, Open, Lock, LockTimeout, Return, Materializing, Goto, Answers, Moves
<1>3. ASSUME NEW c \in Clients, ImportFound(c) \/ ImportPrepare(c) \/ Transform(c)
      PROVE UNCHANGED store /\ Answers(c) /\ Moves(c)
  BY <1>3 DEF ImportFound, ImportPrepare, Transform, Executing, Materializing, Goto, Answers, Moves
<1>4. ASSUME NEW c \in Clients, ResumeOrphan(c)
      PROVE UNCHANGED store /\ Answers(c) /\ Moves(c)
  BY <1>4 DEF ResumeOrphan, Orphaned, Executing, ClientInv, Goto, Answers, Moves
<1>5. ASSUME NEW c \in Clients, Reread(c) \/ MaterializeFile(c)
      PROVE UNCHANGED store /\ Answers(c) /\ Moves(c)
  BY <1>5 DEF Reread, MaterializeFile, Materializing, Goto, Answers, Moves
<1>6. ASSUME NEW c \in Clients, Replay(c) \/ RejectOrphan(c) \/ TransformRefuses(c)
      PROVE UNCHANGED store /\ Answers(c) /\ Moves(c)
  <2>1. UNCHANGED store /\ Moves(c) /\ pc[c] = "holding" /\ Inside(c)
    BY <1>6 DEF Replay, RejectOrphan, TransformRefuses, Orphaned, Executing, Return, Moves, Inside
  <2>2. target[c] = op[c] /\ (Applied(head) \subseteq Published)
    BY <1>6 DEF Replay, RejectOrphan, TransformRefuses, Orphaned, Executing, Readable, Applied, ClientInv
  <2>3. PICK kind, gen, outcome :
           /\ Tell(c, kind, gen, outcome)
           /\ kind = "conflict" =>
                 /\ op[c] \in Published
                 /\ \/ bundles[op[c]].request # req[c]
                    \/ op[c] \notin Applied(head) /\ bundles[op[c]].parent # head
    <3>1. CASE Replay(c)
      BY <2>2, <3>1 DEF Replay
    <3>2. CASE RejectOrphan(c)
      BY <3>2 DEF RejectOrphan, Orphaned, Resumable
    <3>3. CASE TransformRefuses(c)
      BY <3>3 DEF TransformRefuses
    <3> QED BY <1>6, <3>1, <3>2, <3>3
  <2> DEFINE r == [tx |-> target[c], request |-> req[c], kind |-> kind, gen |-> gen,
                   projection |-> outcome]
  <2>4. replies' = replies \cup {r} /\ r \in Reply
    BY <2>3, <1>a DEF Tell
  <2>5. r.kind = "conflict" => Refused(r)
    BY <2>2, <2>3 DEF Refused
  <2> QED BY <2>1, <2>4, <2>5 DEF Answers
<1>7. ASSUME NEW c \in Clients, IoError(c) \/ FlushError(c) \/ RereadError(c)
      PROVE UNCHANGED store /\ Answers(c) /\ Moves(c)
  <2>1. UNCHANGED store /\ Moves(c)
    BY <1>7 DEF IoError, FlushError, RereadError, FailUnderLock, Fault, Return, Moves
  <2>2. replies' = replies \/ Tell(c, "aborted", 0, "pending")
    BY <1>7 DEF IoError, FlushError, RereadError, FailUnderLock
  <2>3. replies' = replies \/ \E r \in Reply : replies' = replies \cup {r} /\ r.kind = "aborted"
    BY <2>2, <1>a, Told
  <2> QED BY <2>1, <2>3 DEF Answers, Acks
<1>8. ASSUME NEW c \in Clients, MaterializeStatus(c) \/ MaterializeError(c)
      PROVE UNCHANGED store /\ Answers(c) /\ Moves(c)
  <2>1. UNCHANGED store /\ Moves(c) /\ pc[c] = "files"
    BY <1>8 DEF MaterializeStatus, MaterializeError, AfterMaterialize, Return, Goto, Moves
  <2>2. \/ replies' = replies
        \/ /\ mode[c] \in {"commit", "resume"}
           /\ \E outcome : Tell(c, "committed", bundles[view[c]].gen, outcome)
    BY <1>8 DEF MaterializeStatus, MaterializeError, AfterMaterialize
  <2>3. \/ replies' = replies
        \/ /\ mode[c] \in {"commit", "resume"}
           /\ \E r \in Reply : replies' = replies \cup {r} /\ r.kind = "committed"
    BY <2>2, <1>a, Told
  <2> QED BY <2>1, <2>3 DEF Answers, Inside
<1>9. ASSUME NEW c \in Clients, Crash(c)
      PROVE UNCHANGED store /\ Answers(c) /\ Moves(c)
  BY <1>9 DEF Crash, Fault, Return, Answers, Moves
<1> QED BY <1>1, <1>2, <1>3, <1>4, <1>5, <1>6, <1>7, <1>8, <1>9 DEF Next, Work, Fail, Changes

-----------------------------------------------------------------------------
(***************************************************************************)
(* A refusal is for good: a bundle keeps its request, the head never goes  *)
(* back to a parent it has left, and only a child of it is ever resumed.   *)
(***************************************************************************)
ConflictInv ==
    /\ \A r \in replies : r.kind = "conflict" => Refused(r)
    /\ \A t \in Published : bundles[t].parent \in Applied(head) \cup {NoTx}

LEMMA PublishKeepsHead ==
    ASSUME SafeInv, NEW c \in Clients, PublishBundle(c)
    PROVE  /\ head' = head /\ head \in Published \cup {NoTx} /\ replies' = replies
           /\ \A t \in Published \cup {NoTx} : Applied(t)' = Applied(t)
           /\ NextManifest(c).parent = head
           /\ NextManifest(c).entries = Applied(head) \cup {target[c]}
           /\ target[c] \notin Published /\ target[c] \in TxIds
<1>1. /\ head' = head /\ replies' = replies /\ head \in Published \cup {NoTx}
      /\ target[c] \notin Published /\ target[c] \in TxIds /\ view[c] = head
  BY DEF PublishBundle, SafeInv, TypeInv, TypeOK, ClientInv, Publishing, BundleInv, WorkInv
<1>2. NoTx \notin Published \cup {target[c]}
  BY <1>1, TxAssumption DEF SafeInv, TypeInv, TypeOK
<1>3. \A t \in Published \cup {NoTx} : Applied(t)' = Applied(t)
  BY <1>2, PublishStep DEF Applied
<1> QED BY <1>1, <1>3 DEF NextManifest

LEMMA NextConflictInv ==
    ASSUME SafeInv, ConflictInv, [Next]_vars, ~PowerLoss
    PROVE  ConflictInv'
<1>1. CASE UNCHANGED <<head, bundles, replies>>
  BY <1>1 DEF ConflictInv, Refused, Applied, Published
<1>2. ASSUME NEW c \in Clients, PublishBundle(c) PROVE ConflictInv'
  <2>1. /\ Published' = Published \cup {target[c]}
        /\ \A t \in Published : bundles'[t] = bundles[t]
        /\ bundles'[target[c]] = NextManifest(c)
    BY <1>2, PublishStep
  <2>2. Applied(head)' = Applied(head) /\ head' = head /\ replies' = replies
    BY <1>2, PublishKeepsHead
  <2>3. head \in Applied(head) \cup {NoTx}
    BY DEF SafeInv, BundleInv, Applied
  <2>4. \A r \in replies' : r.kind = "conflict" => Refused(r)'
    BY <2>1, <2>2 DEF ConflictInv, Refused
  <2>5. \A t \in Published' : bundles'[t].parent \in Applied(head)' \cup {NoTx}
    BY <2>1, <2>2, <2>3, <1>2, PublishKeepsHead DEF ConflictInv
  <2> QED BY <2>4, <2>5 DEF ConflictInv
<1>3. ASSUME NEW c \in Clients, ReplaceHead(c) PROVE ConflictInv'
  <2>1. /\ bundles[head'].parent = head /\ head' \in Published
        /\ bundles' = bundles /\ replies' = replies
    BY <1>3, HeadStep DEF ReplaceHead
  <2>2. Applied(head)' = Applied(head) \cup {head'} /\ head' \notin Applied(head)
    BY <2>1 DEF SafeInv, BundleInv, Applied, Published
  <2>3. head' # NoTx
    BY <2>1, TxAssumption DEF SafeInv, TypeInv, TypeOK
  <2>4. \A r \in replies' : r.kind = "conflict" => Refused(r)'
    BY <2>1, <2>2, <2>3 DEF ConflictInv, Refused, Published
  <2> QED BY <2>1, <2>2, <2>4 DEF ConflictInv, Published
<1>4. CASE /\ Next /\ \A c \in Clients : ~Changes(c)
  <2>1. PICK c \in Clients : UNCHANGED store /\ Answers(c)
    BY <1>4, OtherSteps
  <2>2. \A r \in replies' : r.kind = "conflict" => Refused(r)
    BY <2>1 DEF Answers, ConflictInv
  <2> QED BY <2>1, <2>2 DEF ConflictInv, Refused, Applied, Published, store
<1>5. ASSUME NEW c \in Clients, FlushBundle(c) \/ FlushHead(c) PROVE ConflictInv'
  BY <1>1, <1>5 DEF FlushBundle, FlushHead
<1> QED BY <1>1, <1>2, <1>3, <1>4, <1>5 DEF Changes, vars, store

(* _replay and _resume_or_reject_orphan: an operation id that was refused   *)
(* for a request never acknowledges it, whatever is retried or resumed.     *)
THEOREM RefusalStands ==
    ASSUME "power" \notin Faults PROVE Spec => []ConflictIsFinal
<1>1. Init => SafeInv /\ ConflictInv
  BY InitSafeInv DEF Init, ConflictInv, Published
<1>2. (SafeInv /\ ConflictInv) /\ [Next]_vars => (SafeInv /\ ConflictInv)'
  BY NextSafeInv, NextConflictInv DEF PowerLoss, Fault
<1>3. SafeInv /\ ConflictInv => ConflictIsFinal
  <2> SUFFICES ASSUME SafeInv, ConflictInv, NEW r \in replies, NEW s \in replies,
                      r.kind = "conflict", s.kind \in Acks, r.tx = s.tx, r.request = s.request
               PROVE  FALSE
    BY DEF ConflictIsFinal
  <2>1. s.tx \in Applied(head) /\ bundles[s.tx].request = s.request
    BY DEF SafeInv, AckedSurvive
  <2>2. Refused(r)
    BY DEF ConflictInv
  <2> QED BY <2>1, <2>2 DEF Refused
<1> QED BY <1>1, <1>2, <1>3, PTL DEF Spec

-----------------------------------------------------------------------------
(***************************************************************************)
(* Behind the files is one ledger.  The generation of a bundle counts the  *)
(* transactions it stands on, so that the head is the latest of them.      *)
(***************************************************************************)
Counted(t) ==
    /\ IsFiniteSet(bundles[t].entries)
    /\ Cardinality(bundles[t].entries) = bundles[t].gen + 1
    /\ \A u \in bundles[t].entries \ {t} : bundles[u].gen < bundles[t].gen

(* It says what its request, or the import, makes of the content it stands on. *)
Founded(t) ==
    LET m == bundles[t] IN
    IF m.parent = NoTx THEN m.request = NoRequest /\ m.content = Legacy
    ELSE /\ m.request \in Requests
         /\ m.content = IF m.request.writes = AnyContent THEN bundles[m.parent].content
                        ELSE m.request.writes

CountInv == \A t \in Published : Counted(t) /\ Founded(t)

LEMMA NextCountInv ==
    ASSUME SafeInv, CountInv, [Next]_vars, ~PowerLoss
    PROVE  CountInv'
<1>1. CASE bundles' = bundles
  BY <1>1 DEF CountInv, Counted, Founded, Published
<1>2. ASSUME NEW c \in Clients, PublishBundle(c) PROVE CountInv'
  <2> DEFINE t == target[c]
             N == NextManifest(c)
  <2>1. /\ Published' = Published \cup {t} /\ bundles'[t] = N
        /\ \A u \in Published : bundles'[u] = bundles[u]
    BY <1>2, PublishStep
  <2>2. /\ N.entries = Applied(head) \cup {t} /\ t \notin Published /\ view[c] = head
        /\ head \in Published \cup {NoTx} /\ NoTx \notin Published
        /\ N.gen = IF head = NoTx THEN 0 ELSE bundles[head].gen + 1
    BY <1>2, PublishKeepsHead, TxAssumption
    DEF PublishBundle, SafeInv, WorkInv, NextManifest, TypeInv, TypeOK
  <2>3. \A u \in Published : bundles[u].entries \subseteq Published /\ bundles[u].gen \in Nat
    BY DEF SafeInv, BundleInv, TypeInv, TypeOK, Manifest
  <2>4. \A u \in Published : Counted(u)' /\ Founded(u)'
    <3>1. \A u \in Published : bundles[u].parent \in Published \cup {NoTx}
      BY DEF SafeInv, BundleInv
    <3> QED BY <2>1, <2>2, <2>3, <3>1 DEF CountInv, Counted, Founded
  <2>5. /\ IsFiniteSet(N.entries) /\ Cardinality(N.entries) = N.gen + 1
        /\ \A u \in N.entries \ {t} : bundles[u].gen < N.gen
    <3> HIDE DEF N, t
    <3>1. CASE head = NoTx
      <4>1. Applied(head) = {} /\ N.gen = 0 /\ N.entries = {} \cup {t}
        BY <2>2, <3>1 DEF Applied
      <4>2. IsFiniteSet({}) /\ Cardinality({}) = 0
        BY FS_EmptySet
      <4>3. IsFiniteSet({} \cup {t}) /\ Cardinality({} \cup {t}) = 0 + 1
        BY <4>2, FS_AddElement
      <4> QED BY <4>1, <4>3
    <3>2. CASE head \in Published
      <4>1. /\ Applied(head) = bundles[head].entries /\ t \notin Applied(head)
            /\ IsFiniteSet(Applied(head)) /\ Cardinality(Applied(head)) = bundles[head].gen + 1
        BY <2>2, <2>3, <3>2 DEF Applied, CountInv, Counted
      <4>2. IsFiniteSet(N.entries) /\ Cardinality(N.entries) = bundles[head].gen + 2
        <5>1. /\ IsFiniteSet(Applied(head) \cup {t})
              /\ Cardinality(Applied(head) \cup {t}) = Cardinality(Applied(head)) + 1
          BY <4>1, FS_AddElement
        <5> QED BY <5>1, <2>2, <2>3, <3>2, <4>1
      <4>3. \A u \in Applied(head) : bundles[u].gen < bundles[head].gen + 1
        BY <2>3, <3>2, <4>1 DEF CountInv, Counted
      <4> QED BY <2>2, <2>3, <3>2, <4>2, <4>3
    <3> QED BY <2>2, <3>1, <3>2
  <2>6. \A u \in N.entries \ {t} : u \in Published
    BY <2>2, <2>3 DEF Applied
  <2>7. \A u \in {t} : Counted(u)'
    <3> HIDE DEF N, t
    <3> QED BY <2>1, <2>5, <2>6 DEF Counted
  <2>8. \A u \in {t} : Founded(u)'
    <3>1. N.parent = head /\ (head # NoTx => N.request \in Requests)
      BY <2>2, <1>2 DEF NextManifest, PublishBundle, SafeInv, TypeInv, ClientInv
    <3>2. /\ head = NoTx => N.request = NoRequest /\ N.content = Legacy
          /\ head # NoTx => N.content = IF N.request.writes = AnyContent THEN bundles[head].content
                                        ELSE N.request.writes
      BY <2>2 DEF NextManifest, NextContent
    <3>3. head \in Published => bundles'[head] = bundles[head]
      BY <2>1
    <3> HIDE DEF N, t
    <3> QED BY <2>1, <2>2, <3>1, <3>2, <3>3 DEF Founded
  <2> QED BY <2>1, <2>4, <2>7, <2>8 DEF CountInv
<1>3. CASE Next /\ \A c \in Clients : ~Changes(c)
  BY <1>1, <1>3, OtherSteps DEF store
<1>4. ASSUME NEW c \in Clients, FlushBundle(c) \/ ReplaceHead(c) \/ FlushHead(c) PROVE CountInv'
  BY <1>1, <1>4 DEF FlushBundle, ReplaceHead, FlushHead
<1> QED BY <1>1, <1>2, <1>3, <1>4 DEF Changes, vars, store

(* The ledger, its entries and its acknowledgements, read in the files. *)
LEMMA LedgerIs == Ledger!Committed = Applied(head)
  BY DEF Ledger!Committed, History

LEMMA LedgerInit == Init => Ledger!Init
<1> SUFFICES ASSUME Init PROVE Ledger!Init
  OBVIOUS
<1>1. Applied(head) = {} /\ Acked = {}
  BY TxAssumption DEF Init, Applied, Published, Acked
<1> QED BY <1>1 DEF Ledger!Init, History

(* The head is the latest entry of the ledger. *)
LEMMA HeadIsLatest ==
    ASSUME SafeInv, CountInv, head \in Published
    PROVE  Ledger!Latest = head
<1>1. /\ head \in Applied(head) /\ \A t \in Applied(head) : bundles[t].gen \in Nat
      /\ \A t \in Applied(head) : t # head => bundles[t].gen < bundles[head].gen
  BY DEF SafeInv, BundleInv, CountInv, Counted, Applied, TypeInv, TypeOK, Manifest
<1>2. /\ \A u \in Applied(head) : bundles[u].gen <= bundles[head].gen
      /\ \A t \in Applied(head) :
            (\A u \in Applied(head) : bundles[u].gen <= bundles[t].gen) => t = head
  BY <1>1
<1>3. \A t \in Applied(head) : History[t].gen = bundles[t].gen
  BY DEF History, Now
<1>4. \A t \in Applied(head) :
         (\A u \in Applied(head) : History[u].gen <= History[t].gen) <=> t = head
  BY <1>1, <1>2, <1>3
<1> QED BY <1>1, <1>4, LedgerIs DEF Ledger!Latest

(* A new head is the next entry of the ledger. *)
LEMMA HeadEnters ==
    ASSUME SafeInv, CountInv, NEW c \in Clients, ReplaceHead(c)
    PROVE  Ledger!Next
<1>1. PICK t \in TxIds : t = head'
  BY HeadStep DEF SafeInv, TypeInv, TypeOK
<1>2. /\ bundles[t].parent = head /\ t \in Published
      /\ bundles' = bundles /\ replies' = replies
  BY <1>1, HeadStep DEF ReplaceHead
<1>3. /\ Applied(t) = Applied(head) \cup {t} /\ t \notin Applied(head)
      /\ Applied(head)' = Applied(head) \cup {t} /\ head \in Published \cup {NoTx}
  BY <1>1, <1>2 DEF SafeInv, BundleInv, Applied, Published
<1>4. bundles[t].gen = Cardinality(Applied(head))
  <2>1. IsFiniteSet(Applied(head))
    BY FS_EmptySet DEF CountInv, Counted, Applied
  <2>2. /\ Cardinality(Applied(head) \cup {t}) = Cardinality(Applied(head)) + 1
        /\ Cardinality(Applied(head)) \in Nat
    BY <1>3, <2>1, FS_AddElement, FS_CardinalityType
  <2>3. Cardinality(Applied(t)) = bundles[t].gen + 1 /\ bundles[t].gen \in Nat
    BY <1>2 DEF CountInv, Counted, Applied, SafeInv, TypeInv, TypeOK, Manifest
  <2> QED BY <1>3, <2>2, <2>3
<1>5. /\ \A u : Now(u)' = Now(u)
      /\ Acked' = Acked
  BY <1>2 DEF Now, Acked
<1>6. ASSUME NEW r, NEW content, bundles[t].request = r, bundles[t].content = content
      PROVE  Ledger!Enter(t, r, content)
  <2>1. History' = [u \in Applied(head) \cup {t} |-> Now(u)]
    BY <1>3, <1>5 DEF History
  <2>2. \A u \in Applied(head) : History[u] = Now(u)
    BY DEF History
  <2>3. Now(t) = [gen |-> Cardinality(Applied(head)), request |-> r, content |-> content]
    BY <1>4, <1>6 DEF Now
  <2>4. \A u \in Applied(head) \cup {t} : u # t => u \in Applied(head)
    OBVIOUS
  <2>5. History' = [u \in Applied(head) \cup {t} |->
                      IF u = t
                      THEN [gen |-> Cardinality(Applied(head)), request |-> r, content |-> content]
                      ELSE History[u]]
    BY <2>1, <2>2, <2>3, <2>4
  <2> QED BY <1>3, <1>5, <2>5, LedgerIs DEF Ledger!Enter, Ledger!Cardinality, Cardinality
<1>7. CASE head = NoTx
  <2>1. bundles[t].request = NoRequest /\ bundles[t].content = Legacy
    BY <1>2, <1>7 DEF CountInv, Founded
  <2>2. Ledger!Committed = {}
    BY <1>7, LedgerIs, TxAssumption DEF Applied, SafeInv, TypeInv, TypeOK
  <2>3. Ledger!Enter(t, NoRequest, Legacy)
    BY <2>1, <1>6
  <2>4. Ledger!Import(t)
    BY <2>2, <2>3 DEF Ledger!Import
  <2> QED BY <2>4 DEF Ledger!Next
<1>8. CASE head \in Published
  <2>1. PICK r \in Requests : r = bundles[t].request
    BY <1>2, <1>8, TxAssumption DEF CountInv, Founded, SafeInv, TypeInv, TypeOK
  <2>2. /\ bundles[t].content = IF r.writes = AnyContent THEN bundles[head].content ELSE r.writes
        /\ head # NoTx
    BY <1>2, <1>8, <2>1, TxAssumption DEF CountInv, Founded, SafeInv, TypeInv, TypeOK
  <2>3. r.expects \in {AnyContent, bundles[head].content}
    BY <1>2, <2>1, TxAssumption DEF SafeInv, BundleInv
  <2>4. head \in Applied(head) /\ Ledger!Latest = head
    BY <1>8, HeadIsLatest DEF SafeInv, BundleInv, Applied
  <2>5. Ledger!Enter(t, r, IF r.writes = AnyContent THEN bundles[head].content ELSE r.writes)
    <3>1. PICK content : content = IF r.writes = AnyContent THEN bundles[head].content ELSE r.writes
      OBVIOUS
    <3>2. bundles[t].content = content /\ bundles[t].request = r
      BY <2>1, <2>2, <3>1
    <3>3. Ledger!Enter(t, r, content)
      BY <3>2, <1>6
    <3> QED BY <3>1, <3>3
  <2>6. History[head].content = bundles[head].content
    BY <2>4 DEF History, Now
  <2>7. Ledger!Commit(t, r)
    BY <2>3, <2>4, <2>5, <2>6, LedgerIs DEF Ledger!Commit
  <2> QED BY <2>7 DEF Ledger!Next
<1> QED BY <1>3, <1>7, <1>8

(* An answer repeats what the ledger says. *)
LEMMA AnswerRepeats ==
    ASSUME SafeInv, SafeInv', UNCHANGED store, NEW c \in Clients, Answers(c)
    PROVE  [Ledger!Next]_<<History, Acked>>
<1>1. History' = History /\ Applied(head)' = Applied(head) /\ \A t : Now(t)' = Now(t)
  BY DEF store, History, Applied, Published, Now
<1>2. CASE replies' = replies
  BY <1>1, <1>2 DEF Acked
<1>3. ASSUME NEW r \in Reply, replies' = replies \cup {r} PROVE [Ledger!Next]_<<History, Acked>>
  <2>1. CASE r.kind \notin Acks
    <3>1. {s \in replies' : s.kind \in Acks} = {s \in replies : s.kind \in Acks}
      BY <1>3, <2>1
    <3> QED BY <1>1, <3>1 DEF Acked
  <2>2. CASE r.kind \in Acks
    <3>1. PICK t \in TxIds : t = r.tx /\ t \in Applied(head)
      BY <1>1, <1>3, <2>2, TxAssumption
      DEF SafeInv, AckedSurvive, BundleInv, TypeInv, TypeOK, Applied, Reply
    <3>2. Now(t).gen = r.gen /\ Now(t).request = r.request /\ History[t] = Now(t)
      BY <1>1, <1>3, <2>2, <3>1 DEF SafeInv, AckedSurvive, Now, History, store
    <3>3. Acked' = Acked \cup {<<t, History[t].request, History[t].gen>>}
      BY <1>3, <2>2, <3>1, <3>2 DEF Acked
    <3>4. Ledger!Acknowledge(t)
      BY <1>1, <3>1, <3>3, LedgerIs DEF Ledger!Acknowledge
    <3> QED BY <3>4 DEF Ledger!Next
  <2> QED BY <2>1, <2>2
<1> QED BY <1>2, <1>3 DEF Answers

(* Every step of the transactions is a step of the ledger, or none. *)
LEMMA LedgerStep ==
    ASSUME SafeInv, SafeInv', CountInv, [Next]_vars, ~PowerLoss
    PROVE  [Ledger!Next]_<<History, Acked>>
<1>1. CASE UNCHANGED <<head, bundles, replies>>
  BY <1>1 DEF History, Acked, Applied, Published, Now
<1>2. ASSUME NEW c \in Clients, PublishBundle(c) PROVE [Ledger!Next]_<<History, Acked>>
  <2>1. /\ head' = head /\ replies' = replies /\ Applied(head)' = Applied(head)
        /\ \A t \in Published : bundles'[t] = bundles[t]
    BY <1>2, PublishStep, PublishKeepsHead
  <2>2. Applied(head) \subseteq Published
    BY DEF SafeInv, BundleInv, Applied
  <2>3. \A t \in Applied(head) : Now(t)' = Now(t)
    BY <2>1, <2>2 DEF Now
  <2>4. History' = History /\ Acked' = Acked
    BY <2>1, <2>3 DEF History, Acked
  <2> QED BY <2>4
<1>3. ASSUME NEW c \in Clients, ReplaceHead(c) PROVE [Ledger!Next]_<<History, Acked>>
  BY <1>3, HeadEnters
<1>4. ASSUME NEW c \in Clients, FlushBundle(c) \/ FlushHead(c)
      PROVE [Ledger!Next]_<<History, Acked>>
  BY <1>1, <1>4 DEF FlushBundle, FlushHead
<1>5. CASE Next /\ \A c \in Clients : ~Changes(c)
  BY <1>5, OtherSteps, AnswerRepeats
<1> QED BY <1>1, <1>2, <1>3, <1>4, <1>5 DEF Changes, vars, store

(* execute, ensure_imported and everything that retries, resumes or kills   *)
(* them amount to one ledger: each transaction is entered once, on the      *)
(* content its request expects, and acknowledged with its own generation.   *)
THEOREM LedgerImplemented ==
    ASSUME "power" \notin Faults PROVE Spec => ImplementsLedger
<1>1. Init => SafeInv /\ CountInv
  BY InitSafeInv DEF Init, CountInv, Published
<1>2. (SafeInv /\ CountInv) /\ [Next]_vars => (SafeInv /\ CountInv)'
  BY NextSafeInv, NextCountInv DEF PowerLoss, Fault
<1>3. SafeInv /\ SafeInv' /\ CountInv /\ [Next]_vars => [Ledger!Next]_<<History, Acked>>
  BY LedgerStep DEF PowerLoss, Fault
<1> QED BY <1>1, <1>2, <1>3, LedgerInit, PTL DEF Spec, ImplementsLedger, Ledger!Spec

-----------------------------------------------------------------------------
(***************************************************************************)
(* The machine may lose power at any moment, and what was acknowledged is  *)
(* still there: a bundle stands on flushed bundles, the head is replaced   *)
(* by a flushed bundle, and the next answer waits for the head to be       *)
(* flushed.  This holds for as long as nobody is killed, and no flush      *)
(* fails, between a rename and the flush after it: the bundle that is then *)
(* resumed, or the head that is then replayed, is never flushed.           *)
(***************************************************************************)
DiskInv ==
    /\ \A t \in Published : bundles[t].entries \subseteq bundlesDisk \cup {t}
    /\ \A t \in Published \ bundlesDisk : \E c \in Clients : pc[c] = "published" /\ target[c] = t
    /\ {head, headDisk} \subseteq bundlesDisk \cup {NoTx}
    /\ head = headDisk \/ \E c \in Clients : pc[c] = "replaced"
    /\ \A c \in Clients : pc[c] = "ready" => target[c] \in bundlesDisk
    /\ \A r \in replies : r.kind \in Acks => r.tx \in Applied(headDisk)

LEMMA PowerLossInv ==
    ASSUME SafeInv, DiskInv, PowerLoss
    PROVE  SafeInv' /\ DiskInv'
<1>1. TypeInv'
  BY NextTypeInv DEF SafeInv, Next
<1>2. PICK kept \in SUBSET Published :
        /\ bundlesDisk \subseteq kept /\ bundlesDisk' = kept
        /\ bundles' = [t \in kept |-> bundles[t]]
  BY DEF PowerLoss
<1>3. /\ Published' = kept /\ \A t \in kept : bundles'[t] = bundles[t]
      /\ replies' = replies /\ headDisk' = head' /\ head' \in {head, headDisk}
      /\ \A c \in Clients : pc'[c] = "idle"
      /\ NoTx \notin Published
  BY <1>2, TxAssumption DEF PowerLoss, Published, SafeInv, TypeInv, TypeOK
<1>4. \A t \in kept : bundles[t].entries \subseteq kept /\ bundles[t].parent \in kept \cup {NoTx}
  <2> SUFFICES ASSUME NEW t \in kept
               PROVE  bundles[t].entries \subseteq kept /\ bundles[t].parent \in kept \cup {NoTx}
    OBVIOUS
  <2>1. bundles[t].entries \subseteq bundlesDisk \cup {t} /\ t \in Published
    BY DEF DiskInv
  <2>2. ASSUME bundles[t].parent \in Published PROVE bundles[t].parent \in bundles[t].entries
    BY <2>1, <2>2 DEF SafeInv, BundleInv, Applied
  <2> QED BY <1>2, <2>1, <2>2 DEF SafeInv, BundleInv
<1>5. \A t \in kept \cup {NoTx} : Applied(t)' = Applied(t)
  BY <1>3 DEF Applied
<1>6. BundleInv'
  <2>1. head' \in kept \cup {NoTx}
    BY <1>2, <1>3 DEF DiskInv
  <2> SUFFICES ASSUME NEW t \in kept
               PROVE  /\ bundles'[t].entries \subseteq Published'
                      /\ bundles'[t].parent \in Published' \cup {NoTx}
                      /\ bundles'[t].entries = Applied(bundles[t].parent)' \cup {t}
                      /\ t \notin Applied(bundles[t].parent)'
                      /\ bundles'[t].request # NoRequest =>
                            /\ bundles'[t].parent \in Published'
                            /\ bundles'[t].request.expects
                                  \in {AnyContent, bundles'[bundles'[t].parent].content}
    BY <1>3, <2>1 DEF BundleInv
  <2>2. PICK p \in kept \cup {NoTx} : p = bundles[t].parent /\ p = bundles'[t].parent
    BY <1>3, <1>4
  <2>3. Applied(p)' = Applied(p) /\ (p \in kept => bundles'[p] = bundles[p])
    BY <1>3, <1>5
  <2>4. /\ bundles[t].entries = Applied(p) \cup {t} /\ t \notin Applied(p)
        /\ bundles[t].request # NoRequest =>
              p \in Published /\ bundles[t].request.expects \in {AnyContent, bundles[p].content}
    BY <2>2 DEF SafeInv, BundleInv
  <2> QED BY <1>3, <1>4, <2>2, <2>3, <2>4
<1>7. WorkInv'
  BY <1>3 DEF WorkInv
<1>8. \A r \in replies : r.kind \in Acks =>
          r.tx \in Applied(head)' /\ bundles'[r.tx] = bundles[r.tx]
  <2> SUFFICES ASSUME NEW r \in replies, r.kind \in Acks
               PROVE  r.tx \in Applied(head)' /\ bundles'[r.tx] = bundles[r.tx]
    OBVIOUS
  <2>1. r.tx \in Applied(head) /\ r.tx \in Applied(headDisk)
    BY DEF SafeInv, AckedSurvive, DiskInv
  <2>2. head' \in kept /\ Applied(head)' = bundles[head'].entries /\ r.tx \in Applied(head)'
    BY <1>2, <1>3, <2>1 DEF DiskInv, Applied
  <2> QED BY <1>3, <1>4, <2>2
<1>9. AckedSurvive'
  BY <1>3, <1>8 DEF SafeInv, AckedSurvive
<1>10. DiskInv'
  BY <1>2, <1>3, <1>4, <1>6, <1>8 DEF DiskInv, BundleInv
<1> QED BY <1>1, <1>6, <1>7, <1>9, <1>10 DEF SafeInv

LEMMA NextDiskInv ==
    ASSUME {"flush", "crash"} \cap Faults = {}, SafeInv, SafeInv', DiskInv, [Next]_vars, ~PowerLoss
    PROVE  DiskInv'
<1>a. /\ \A c, d \in Clients : Inside(c) /\ Inside(d) => c = d
      /\ pc \in [Clients -> Phases] /\ bundlesDisk \subseteq Published /\ NoTx \notin Published
  BY TxAssumption DEF SafeInv, TypeInv, TypeOK, LockHeldInside
<1>1. CASE UNCHANGED vars
  BY <1>1 DEF vars, store, client, DiskInv, Applied, Published
<1>2. ASSUME NEW c \in Clients, PublishBundle(c) PROVE DiskInv'
  <2>1. /\ Published' = Published \cup {target[c]} /\ target[c] \notin Published
        /\ \A t \in Published : bundles'[t] = bundles[t]
        /\ bundles'[target[c]].entries = Applied(head) \cup {target[c]}
        /\ \A t \in Published \cup {NoTx} : Applied(t)' = Applied(t)
    BY <1>2, PublishStep, PublishKeepsHead
  <2>2. /\ pc[c] = "prepared" /\ pc'[c] = "published"
        /\ \A d \in Clients \ {c} : pc'[d] = pc[d]
        /\ UNCHANGED <<head, headDisk, bundlesDisk, target, replies>>
    BY <1>2, <1>a DEF PublishBundle, Goto
  <2>3. Applied(head) \subseteq bundlesDisk
    BY <1>a DEF DiskInv, Applied
  <2>4. \A t \in Published' : bundles'[t].entries \subseteq bundlesDisk' \cup {t}
    BY <2>1, <2>2, <2>3 DEF DiskInv
  <2>5. \A t \in Published' \ bundlesDisk' :
            \E d \in Clients : pc'[d] = "published" /\ target'[d] = t
    BY <2>1, <2>2 DEF DiskInv
  <2>6. /\ head' = headDisk' \/ \E d \in Clients : pc'[d] = "replaced"
        /\ \A d \in Clients : pc'[d] = "ready" => target'[d] \in bundlesDisk'
    BY <2>2 DEF DiskInv
  <2>7. \A r \in replies' : r.kind \in Acks => r.tx \in Applied(headDisk)'
    BY <1>a, <2>1, <2>2 DEF DiskInv
  <2> QED BY <2>2, <2>4, <2>5, <2>6, <2>7 DEF DiskInv
<1>3. ASSUME NEW c \in Clients, FlushBundle(c) PROVE DiskInv'
  <2>1. /\ pc[c] = "published" /\ pc'[c] = "ready" /\ target[c] \in Published
        /\ \A d \in Clients \ {c} : pc'[d] = pc[d]
        /\ bundlesDisk' = Published
        /\ UNCHANGED <<head, headDisk, bundles, target, replies>>
    BY <1>3, <1>a DEF FlushBundle, Goto, SafeInv, WorkInv
  <2> QED BY <1>a, <2>1 DEF DiskInv, Applied, Published, SafeInv, BundleInv
<1>4. ASSUME NEW c \in Clients, ReplaceHead(c) PROVE DiskInv'
  <2>1. /\ pc[c] = "ready" /\ pc'[c] = "replaced" /\ head' = target[c]
        /\ \A d \in Clients \ {c} : pc'[d] = pc[d]
        /\ UNCHANGED <<headDisk, bundles, bundlesDisk, target, replies>>
    BY <1>4, <1>a DEF ReplaceHead, Goto
  <2> QED BY <2>1 DEF DiskInv, Applied, Published
<1>5. ASSUME NEW c \in Clients, FlushHead(c) PROVE DiskInv'
  <2>1. /\ pc[c] = "replaced" /\ pc'[c] = "switched" /\ headDisk' = head
        /\ \A d \in Clients \ {c} : pc'[d] = pc[d]
        /\ UNCHANGED <<head, bundles, bundlesDisk, target, replies>>
    BY <1>5, <1>a DEF FlushHead, Goto
  <2>2. \A r \in replies' : r.kind \in Acks => r.tx \in Applied(headDisk)'
    BY <2>1 DEF SafeInv, AckedSurvive, Applied, Published
  <2> QED BY <2>1, <2>2 DEF DiskInv, Published
<1>6. CASE Next /\ \A c \in Clients : ~Changes(c)
  <2>1. PICK c \in Clients : UNCHANGED store /\ Answers(c) /\ Moves(c)
    BY <1>6, OtherSteps
  <2>2. /\ pc[c] \notin {"published", "replaced"} /\ pc'[c] \notin {"published", "replaced"}
        /\ \A d \in Clients \ {c} : pc'[d] = pc[d] /\ target'[d] = target[d]
        /\ pc'[c] = "ready" =>
              /\ target'[c] = target[c] /\ target[c] \in Published /\ pc[c] = "holding"
    BY <2>1 DEF Moves
  <2>3. UNCHANGED <<head, headDisk, bundles, bundlesDisk>>
    BY <2>1 DEF store
  <2>4. pc'[c] = "ready" => target'[c] \in bundlesDisk'
    BY <1>a, <2>2, <2>3 DEF DiskInv, Inside
  <2>5. \A r \in replies' : r.kind \in Acks => r.tx \in Applied(headDisk)'
    <3> SUFFICES ASSUME NEW r \in replies', r \notin replies, r.kind \in Acks
                 PROVE  r.tx \in Applied(headDisk)'
      BY <2>3 DEF DiskInv, Applied, Published
    <3>1. Inside(c) /\ pc[c] # "replaced"
      BY <2>1, <2>2 DEF Answers
    <3>2. head = headDisk
      BY <1>a, <3>1 DEF DiskInv, Inside
    <3> QED BY <2>3, <3>2 DEF SafeInv, AckedSurvive
  <2>6. \A t \in Published' \ bundlesDisk' :
            \E d \in Clients : pc'[d] = "published" /\ target'[d] = t
    BY <2>2, <2>3 DEF DiskInv, Published
  <2>7. head' = headDisk' \/ \E d \in Clients : pc'[d] = "replaced"
    BY <2>2, <2>3 DEF DiskInv
  <2>8. \A d \in Clients : pc'[d] = "ready" => target'[d] \in bundlesDisk'
    BY <2>2, <2>3, <2>4 DEF DiskInv
  <2> QED BY <2>3, <2>5, <2>6, <2>7, <2>8 DEF DiskInv, Published
<1> QED BY <1>1, <1>2, <1>3, <1>4, <1>5, <1>6 DEF Changes

(* _publish_bundle and _switch_head flush before they go on: whenever the   *)
(* machine loses power, no transaction that was acknowledged is gone.  No   *)
(* call may die, and no flush may fail, between a rename and its flush.     *)
THEOREM DurableAnswers ==
    ASSUME {"flush", "crash"} \cap Faults = {}
    PROVE  Spec => []AckedSurvive
<1>1. Init => SafeInv /\ DiskInv
  BY InitSafeInv DEF Init, DiskInv, Published
<1>2. (SafeInv /\ DiskInv) /\ [Next]_vars => (SafeInv /\ DiskInv)'
  BY StepSafeInv, PowerLossInv, NextDiskInv
<1>3. SafeInv /\ DiskInv => AckedSurvive
  BY DEF SafeInv
<1> QED BY <1>1, <1>2, <1>3, PTL DEF Spec

-----------------------------------------------------------------------------
(***************************************************************************)
(* The durable head stands on durable bundles, under every failure.  The   *)
(* argument: a bundle that is not flushed is the one its publisher is      *)
(* about to flush, or one that was abandoned there, and whoever is about   *)
(* to make a bundle the head, or a parent, is past that flush.  An orphan  *)
(* is taken up under the lock, where nobody is about to flush: if it was   *)
(* not flushed, it was abandoned.                                          *)
(***************************************************************************)
Kept == bundlesDisk \cup abandoned

WholeInv ==
    /\ \A t \in Published :
          /\ bundles[t].entries \subseteq Kept \cup {t}
          /\ t \in Kept \/ \E c \in Clients : pc[c] = "published" /\ target[c] = t
    /\ {head, headDisk} \subseteq Kept \cup {NoTx}
    /\ \A c \in Clients :
          /\ pc[c] = "published" => target[c] \in Published
          /\ pc[c] = "ready" => target[c] \in Kept
          /\ pc[c] = "prepared" => view[c] \in Kept \cup {NoTx}

(* A step that leaves the store alone takes one client somewhere: to an id  *)
(* it may publish, or away from a bundle it then abandons.                  *)
Steers(c) ==
    /\ UNCHANGED store /\ abandoned \subseteq abandoned'
    /\ \A d \in Clients \ {c} : pc'[d] = pc[d] /\ target'[d] = target[d] /\ view'[d] = view[d]
    /\ pc'[c] # "published"
    /\ pc[c] = "published" => target[c] \in abandoned'
    /\ pc'[c] = "ready" => pc[c] = "holding" /\ target'[c] \in Published
    /\ pc'[c] = "prepared" => view'[c] \in {head, NoTx}

LEMMA SteeredSteps ==
    ASSUME TypeInv, Next, ~PowerLoss, \A c \in Clients : ~Changes(c)
    PROVE  \E c \in Clients : Steers(c)
<1>a. /\ pc \in [Clients -> Phases] /\ target \in [Clients -> TxIds \cup {NoTx}]
      /\ view \in [Clients -> TxIds \cup {NoTx}] /\ ClientInv
  BY DEF TypeInv, TypeOK
<1> USE <1>a DEF store, Steers
<1>1. ASSUME NEW c \in Clients, NEW o \in Ops, NEW r \in Requests, Submit(c, o, r)
      PROVE Steers(c)
  BY <1>1 DEF Submit, Goto
<1>2. ASSUME NEW c \in Clients, Read(c) \/ Open(c) \/ Lock(c) \/ LockTimeout(c) PROVE Steers(c)
  BY <1>2 DEF Read, Open, Lock, LockTimeout, Return, Materializing, Goto
<1>3. ASSUME NEW c \in Clients, ImportFound(c) \/ ImportPrepare(c) \/ Transform(c)
      PROVE Steers(c)
  BY <1>3 DEF ImportFound, ImportPrepare, Transform, Executing, Materializing, Goto
<1>4. ASSUME NEW c \in Clients, ResumeOrphan(c) PROVE Steers(c)
  BY <1>4 DEF ResumeOrphan, Orphaned, Executing, ClientInv, Goto
<1>5. ASSUME NEW c \in Clients, Reread(c) \/ MaterializeFile(c) PROVE Steers(c)
  BY <1>5 DEF Reread, MaterializeFile, Materializing, Goto
<1>6. ASSUME NEW c \in Clients, Replay(c) \/ RejectOrphan(c) \/ TransformRefuses(c)
      PROVE Steers(c)
  BY <1>6 DEF Replay, RejectOrphan, TransformRefuses, Orphaned, Executing, Return
<1>7. ASSUME NEW c \in Clients, IoError(c) \/ RereadError(c) PROVE Steers(c)
  BY <1>7 DEF IoError, RereadError, FailUnderLock, Return
<1>8. ASSUME NEW c \in Clients, FlushError(c) \/ Crash(c) PROVE Steers(c)
  BY <1>8 DEF FlushError, Crash, FailUnderLock, Return, Abandon
<1>9. ASSUME NEW c \in Clients, MaterializeStatus(c) \/ MaterializeError(c) PROVE Steers(c)
  BY <1>9 DEF MaterializeStatus, MaterializeError, AfterMaterialize, Return, Goto
<1> QED BY <1>1, <1>2, <1>3, <1>4, <1>5, <1>6, <1>7, <1>8, <1>9 DEF Next, Work, Fail, Changes

LEMMA NextWholeInv == TypeInv /\ WholeInv /\ [Next]_vars => WholeInv'
<1> SUFFICES ASSUME TypeInv, WholeInv, [Next]_vars PROVE WholeInv'
  OBVIOUS
<1>a. /\ \A c, d \in Clients : Inside(c) /\ Inside(d) => c = d
      /\ pc \in [Clients -> Phases] /\ bundlesDisk \subseteq Published /\ NoTx \notin Published
      /\ NoTx \notin TxIds
  BY TxAssumption DEF TypeInv, TypeOK, LockHeldInside
<1>1. CASE UNCHANGED vars
  BY <1>1 DEF vars, store, client, WholeInv, Kept, Published
<1>2. ASSUME NEW c \in Clients, PublishBundle(c) PROVE WholeInv'
  <2>1. /\ Published' = Published \cup {target[c]} /\ target[c] \notin Published
        /\ \A t \in Published : bundles'[t] = bundles[t]
        /\ bundles'[target[c]].entries = Applied(view[c]) \cup {target[c]}
    BY <1>2 DEF PublishBundle, NextManifest, Published
  <2>2. /\ pc[c] = "prepared" /\ pc'[c] = "published"
        /\ \A d \in Clients \ {c} : pc'[d] = pc[d]
        /\ UNCHANGED <<head, headDisk, bundlesDisk, target, view, abandoned>>
    BY <1>2, <1>a DEF PublishBundle, Goto
  <2>3. Applied(view[c]) \subseteq Kept
    BY <1>a, <2>2 DEF WholeInv, Applied
  <2> QED BY <2>1, <2>2, <2>3 DEF WholeInv, Kept
<1>3. ASSUME NEW c \in Clients, FlushBundle(c) PROVE WholeInv'
  <2>1. /\ pc[c] = "published" /\ pc'[c] = "ready" /\ target[c] \in Published
        /\ \A d \in Clients \ {c} : pc'[d] = pc[d]
        /\ bundlesDisk' = Published
        /\ UNCHANGED <<head, headDisk, bundles, target, view, abandoned>>
    BY <1>3, <1>a DEF FlushBundle, Goto, WholeInv
  <2> QED BY <1>a, <2>1 DEF WholeInv, Kept, Published
<1>4. ASSUME NEW c \in Clients, ReplaceHead(c) \/ FlushHead(c) PROVE WholeInv'
  <2>1. /\ pc[c] \in {"ready", "replaced"} /\ pc'[c] \in {"replaced", "switched"}
        /\ \A d \in Clients \ {c} : pc'[d] = pc[d]
        /\ UNCHANGED <<bundles, bundlesDisk, target, view, abandoned>>
        /\ {head', headDisk'} \subseteq {head, headDisk} \cup {target[c]}
        /\ pc[c] = "replaced" => {head', headDisk'} \subseteq {head, headDisk}
    BY <1>4, <1>a DEF ReplaceHead, FlushHead, Goto
  <2> QED BY <2>1 DEF WholeInv, Kept, Published
<1>5. CASE PowerLoss
  <2>1. PICK kept \in SUBSET Published :
          /\ bundlesDisk \subseteq kept /\ bundlesDisk' = kept
          /\ bundles' = [t \in kept |-> bundles[t]]
    BY <1>5 DEF PowerLoss
  <2>2. /\ Published' = kept /\ abandoned' = abandoned
        /\ {head', headDisk'} \subseteq {head, headDisk}
        /\ \A c \in Clients : pc'[c] = "idle"
    BY <1>5, <2>1 DEF PowerLoss, Published
  <2> QED BY <2>1, <2>2 DEF WholeInv, Kept
<1>6. CASE Next /\ ~PowerLoss /\ \A c \in Clients : ~Changes(c)
  <2>1. PICK c \in Clients : Steers(c)
    BY <1>6, SteeredSteps
  <2>2. /\ UNCHANGED <<head, headDisk, bundles, bundlesDisk>> /\ Published' = Published
        /\ Kept \subseteq Kept'
    BY <2>1 DEF Steers, store, Kept, Published
  <2>3. \A t \in Published : t \in Kept' \/ \E d \in Clients : pc'[d] = "published" /\ target'[d] = t
    BY <2>1, <2>2 DEF WholeInv, Steers, Kept
  <2>4. pc'[c] = "ready" => target'[c] \in Kept'
    BY <1>a, <2>1, <2>2 DEF WholeInv, Steers, Inside
  <2>5. pc'[c] = "prepared" => view'[c] \in Kept' \cup {NoTx}
    BY <2>1, <2>2 DEF WholeInv, Steers
  <2>6. \A d \in Clients :
           /\ pc'[d] = "published" => target'[d] \in Published'
           /\ pc'[d] = "ready" => target'[d] \in Kept'
           /\ pc'[d] = "prepared" => view'[d] \in Kept' \cup {NoTx}
    BY <2>1, <2>2, <2>4, <2>5 DEF WholeInv, Steers
  <2> QED BY <2>2, <2>3, <2>6 DEF WholeInv
<1> QED BY <1>1, <1>2, <1>3, <1>4, <1>5, <1>6 DEF Changes

(* _publish_bundle flushes the bundle before _switch_head names it: under   *)
(* every failure, kill and loss of power, the head that is durable stands   *)
(* on bundles that are, but for orphans whose publisher never came to its   *)
(* flush.                                                                   *)
THEOREM DurableHead == Spec => []DiskHeadWhole
<1>1. Init => TypeInv /\ WholeInv
  BY InitTypeInv DEF Init, WholeInv, Kept, Published
<1>2. (TypeInv /\ WholeInv) /\ [Next]_vars => (TypeInv /\ WholeInv)'
  BY NextTypeInv, NextWholeInv
<1>3. TypeInv /\ WholeInv => DiskHeadWhole
  BY DEF TypeInv, TypeOK, WholeInv, Kept, DiskHeadWhole, Applied
<1> QED BY <1>1, <1>2, <1>3, PTL DEF Spec
============================================================================
