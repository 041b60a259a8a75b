-------------------------- MODULE BondStoreProofs --------------------------
(***************************************************************************)
(* What BondStore promises for every set of peers, whatever fails and      *)
(* whenever power goes.  The inductive invariant has three layers: where a *)
(* transaction is and about whom (Control), what is in flash by then       *)
(* (Journaled), and what a stack that has seen no failure may count on     *)
(* (Healthy).                                                              *)
(***************************************************************************)
EXTENDS BondStore, TLAPS

Starting == {"resume", "restore", "associations", "orphans"}
Pairing  == {"prepare", "write", "complete"}
Before   == {"scan", "intent", "companion", "peer"}
Erasing  == {"rescan", "erase", "sidecar", "association", "verify", "finish"}
Removing == Before \cup Erasing \cup {"finished"}

\* Whose transaction runs in which mode, and about whom.
Control ==
    /\ pc \in Removing \cup Pairing => target \in Peer
    /\ pc \in Starting \cup {"idle"} => target = NoPeer
    /\ pc \in Starting => mode = "starting"
    /\ pc \in Pairing => mode = "exposed" /\ target = connected
    /\ pc \in Before => mode = "hidden"
    /\ pc \in Removing => mode \in {"hidden", "starting"}
    /\ connected # NoPeer => mode = "exposed"
    /\ mode = "starting" => pc # "idle"
    /\ mode = "off" => pc = "idle"

\* The RAM store is empty until a start has read the records back.
Unread == mode = "off" \/ (mode = "starting" /\ pc \in Removing \cup {"resume", "restore"})

\* What is in flash, and of the target in RAM, when a transaction is at pc.
Journaled ==
    /\ Unread => ram = Empty
    /\ pc \in {"companion", "peer"} \cup Erasing => receipt = target
    /\ pc \in {"restore", "associations", "orphans", "finished"} => receipt = NoPeer
    /\ pc \in {"intent", "companion", "peer"} \cup (Erasing \ {"rescan"}) => ~Overlap(target)
    /\ pc \in Erasing \cup {"finished"} => ram[target] = {}
    /\ pc \in {"sidecar", "association", "verify", "finish"} => keys[target] = {}
    /\ pc = "finished" => Absent(target)
    /\ pc \in {"write", "complete"} /\ profile = "mouse" => assoc[target] = "pending"
    /\ pc = "orphans" => \A p \in Peer : assoc[p] = "missing" \/ (assoc[p] = "complete" /\ Whole(keys, p))
    /\ NeverLegacy

\* A bond that nobody is working on.
Clean(p) ==
    /\ ram[p] = keys[p] /\ keys[p] \in {{}, Kind} /\ assoc[p] # "pending"
    /\ keys[p] = {} => p \notin schema /\ assoc[p] = "missing"
\* The records of the peer being paired, of the class of the profile.
Growing ==
    /\ ram[target] = keys[target]
    /\ \/ profile = "strict" /\ assoc[target] = "missing"
       \/ profile = "mouse" /\ assoc[target] = "pending" /\ claim = target

Healthy ==
    ~unhealthy /\ mode \in {"hidden", "exposed"} =>
        /\ \A p \in Peer \ {target} : Clean(p)
        /\ pc \in {"idle", "scan", "intent"} \cup Pairing => receipt = NoPeer
        /\ pc \in {"scan", "intent", "finished"} => Clean(target)
        /\ pc = "prepare" => \/ Clean(target) /\ keys[target] = {}
                             \/ Growing /\ keys[target] = {"our"}
        /\ pc = "write" => Growing /\ keys[target] \in {{}, {"our"}}
        /\ pc = "complete" => Growing /\ keys[target] \in {{"our"}, Kind}

Inv == TypeOK /\ Control /\ Journaled /\ Healthy
-----------------------------------------------------------------------------
(* Types                                                                   *)

\* A store of records stays one when a record goes or one comes.
LEMMA Shrunk ==
  ASSUME NEW S, NEW f \in [Peer -> SUBSET S], NEW x, NEW D
  PROVE  [f EXCEPT ![x] = @ \ D] \in [Peer -> SUBSET S]
OBVIOUS

LEMMA Grown ==
  ASSUME NEW S, NEW f \in [Peer -> SUBSET S], NEW x, NEW D \in SUBSET S
  PROVE  [f EXCEPT ![x] = @ \cup D] \in [Peer -> SUBSET S]
OBVIOUS

LEMMA TypeStep == TypeOK /\ [Next]_vars => TypeOK'
<1> SUFFICES ASSUME TypeOK, [Next]_vars PROVE TypeOK'
  OBVIOUS
<1> USE DEF TypeOK, Kind, Class, Association, Optional, At, Goto, Done, Fails, Proceeds, Then,
     disk, stack
<1>0. keys \in [Peer -> SUBSET Kind] /\ ram \in [Peer -> SUBSET Kind]
  BY DEF TypeOK
<1>1. CASE Start
  <2>1. ASSUME NEW c \in Class, Boot(c) PROVE TypeOK'
    BY <2>1 DEF Boot
  <2>2. CASE Resume
    BY <2>2 DEF Resume
  <2>3. CASE Restore
    BY <2>3 DEF Restore
  <2>4. CASE Associations
    BY <2>4 DEF Associations
  <2>5. CASE RecoverOrphan
    BY <2>5 DEF RecoverOrphan, Orphans
  <2>6. CASE Ready
    BY <2>6 DEF Ready
  <2>7. QED
    BY <1>1, <2>1, <2>2, <2>3, <2>4, <2>5, <2>6 DEF Start
<1>2. CASE Removal
  <2>1. ASSUME NEW p \in Peer, Remove(p) PROVE TypeOK'
    BY <2>1 DEF Remove
  <2>2. CASE Scan
    BY <2>2 DEF Scan
  <2>3. CASE Intent
    BY <2>3 DEF Intent
  <2>4. CASE Companion
    BY <2>4 DEF Companion
  <2>5. CASE DeleteSecurity
    <3>1. PICK k \in ram[target] :
            /\ ram' = [ram EXCEPT ![target] = @ \ {k}]
            /\ keys' = [keys EXCEPT ![target] = @ \ {k}] \/ UNCHANGED keys
      BY <2>5 DEF DeleteSecurity
    <3>2. keys' \in [Peer -> SUBSET Kind] /\ ram' \in [Peer -> SUBSET Kind]
      <4> HIDE DEF Kind, TypeOK
      <4>1. ram' \in [Peer -> SUBSET Kind]
        BY <1>0, <3>1, Shrunk
      <4>2. [keys EXCEPT ![target] = @ \ {k}] \in [Peer -> SUBSET Kind]
        BY <1>0, Shrunk
      <4>3. QED
        BY <1>0, <3>1, <4>1, <4>2
    <3>3. /\ Then("peer") \/ Fails
          /\ UNCHANGED <<aux, schema, assoc, receipt, made, profile, connected, claim>>
      BY <2>5 DEF DeleteSecurity
    <3>4. QED
      BY <3>2, <3>3
  <2>6. CASE DeleteAuxiliary
    <3>1. PICK q \in Peer : aux' = [aux EXCEPT ![q] = NoPeer]
      BY <2>6 DEF DeleteAuxiliary
    <3>2. aux' \in [Peer -> Optional]
      BY <3>1
    <3>3. /\ Then("peer")
          /\ UNCHANGED <<keys, schema, assoc, receipt, made, ram, profile, connected, claim>>
      BY <2>6 DEF DeleteAuxiliary
    <3>4. QED
      BY <3>2, <3>3
  <2>7. CASE DeletedPeer
    BY <2>7 DEF DeletedPeer
  <2>8. CASE Rescan \/ Erased \/ Verify \/ Finished
    BY <2>8 DEF Rescan, Erased, Verify, Finished
  <2>9. CASE EraseAuxiliary
    BY <2>9 DEF EraseAuxiliary
  <2>10. CASE EraseKey
    <3>1. PICK k \in keys[target] : keys' = [keys EXCEPT ![target] = @ \ {k}]
      BY <2>10 DEF EraseKey
    <3>2. keys' \in [Peer -> SUBSET Kind]
      <4> HIDE DEF Kind, TypeOK
      <4>1. QED
        BY <1>0, <3>1, Shrunk
    <3>3. /\ Then("erase")
          /\ UNCHANGED <<aux, schema, assoc, receipt, made, ram, profile, connected, claim>>
      BY <2>10 DEF EraseKey
    <3>4. QED
      BY <3>2, <3>3
  <2>11. CASE EraseSchema
    BY <2>11 DEF EraseSchema
  <2>12. CASE EraseAssociation
    BY <2>12 DEF EraseAssociation
  <2>13. CASE Finish
    BY <2>13 DEF Finish
  <2>14. QED
    BY <1>2, <2>1, <2>2, <2>3, <2>4, <2>5, <2>6, <2>7, <2>8, <2>9, <2>10, <2>11, <2>12, <2>13
       DEF Removal
<1>3. CASE Creation
  <2>1. CASE Pair \/ Prepare \/ Refuse
    BY <2>1 DEF Pair, Prepare, Refuse
  <2>2. CASE Claim
    BY <2>2 DEF Claim
  <2>3. CASE Write
    <3>1. PICK k \in Kind :
            /\ ram' = [ram EXCEPT ![target] = @ \cup {k}]
            /\ keys' = [keys EXCEPT ![target] = @ \cup {k}] \/ UNCHANGED keys
      BY <2>3 DEF Write
    <3>2. keys' \in [Peer -> SUBSET Kind] /\ ram' \in [Peer -> SUBSET Kind]
      <4> HIDE DEF Kind, TypeOK
      <4>1. {k} \in SUBSET Kind
        OBVIOUS
      <4>2. ram' \in [Peer -> SUBSET Kind]
        BY <1>0, <3>1, <4>1, Grown
      <4>3. [keys EXCEPT ![target] = @ \cup {k}] \in [Peer -> SUBSET Kind]
        BY <1>0, <4>1, Grown
      <4>4. QED
        BY <1>0, <3>1, <4>2, <4>3
    <3>3. made' = [made EXCEPT ![target] = profile]
      BY <2>3 DEF Write
    <3>4. /\ Then("complete") \/ Fails
          /\ UNCHANGED <<aux, schema, assoc, receipt, profile, connected, claim>>
      BY <2>3 DEF Write
    <3>5. QED
      BY <3>2, <3>3, <3>4
  <2>4. CASE Complete
    BY <2>4 DEF Complete, Rest
  <2>5. CASE CompleteAssociation
    BY <2>5 DEF CompleteAssociation
  <2>6. CASE WriteSchema
    BY <2>6 DEF WriteSchema, Bonded
  <2>7. ASSUME NEW a \in Peer, WriteAuxiliary(a) PROVE TypeOK'
    BY <2>7 DEF WriteAuxiliary, Bonded
  <2>8. QED
    BY <1>3, <2>1, <2>2, <2>3, <2>4, <2>5, <2>6, <2>7 DEF Creation
<1>4. CASE Around
  <2>1. ASSUME NEW p \in Peer, Connect(p) PROVE TypeOK'
    BY <2>1 DEF Connect
  <2>2. CASE Expose \/ Disconnect \/ AccessFails
    BY <2>2 DEF Expose, Disconnect, AccessFails
  <2>3. CASE PowerLoss
    BY <2>3 DEF PowerLoss, Empty
  <2>4. QED
    BY <1>4, <2>1, <2>2, <2>3 DEF Around
<1>5. CASE UNCHANGED vars
  BY <1>5 DEF vars
<1>6. QED
  BY <1>1, <1>2, <1>3, <1>4, <1>5 DEF Next

(* A transaction always has a point, a peer and a mode the code defines,   *)
(* however many writes fail.                                               *)
THEOREM TypeCorrect == Spec => []TypeOK
<1>1. Init => TypeOK
  BY DEF Init, TypeOK, Empty, Kind, Class, Association, Optional
<1>2. TypeOK /\ [Next]_vars => TypeOK'
  BY TypeStep
<1>3. QED
  BY <1>1, <1>2, PTL DEF Spec
-----------------------------------------------------------------------------
(* Control                                                                 *)

LEMMA ControlStep == TypeOK /\ Control /\ [Next]_vars => Control'
<1> SUFFICES ASSUME TypeOK, Control, [Next]_vars PROVE Control'
  OBVIOUS
<1>0. connected \in Peer \cup {NoPeer} /\ receipt \in Peer \cup {NoPeer}
  BY DEF TypeOK, Optional
<1> USE DEF Control, Starting, Pairing, Before, Erasing, Removing,
     At, Goto, Done, Fails, Proceeds, Then, disk, stack
<1>1. CASE Start
  <2>1. ASSUME NEW c \in Class, Boot(c) PROVE Control'
    BY <2>1 DEF Boot
  <2>2. CASE Resume
    <3>1. CASE receipt = NoPeer
      BY <2>2, <3>1 DEF Resume
    <3>2. CASE receipt \in Peer
      BY <2>2, <3>2, NoPeerAssumption DEF Resume
    <3>3. QED
      BY <1>0, <3>1, <3>2
  <2>3. CASE Restore \/ Associations
    BY <2>3 DEF Restore, Associations
  <2>4. CASE RecoverOrphan \/ Ready
    BY <2>4 DEF RecoverOrphan, Ready
  <2>5. QED
    BY <1>1, <2>1, <2>2, <2>3, <2>4 DEF Start
<1>2. CASE Removal
  <2>1. ASSUME NEW p \in Peer, Remove(p) PROVE Control'
    BY <2>1 DEF Remove
  <2>2. CASE Scan \/ Intent \/ Companion
    BY <2>2 DEF Scan, Intent, Companion
  <2>3. CASE DeleteSecurity
    <3>1. At("peer") /\ (Then("peer") \/ Fails) /\ UNCHANGED connected
      BY <2>3 DEF DeleteSecurity
    <3>2. QED
      BY <3>1
  <2>4. CASE DeleteAuxiliary
    <3>1. At("peer") /\ Then("peer") /\ UNCHANGED connected
      BY <2>4 DEF DeleteAuxiliary
    <3>2. QED
      BY <3>1
  <2>5. CASE DeletedPeer \/ Rescan \/ Erased
    BY <2>5 DEF DeletedPeer, Rescan, Erased
  <2>6. CASE EraseAuxiliary \/ EraseKey
    <3>1. At("erase") /\ Then("erase") /\ UNCHANGED connected
      BY <2>6 DEF EraseAuxiliary, EraseKey
    <3>2. QED
      BY <3>1
  <2>7. CASE EraseSchema \/ EraseAssociation
    BY <2>7 DEF EraseSchema, EraseAssociation
  <2>8. CASE Verify \/ Finish \/ Finished
    BY <2>8 DEF Verify, Finish, Finished
  <2>9. QED
    BY <1>2, <2>1, <2>2, <2>3, <2>4, <2>5, <2>6, <2>7, <2>8 DEF Removal
<1>3. CASE Creation
  <2>1. CASE Pair
    BY <1>0, <2>1 DEF Pair
  <2>2. CASE Prepare \/ Claim \/ Refuse
    BY <2>2 DEF Prepare, Claim, Refuse
  <2>3. CASE Write
    <3>1. At("write") /\ (Then("complete") \/ Fails) /\ UNCHANGED connected
      BY <2>3 DEF Write
    <3>2. QED
      BY <3>1
  <2>4. CASE Complete
    BY <2>4 DEF Complete, Rest
  <2>5. CASE CompleteAssociation
    BY <2>5 DEF CompleteAssociation
  <2>6. CASE WriteSchema
    BY <2>6 DEF WriteSchema
  <2>7. ASSUME NEW a \in Peer, WriteAuxiliary(a) PROVE Control'
    BY <2>7 DEF WriteAuxiliary
  <2>8. QED
    BY <1>3, <2>1, <2>2, <2>3, <2>4, <2>5, <2>6, <2>7 DEF Creation
<1>4. CASE Around
  <2>1. ASSUME NEW p \in Peer, Connect(p) PROVE Control'
    BY <2>1 DEF Connect
  <2>2. CASE Expose \/ Disconnect
    BY <2>2 DEF Expose, Disconnect
  <2>3. CASE AccessFails \/ PowerLoss
    BY <2>3 DEF AccessFails, PowerLoss
  <2>4. QED
    BY <1>4, <2>1, <2>2, <2>3 DEF Around
<1>5. CASE UNCHANGED vars
  BY <1>5 DEF vars
<1>6. QED
  BY <1>1, <1>2, <1>3, <1>4, <1>5 DEF Next
-----------------------------------------------------------------------------
(* Flash                                                                   *)

LEMMA JournaledStep == TypeOK /\ Control /\ Journaled /\ [Next]_vars => Journaled'
<1> SUFFICES ASSUME TypeOK, Control, Journaled, [Next]_vars PROVE Journaled'
  OBVIOUS
<1>0. /\ keys \in [Peer -> SUBSET Kind] /\ ram \in [Peer -> SUBSET Kind]
      /\ aux \in [Peer -> Optional] /\ assoc \in [Peer -> Association]
      /\ made \in [Peer -> Class]
      /\ target \in Optional /\ receipt \in Optional /\ connected \in Optional
  BY DEF TypeOK
<1> USE DEF Control, Journaled, Starting, Pairing, Before, Erasing, Removing, Unread,
     At, Goto, Done, Fails, Proceeds, Then, disk, stack
<1>1. CASE Start
  <2>1. ASSUME NEW c \in Class, Boot(c) PROVE Journaled'
    BY <2>1 DEF Boot, Overlap, NeverLegacy
  <2>2. CASE Resume
    <3>1. CASE receipt = NoPeer
      BY <2>2, <3>1 DEF Resume, Overlap, NeverLegacy
    <3>2. CASE receipt \in Peer
      <4>1. Empty[receipt] = {}
        BY <3>2 DEF Empty
      <4>2. QED
        BY <2>2, <3>2, <4>1, NoPeerAssumption DEF Resume, Overlap, NeverLegacy
    <3>3. QED
      BY <1>0, <3>1, <3>2 DEF Optional
  <2>3. CASE Restore \/ Associations
    BY <2>3 DEF Restore, Associations, NeverLegacy, Whole
  <2>4. CASE RecoverOrphan
    BY <2>4 DEF RecoverOrphan, NeverLegacy, Whole
  <2>5. CASE Ready
    BY <2>5 DEF Ready, NeverLegacy
  <2>6. QED
    BY <1>1, <2>1, <2>2, <2>3, <2>4, <2>5 DEF Start
<1>2. CASE Removal
  <2>1. ASSUME NEW p \in Peer, Remove(p) PROVE Journaled'
    BY <2>1 DEF Remove, NeverLegacy
  <2>2. CASE Scan
    BY <2>2 DEF Scan, Overlap, NeverLegacy
  <2>3. CASE Intent
    BY <2>3 DEF Intent, Overlap, NeverLegacy
  <2>4. CASE Companion
    BY <2>4 DEF Companion, Overlap, NeverLegacy
  <2>5. CASE DeleteSecurity
    <3>1. PICK k \in ram[target] :
            /\ ram' = [ram EXCEPT ![target] = @ \ {k}]
            /\ keys' = [keys EXCEPT ![target] = @ \ {k}] \/ UNCHANGED keys
      BY <2>5 DEF DeleteSecurity
    <3>2. /\ At("peer") /\ (Then("peer") \/ Fails)
          /\ UNCHANGED <<aux, schema, assoc, receipt, made, profile, connected, claim>>
      BY <2>5 DEF DeleteSecurity
    <3>3. \A p \in Peer : keys'[p] \subseteq keys[p]
      BY <1>0, <3>1
    <3>4. NeverLegacy'
      BY <3>2, <3>3 DEF NeverLegacy
    <3>5. QED
      BY <3>2, <3>4 DEF Overlap
  <2>6. CASE DeleteAuxiliary
    <3>1. /\ At("peer") /\ Then("peer")
          /\ UNCHANGED <<keys, schema, assoc, receipt, made, ram, profile, connected, claim>>
      BY <2>6 DEF DeleteAuxiliary
    <3>2. \A p \in Peer : aux'[p] = aux[p] \/ aux'[p] = NoPeer
      BY <1>0, <2>6 DEF DeleteAuxiliary
    <3>3. QED
      BY <3>1, <3>2, NoPeerAssumption DEF Overlap, NeverLegacy
  <2>7. CASE DeletedPeer
    BY <2>7 DEF DeletedPeer, NeverLegacy
  <2>8. CASE Rescan \/ Erased
    BY <2>8 DEF Rescan, Erased, Overlap, NeverLegacy
  <2>9. CASE EraseAuxiliary
    <3>1. \A p \in Peer : aux'[p] = aux[p] \/ aux'[p] = NoPeer
      BY <1>0, <2>9 DEF EraseAuxiliary
    <3>2. QED
      BY <2>9, <3>1, NoPeerAssumption DEF EraseAuxiliary, Overlap, NeverLegacy
  <2>10. CASE EraseKey
    <3>1. /\ At("erase") /\ Then("erase")
          /\ UNCHANGED <<aux, schema, assoc, receipt, made, ram, profile, connected, claim>>
      BY <2>10 DEF EraseKey
    <3>2. \A p \in Peer : keys'[p] \subseteq keys[p]
      BY <1>0, <2>10 DEF EraseKey
    <3>3. NeverLegacy'
      BY <3>1, <3>2 DEF NeverLegacy
    <3>4. QED
      BY <3>1, <3>3 DEF Overlap
  <2>11. CASE EraseSchema
    BY <2>11 DEF EraseSchema, Overlap, NeverLegacy
  <2>12. CASE EraseAssociation
    <3>1. NeverLegacy'
      BY <1>0, <2>12 DEF EraseAssociation, NeverLegacy
    <3>2. QED
      BY <2>12, <3>1 DEF EraseAssociation, Overlap
  <2>13. CASE Verify
    BY <2>13 DEF Verify, Overlap, NeverLegacy
  <2>14. CASE Finish
    BY <2>14 DEF Finish, Absent, NeverLegacy
  <2>15. CASE Finished
    BY <2>15 DEF Finished, NeverLegacy
  <2>16. QED
    BY <1>2, <2>1, <2>2, <2>3, <2>4, <2>5, <2>6, <2>7, <2>8, <2>9, <2>10, <2>11, <2>12, <2>13,
       <2>14, <2>15 DEF Removal
<1>3. CASE Creation
  <2>1. CASE Pair \/ Refuse
    BY <2>1 DEF Pair, Refuse, NeverLegacy
  <2>2. CASE Prepare
    BY <2>2 DEF Prepare, Legacy, Creating, NeverLegacy
  <2>3. CASE Claim
    <3>1. NeverLegacy'
      BY <1>0, <2>3 DEF Claim, NeverLegacy
    <3>2. QED
      BY <1>0, <2>3, <3>1 DEF Claim
  <2>4. CASE Write
    <3>1. /\ At("write") /\ (Then("complete") \/ Fails)
          /\ made' = [made EXCEPT ![target] = profile]
          /\ UNCHANGED <<aux, schema, assoc, receipt, profile, connected, claim>>
      BY <2>4 DEF Write
    <3>2. \A p \in Peer \ {target} : keys'[p] = keys[p]
      BY <1>0, <2>4 DEF Write
    <3>3. NeverLegacy'
      BY <1>0, <3>1, <3>2 DEF NeverLegacy
    <3>4. QED
      BY <3>1, <3>3
  <2>5. CASE Complete
    BY <2>5 DEF Complete, Rest, NeverLegacy
  <2>6. CASE CompleteAssociation
    <3>1. NeverLegacy'
      BY <1>0, <2>6 DEF CompleteAssociation, NeverLegacy
    <3>2. QED
      BY <2>6, <3>1 DEF CompleteAssociation
  <2>7. CASE WriteSchema
    BY <2>7 DEF WriteSchema, Bonded, NeverLegacy
  <2>8. ASSUME NEW a \in Peer, WriteAuxiliary(a) PROVE Journaled'
    BY <2>8 DEF WriteAuxiliary, Bonded, NeverLegacy
  <2>9. QED
    BY <1>3, <2>1, <2>2, <2>3, <2>4, <2>5, <2>6, <2>7, <2>8 DEF Creation
<1>4. CASE Around
  <2>1. ASSUME NEW p \in Peer, Connect(p) PROVE Journaled'
    BY <2>1 DEF Connect, NeverLegacy
  <2>2. CASE Expose \/ Disconnect
    BY <2>2 DEF Expose, Disconnect, NeverLegacy
  <2>3. CASE AccessFails
    BY <2>3 DEF AccessFails, NeverLegacy
  <2>4. CASE PowerLoss
    BY <2>4 DEF PowerLoss, NeverLegacy
  <2>5. QED
    BY <1>4, <2>1, <2>2, <2>3, <2>4 DEF Around
<1>5. CASE UNCHANGED vars
  BY <1>5 DEF vars, Overlap, Absent, NeverLegacy, Whole
<1>6. QED
  BY <1>1, <1>2, <1>3, <1>4, <1>5 DEF Next
-----------------------------------------------------------------------------
(* Health                                                                  *)

LEMMA HealthyStep == TypeOK /\ Control /\ Journaled /\ Healthy /\ [Next]_vars => Healthy'
<1> SUFFICES ASSUME TypeOK, Control, Journaled, Healthy, [Next]_vars,
                    ~unhealthy', mode' \in {"hidden", "exposed"}
             PROVE  Healthy'
  BY DEF Healthy
<1>0. /\ keys \in [Peer -> SUBSET Kind] /\ ram \in [Peer -> SUBSET Kind]
      /\ aux \in [Peer -> Optional] /\ assoc \in [Peer -> Association]
      /\ target \in Optional /\ receipt \in Optional /\ connected \in Optional
      /\ profile \in Class
  BY DEF TypeOK
<1> USE DEF Control, Journaled, Starting, Pairing, Before, Erasing, Removing, Healthy,
     At, Goto, Done, Fails, Proceeds, disk, stack
<1>1. CASE Start
  <2>1. \/ \E c \in Class : Boot(c)
        \/ Resume \/ Restore \/ Associations \/ RecoverOrphan
        => mode' \in {"starting", "failed"}
    BY DEF Boot, Resume, Restore, Associations, RecoverOrphan, Then
  <2>2. Ready
    BY <1>1, <2>1 DEF Start
  <2>3. \A p \in Peer : ram[p] = keys[p] /\ keys[p] \in {{}, Kind} /\ assoc[p] # "pending"
    BY <2>2 DEF Ready, Plan, Sound
  <2>4. \A p \in Peer : keys[p] = {} => p \notin schema /\ assoc[p] = "missing"
    BY <2>2 DEF Ready, Orphans, Whole, Kind
  <2>5. QED
    BY <2>2, <2>3, <2>4, NoPeerAssumption DEF Ready, Clean
<1>2. CASE Removal
  <2>1. ASSUME NEW p \in Peer, Remove(p) PROVE Healthy'
    BY <2>1, NoPeerAssumption DEF Remove, Clean
  <2>2. CASE Scan
    BY <2>2 DEF Scan, Clean
  <2>3. CASE Intent
    BY <2>3 DEF Intent, Then, Clean
  <2>4. CASE Companion
    BY <2>4 DEF Companion, Then, Clean
  <2>5. CASE DeleteSecurity
    <3>1. /\ At("peer") /\ Then("peer")
          /\ \A p \in Peer \ {target} : keys'[p] = keys[p] /\ ram'[p] = ram[p]
          /\ UNCHANGED <<aux, schema, assoc, receipt, made, profile, connected, claim>>
      BY <1>0, <2>5 DEF DeleteSecurity, Then
    <3>2. QED
      BY <3>1 DEF Then, Clean
  <2>6. CASE DeleteAuxiliary
    <3>1. /\ At("peer") /\ Then("peer")
          /\ UNCHANGED <<keys, schema, assoc, receipt, made, ram, profile, connected, claim>>
      BY <2>6 DEF DeleteAuxiliary
    <3>2. QED
      BY <3>1 DEF Then, Clean
  <2>7. CASE DeletedPeer \/ Rescan \/ Erased \/ Verify
    BY <2>7 DEF DeletedPeer, Rescan, Erased, Verify, Clean
  <2>8. CASE EraseAuxiliary
    BY <2>8 DEF EraseAuxiliary, Then, Clean
  <2>9. CASE EraseKey
    <3>1. /\ At("erase") /\ Then("erase")
          /\ \A p \in Peer \ {target} : keys'[p] = keys[p]
          /\ UNCHANGED <<aux, schema, assoc, receipt, made, ram, profile, connected, claim>>
      BY <1>0, <2>9 DEF EraseKey
    <3>2. QED
      BY <3>1 DEF Then, Clean
  <2>10. CASE EraseSchema
    BY <2>10 DEF EraseSchema, Then, Clean
  <2>11. CASE EraseAssociation
    <3>1. \A p \in Peer \ {target} : assoc'[p] = assoc[p]
      BY <1>0, <2>11 DEF EraseAssociation
    <3>2. QED
      BY <2>11, <3>1 DEF EraseAssociation, Then, Clean
  <2>12. CASE Finish
    BY <2>12 DEF Finish, Absent, Then, Clean
  <2>13. CASE Finished
    BY <2>13 DEF Finished, Clean
  <2>14. QED
    BY <1>2, <2>1, <2>2, <2>3, <2>4, <2>5, <2>6, <2>7, <2>8, <2>9, <2>10, <2>11, <2>12, <2>13
       DEF Removal
<1>3. CASE Creation
  <2>1. CASE Pair
    <3>1. connected \in Peer /\ \A p \in Peer : Clean(p)
      BY <1>0, <2>1, NoPeerAssumption DEF Pair, Optional
    <3>2. keys[connected] = {}
      BY <2>1, <3>1 DEF Pair, Clean, Kind
    <3>3. \A p \in Peer : Clean(p)'
      BY <2>1, <3>1 DEF Pair, Clean
    <3>4. target' = connected /\ pc' = "prepare" /\ receipt' = NoPeer /\ UNCHANGED keys
      BY <2>1 DEF Pair
    <3>5. QED
      BY <3>1, <3>2, <3>3, <3>4
  <2>2. CASE Prepare
    BY <2>2 DEF Prepare, Legacy, Creating, Owns, Growing, Clean
  <2>3. CASE Claim
    <3>1. assoc'[target] = "pending" /\ \A p \in Peer \ {target} : assoc'[p] = assoc[p]
      BY <1>0, <2>3 DEF Claim
    <3>2. QED
      BY <2>3, <3>1 DEF Claim, Admissible, Growing, Clean
  <2>4. CASE Refuse
    BY <2>4 DEF Refuse, Legacy, Creating, Owns, Growing, Clean
  <2>5. CASE Write
    <3>1. PICK k \in Kind :
            /\ k = "our" \/ "our" \in ram[target]
            /\ ram' = [ram EXCEPT ![target] = @ \cup {k}]
            /\ keys' = [keys EXCEPT ![target] = @ \cup {k}] /\ Proceeds("complete")
      BY <2>5 DEF Write, Then
    <3>2. UNCHANGED <<aux, schema, assoc, receipt, profile, connected, claim>>
      BY <2>5 DEF Write
    <3>3. \A p \in Peer \ {target} : keys'[p] = keys[p] /\ ram'[p] = ram[p]
      BY <1>0, <3>1
    <3>4. ram'[target] = ram[target] \cup {k} /\ keys'[target] = keys[target] \cup {k}
      BY <1>0, <2>5, <3>1 DEF Write
    <3>5. keys[target] \cup {k} \in {{"our"}, Kind}
      BY <2>5, <3>1 DEF Write, Growing, Kind
    <3>6. \A p \in Peer \ {target} : Clean(p)'
      BY <3>1, <3>2, <3>3, <2>5 DEF Write, Clean
    <3>7. Growing'
      BY <2>5, <3>1, <3>2, <3>4 DEF Write, Growing
    <3>8. pc' = "complete" /\ target' = target /\ receipt' = NoPeer
      BY <2>5, <3>1, <3>2 DEF Write
    <3>9. QED
      BY <3>4, <3>5, <3>6, <3>7, <3>8
  <2>6. CASE Complete
    <3>1. /\ UNCHANGED <<keys, schema, assoc, receipt, ram, profile, claim, mode, unhealthy>>
          /\ At("complete") /\ receipt = NoPeer /\ Growing
          /\ keys[target] \in {{"our"}, Kind}
      BY <2>6 DEF Complete
    <3>2. \A p \in Peer \ {target} : Clean(p)'
      BY <2>6, <3>1 DEF Complete, Clean
    <3>3. CASE ram[target] = Kind
      <4>1. PICK t \in Peer : t = target
        BY <2>6 DEF Complete
      <4>2. Done /\ (profile = "strict" \/ ~Whole(keys, target))
        BY <2>6, <3>3 DEF Complete, Rest
      <4>3. Clean(t)'
        BY <3>1, <3>3, <4>1, <4>2 DEF Growing, Clean, Whole, Kind
      <4>4. QED
        BY <3>1, <3>2, <4>1, <4>2, <4>3
    <3>4. CASE ram[target] # Kind
      <4>1. Growing' /\ keys'[target] = {"our"}
        BY <2>6, <3>1, <3>4 DEF Complete, Rest, Growing
      <4>2. QED
        BY <2>6, <3>1, <3>2, <3>4, <4>1 DEF Complete, Rest
    <3>5. QED
      BY <3>3, <3>4
  <2>7. CASE CompleteAssociation
    <3>1. assoc'[target] = "complete" /\ \A p \in Peer \ {target} : assoc'[p] = assoc[p]
      BY <1>0, <2>7 DEF CompleteAssociation
    <3>2. /\ UNCHANGED <<keys, schema, receipt, ram>> /\ Done /\ receipt = NoPeer
          /\ Growing /\ Whole(keys, target) /\ At("complete") /\ UNCHANGED <<mode, unhealthy>>
      BY <2>7 DEF CompleteAssociation
    <3>3. \A p \in Peer : p = target => Clean(p)'
      BY <3>1, <3>2 DEF Growing, Clean, Whole, Kind
    <3>4. \A p \in Peer \ {target} : Clean(p)'
      BY <3>1, <3>2 DEF Clean
    <3>5. QED
      BY <3>2, <3>3, <3>4
  <2>8. CASE WriteSchema
    BY <2>8 DEF WriteSchema, Bonded, Whole, Clean, Kind
  <2>9. ASSUME NEW a \in Peer, WriteAuxiliary(a) PROVE Healthy'
    BY <2>9 DEF WriteAuxiliary, Bonded, Clean
  <2>10. QED
    BY <1>3, <2>1, <2>2, <2>3, <2>4, <2>5, <2>6, <2>7, <2>8, <2>9 DEF Creation
<1>4. CASE Around
  <2>1. ASSUME NEW p \in Peer, Connect(p) PROVE Healthy'
    BY <2>1 DEF Connect, Clean
  <2>2. CASE Expose \/ Disconnect
    BY <2>2 DEF Expose, Disconnect, Clean
  <2>3. CASE AccessFails \/ PowerLoss
    BY <2>3 DEF AccessFails, PowerLoss
  <2>4. QED
    BY <1>4, <2>1, <2>2, <2>3 DEF Around
<1>5. CASE UNCHANGED vars
  BY <1>5 DEF vars, Growing, Clean
<1>6. QED
  BY <1>1, <1>2, <1>3, <1>4, <1>5 DEF Next
-----------------------------------------------------------------------------
(* What follows                                                            *)

LEMMA Invariant == Spec => []Inv
<1>1. Init => Inv
  <2> SUFFICES ASSUME Init PROVE Inv
    OBVIOUS
  <2>1. TypeOK
    BY DEF Init, TypeOK, Empty, Kind, Class, Association, Optional
  <2>2. Control
    BY DEF Init, Control, Starting, Pairing, Before, Erasing, Removing
  <2>3. Journaled
    BY DEF Init, Journaled, Unread, Starting, Pairing, Before, Erasing, Removing, NeverLegacy, Empty
  <2>4. Healthy
    BY DEF Init, Healthy
  <2>5. QED
    BY <2>1, <2>2, <2>3, <2>4 DEF Inv
<1>2. Inv /\ [Next]_vars => Inv'
  BY TypeStep, ControlStep, JournaledStep, HealthyStep DEF Inv
<1>3. QED
  BY <1>1, <1>2, PTL DEF Spec

(* No interruption of a creation or a removal leaves keys of another class *)
(* without their record, which a start would import as strict ones.        *)
THEOREM NeverLegacyCorrect == Spec => []NeverLegacy
<1>1. Inv => NeverLegacy
  BY DEF Inv, Journaled
<1>2. QED
  BY <1>1, Invariant, PTL

(* Success of a removal is only answered, and a start only goes on, when   *)
(* nothing of the peer is left.                                            *)
THEOREM RemovedWholeCorrect == Spec => []RemovedWhole
<1>1. Inv => RemovedWhole
  BY DEF Inv, Journaled, RemovedWhole, At, Erasing
<1>2. QED
  BY <1>1, Invariant, PTL

(* Without a failure, an idle stack and its flash hold the same whole      *)
(* bonds, and nothing besides.                                             *)
THEOREM HealthyWholeCorrect == Spec => []HealthyWhole
<1>1. Inv => HealthyWhole
  <2> SUFFICES ASSUME Inv, At("idle"), mode \in {"hidden", "exposed"}, ~unhealthy
               PROVE  /\ receipt = NoPeer /\ ram = keys /\ Sound(keys)
                      /\ \A p \in Peer : keys[p] = {} => p \notin schema /\ assoc[p] = "missing"
    BY DEF HealthyWhole
  <2>1. target = NoPeer /\ receipt = NoPeer
    BY DEF Inv, Control, Healthy, At
  <2>2. \A p \in Peer : Clean(p)
    BY <2>1, NoPeerAssumption DEF Inv, Healthy
  <2>3. ram = keys
    BY <2>2 DEF Inv, TypeOK, Clean
  <2>4. QED
    BY <2>1, <2>2, <2>3 DEF Clean, Sound
<1>2. QED
  BY <1>1, Invariant, PTL

(* A removal, a failure or a start takes nothing from any other peer, not  *)
(* even when NimBLE deletes by an address two peers may share.             *)
THEOREM OthersKeptCorrect == Spec => OthersKept
<1>1. Inv /\ [Next]_vars => [\A p \in Peer : p \in {receipt, receipt'} \/ Keeps(p)]_vars
  <2> SUFFICES ASSUME Inv, Next, NEW p \in Peer, p # receipt, p # receipt'
               PROVE  Keeps(p)
    OBVIOUS
  <2>0. /\ keys \in [Peer -> SUBSET Kind] /\ aux \in [Peer -> Optional]
        /\ assoc \in [Peer -> Association] /\ Control /\ Journaled
    BY DEF Inv, TypeOK
  <2> USE DEF Keeps, At, disk
  <2>1. CASE Start
    BY <2>1 DEF Start, Boot, Resume, Restore, Associations, RecoverOrphan, Ready, Orphans
  <2>2. CASE Removal
    <3>1. CASE UNCHANGED disk
      BY <3>1
    <3>2. CASE Intent
      BY <3>2 DEF Intent
    <3>3. CASE Finish
      BY <3>3 DEF Finish
    <3>4. ASSUME target = receipt PROVE
            Companion \/ DeleteSecurity \/ DeleteAuxiliary \/ EraseAuxiliary \/ EraseKey
              \/ EraseSchema \/ EraseAssociation => Keeps(p)
      <4>1. CASE DeleteSecurity \/ EraseKey
        <5>1. keys'[p] = keys[p] /\ UNCHANGED <<aux, schema, assoc>>
          BY <2>0, <3>4, <4>1 DEF DeleteSecurity, EraseKey
        <5>2. QED
          BY <5>1
      <4>2. CASE DeleteAuxiliary
        <5>1. aux[p] # target
          BY <2>0, <3>4, <4>2 DEF DeleteAuxiliary, Journaled, Overlap, Erasing
        <5>2. aux'[p] = aux[p] /\ UNCHANGED <<keys, schema, assoc>>
          BY <2>0, <4>2, <5>1 DEF DeleteAuxiliary
        <5>3. QED
          BY <5>2
      <4>3. CASE Companion \/ EraseAuxiliary \/ EraseSchema \/ EraseAssociation
        BY <2>0, <3>4, <4>3 DEF Companion, EraseAuxiliary, EraseSchema, EraseAssociation
      <4>4. QED
        BY <4>1, <4>2, <4>3
    <3>5. QED
      BY <2>0, <2>2, <3>1, <3>2, <3>3, <3>4
         DEF Removal, Remove, Scan, DeletedPeer, Rescan, Erased, Verify, Finished, Companion,
             DeleteSecurity, DeleteAuxiliary, EraseAuxiliary, EraseKey, EraseSchema,
             EraseAssociation, Journaled, Erasing
  <2>3. CASE Creation
    <3>1. CASE Claim \/ CompleteAssociation
      BY <2>0, <3>1 DEF Claim, CompleteAssociation
    <3>2. CASE Write
      <4>1. keys[p] \subseteq keys'[p] /\ UNCHANGED <<aux, schema, assoc>>
        BY <2>0, <3>2 DEF Write
      <4>2. QED
        BY <4>1
    <3>3. ASSUME NEW a \in Peer, WriteAuxiliary(a) PROVE Keeps(p)
      BY <2>0, <3>3, NoPeerAssumption DEF WriteAuxiliary
    <3>4. CASE Pair \/ Prepare \/ Refuse \/ Complete \/ WriteSchema
      BY <3>4 DEF Pair, Prepare, Refuse, Complete, WriteSchema
    <3>5. QED
      BY <2>3, <3>1, <3>2, <3>3, <3>4 DEF Creation
  <2>4. CASE Around
    BY <2>4 DEF Around, Expose, Connect, Disconnect, AccessFails, PowerLoss
  <2>5. QED
    BY <2>1, <2>2, <2>3, <2>4 DEF Next
<1>2. QED
  BY <1>1, Invariant, PTL DEF Spec, OthersKept

\* The steps that touch what a start would find: all others keep it.
LEMMA FoundStep ==
  ASSUME Inv, Next
  PROVE  \/ Intent \/ DeleteSecurity \/ EraseKey \/ EraseAssociation \/ Finish
         \/ Claim \/ Write \/ CompleteAssociation
         \/ UNCHANGED <<keys, assoc, receipt>>
<1> USE DEF disk, vars
<1>1. Start => UNCHANGED <<keys, assoc, receipt>>
  BY DEF Start, Boot, Resume, Restore, Associations, RecoverOrphan, Ready
<1>2. Around => UNCHANGED <<keys, assoc, receipt>>
  BY DEF Around, Expose, Connect, Disconnect, AccessFails, PowerLoss
<1>3. \/ (\E p \in Peer : Remove(p)) \/ Scan \/ Companion \/ DeleteAuxiliary \/ DeletedPeer
      \/ Rescan \/ EraseAuxiliary \/ Erased \/ EraseSchema \/ Verify \/ Finished
      => UNCHANGED <<keys, assoc, receipt>>
  BY DEF Remove, Scan, Companion, DeleteAuxiliary, DeletedPeer, Rescan, EraseAuxiliary, Erased,
         EraseSchema, Verify, Finished
<1>4. \/ Pair \/ Prepare \/ Refuse \/ Complete \/ WriteSchema
      \/ (\E a \in Peer : WriteAuxiliary(a))
      => UNCHANGED <<keys, assoc, receipt>>
  BY DEF Pair, Prepare, Refuse, Complete, WriteSchema, WriteAuxiliary
<1>5. CASE Removal
  BY <1>3, <1>5 DEF Removal
<1>6. CASE Creation
  BY <1>4, <1>6 DEF Creation
<1>7. QED
  BY <1>1, <1>2, <1>5, <1>6 DEF Next

(* A bond comes with the pairing of its own connection and goes at the     *)
(* instant its removal is journaled, for good; nothing in between is seen. *)
THEOREM GoneForGoodCorrect == Spec => GoneForGood
<1>1. Init => Bonds!Init
  BY NoPeerAssumption DEF Init, Bonds!Init, Found, Whole, Empty, Kind
<1>2. Inv /\ [Next]_vars => [Bonds!Next]_(Bonds!vars)
  <2> SUFFICES ASSUME Inv, Next PROVE Bonds!Next
    BY DEF vars, disk, stack, Bonds!vars, Found, Whole
  <2>0. /\ keys \in [Peer -> SUBSET Kind] /\ assoc \in [Peer -> Association]
        /\ receipt \in Optional /\ Control /\ Journaled
    BY DEF Inv, TypeOK
  <2> USE DEF Bonds!Next, Bonds!Environment, At
  <2>1. CASE Intent
    <3>1. target \in Peer /\ receipt = NoPeer /\ receipt' = target /\ UNCHANGED <<keys, assoc>>
      BY <2>0, <2>1 DEF Intent, Control, Removing, Before
    <3>2. Found' = Found \ {target}
      BY <3>1, NoPeerAssumption DEF Found, Whole
    <3>3. QED
      BY <3>1, <3>2 DEF Bonds!Remove
  <2>2. CASE DeleteSecurity \/ EraseKey \/ EraseAssociation
    <3>1. receipt = target /\ UNCHANGED receipt
      BY <2>0, <2>2 DEF DeleteSecurity, EraseKey, EraseAssociation, Journaled, Erasing
    <3>2. \A p \in Peer \ {target} : keys'[p] = keys[p] /\ assoc'[p] = assoc[p]
      BY <2>0, <2>2 DEF DeleteSecurity, EraseKey, EraseAssociation
    <3>3. Found' = Found
      BY <3>1, <3>2 DEF Found, Whole
    <3>4. QED
      BY <3>3
  <2>3. CASE Finish
    <3>1. receipt = target /\ keys[target] = {} /\ receipt' = NoPeer /\ UNCHANGED <<keys, assoc>>
      BY <2>3 DEF Finish, Absent
    <3>2. Found' = Found
      BY <3>1, NoPeerAssumption DEF Found, Whole, Kind
    <3>3. QED
      BY <3>2
  <2>4. CASE Claim
    <3>1. keys[target] = {} /\ UNCHANGED <<keys, receipt>>
      BY <2>4 DEF Claim, Admissible
    <3>2. \A p \in Peer \ {target} : assoc'[p] = assoc[p]
      BY <2>0, <2>4 DEF Claim
    <3>3. Found' = Found
      BY <3>1, <3>2 DEF Found, Whole, Kind
    <3>4. QED
      BY <3>3
  <2>5. CASE Write \/ CompleteAssociation
    <3>1. target = connected /\ target \in Peer /\ UNCHANGED receipt
      BY <2>0, <2>5 DEF Write, CompleteAssociation, Control, Pairing
    <3>2. \A p \in Peer \ {target} : keys'[p] = keys[p] /\ assoc'[p] = assoc[p]
      BY <2>0, <2>5 DEF Write, CompleteAssociation
    <3>3. keys[target] \subseteq keys'[target] /\ keys'[target] \subseteq Kind
      <4>1. CASE Write
        <5>1. PICK k \in Kind :
                keys' = [keys EXCEPT ![target] = @ \cup {k}] \/ UNCHANGED keys
          BY <4>1 DEF Write
        <5>2. QED
          BY <2>0, <3>1, <5>1
      <4>2. CASE CompleteAssociation
        BY <2>0, <3>1, <4>2 DEF CompleteAssociation
      <4>3. QED
        BY <2>5, <4>1, <4>2
    <3>4. assoc[target] # "pending" => assoc'[target] # "pending"
      BY <2>0, <2>5 DEF Write, CompleteAssociation
    <3>5. target \in Found => target \in Found'
      BY <3>1, <3>3, <3>4 DEF Found, Whole
    <3>6. Found' = Found \/ Found' = Found \cup {connected}
      BY <3>1, <3>2, <3>5 DEF Found, Whole
    <3>7. QED
      BY <3>1, <3>6 DEF Bonds!Pair
  <2>6. CASE UNCHANGED <<keys, assoc, receipt>>
    BY <2>6 DEF Found, Whole
  <2>7. QED
    BY <2>1, <2>2, <2>3, <2>4, <2>5, <2>6, FoundStep
<1>3. QED
  BY <1>1, <1>2, Invariant, PTL DEF Spec, GoneForGood, Bonds!Spec
=============================================================================
