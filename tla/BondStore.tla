----------------------------- MODULE BondStore -----------------------------
(***************************************************************************)
(* The bonds of ble_transport::Backend in flash: creation of a bond with   *)
(* its association record, journaled removal, and the recovery that every  *)
(* initialization runs before the host starts.  NVS commits one key at a   *)
(* time; power may go between any two of them, and any access may fail,    *)
(* a write before or after it took effect.                                 *)
(*                                                                         *)
(* The executor and the NimBLE host task are serialized here: a removal    *)
(* needs a hidden idle stack, a creation a connection.                     *)
(***************************************************************************)
CONSTANTS
    Peer,       \* exact peer identities
    NoPeer      \* none of them

ASSUME NoPeerAssumption == NoPeer \notin Peer

VARIABLES
    keys,       \* NVS nimble_bond: the OUR_SEC and PEER_SEC records of a peer
    aux,        \* NVS nimble_bond: the address a peer's RPA or CCCD record is under
    schema,     \* NVS hid_schema: the peers with a schema revision
    assoc,      \* NVS hid_assoc: the state of a peer's association record
    receipt,    \* NVS hid_bond_tx: the peer whose deletion is journaled
    ram,        \* the security records in NimBLE's RAM store
    profile,    \* bond class of the selected profile
    mode,       \* off, starting, failed, hidden, exposed
    unhealthy,  \* security_inhibit_: a persistent failure was observed
    connected,  \* the peer that is connected
    claim,      \* association_creation_: the peer this connection creates
    pc, target, \* where the transaction under way is, and about whom
    made        \* history: the class the security records of a peer were made under

disk == <<keys, aux, schema, assoc, receipt, made>>
stack == <<profile, mode, connected, claim>>
vars == <<disk, ram, stack, unhealthy, pc, target>>

Kind == {"our", "peer"}
Class == {"strict", "mouse"}        \* kStrictComposite, and a class of its own record
Association == {"missing", "pending", "complete"}
Optional == Peer \cup {NoPeer}
Empty == [p \in Peer |-> {}]

Whole(store, p) == store[p] = Kind
\* make_recovery_plan and list_bonds: no half bond, nothing pending.
Sound(store) == \A p \in Peer : store[p] \in {{}, Kind} /\ assoc[p] # "pending"
\* An auxiliary record of another peer is kept under this peer's address.
Overlap(t) == \E q \in Peer \ {t} : aux[q] = t
\* verify_durable_target_absent and verify_schema_absent.
Absent(t) == keys[t] = {} /\ aux[t] = NoPeer /\ t \notin schema /\ assoc[t] = "missing"

At(point) == pc = point
Goto(point) == pc' = point /\ UNCHANGED target
Done == pc' = "idle" /\ target' = NoPeer

\* observe_store_failure: the transaction ends; a start that fails stays failed,
\* because instance_ is set and initialize returns at once from then on.
Fails ==
    /\ Done /\ unhealthy' = TRUE
    /\ mode' = IF mode = "starting" THEN "failed" ELSE mode
Proceeds(point) == Goto(point) /\ UNCHANGED <<mode, unhealthy>>
\* What follows a write: it is reported done, or failed although it took effect.
Then(point) == Proceeds(point) \/ Fails
-----------------------------------------------------------------------------
(* Start: Backend::initialize                                              *)

Boot(c) ==
    /\ mode = "off" /\ mode' = "starting" /\ profile' = c
    /\ pc' = "resume" /\ UNCHANGED <<disk, ram, unhealthy, connected, claim, target>>

\* resume_exact_deletion, from the receipt alone.
Resume ==
    /\ At("resume")
    /\ IF receipt = NoPeer THEN Goto("restore") ELSE pc' = "rescan" /\ target' = receipt
    /\ UNCHANGED <<disk, ram, stack, unhealthy>>

\* NimBLE reads its records back.
Restore ==
    /\ At("restore") /\ Goto("associations") /\ ram' = keys
    /\ UNCHANGED <<disk, stack, unhealthy>>

\* validate_complete_associations: a record is complete, and of a whole bond.
Associations ==
    /\ At("associations")
    /\ \A p \in Peer : assoc[p] = "missing" \/ (assoc[p] = "complete" /\ Whole(keys, p))
    /\ Goto("orphans") /\ UNCHANGED <<disk, ram, stack, unhealthy>>

\* make_recovery_plan on what was read: any doubt and nothing is changed.
Plan == ram = keys /\ Sound(keys)
Orphans == {p \in schema : keys[p] = {}}
RecoverOrphan ==
    /\ At("orphans") /\ Plan
    /\ \E p \in Orphans : schema' = schema \ {p}
    /\ Then("orphans")
    /\ UNCHANGED <<keys, aux, assoc, receipt, made, ram, profile, connected, claim>>
\* Mutant: the first orphan ends the recovery.
ReadyWithOrphans ==
    /\ At("orphans") /\ Plan
    /\ Done /\ mode' = "hidden"
    /\ UNCHANGED <<disk, ram, profile, connected, claim, unhealthy>>
Ready ==
    /\ At("orphans") /\ Plan /\ Orphans = {}
    /\ Done /\ mode' = "hidden"
    /\ UNCHANGED <<disk, ram, profile, connected, claim, unhealthy>>
-----------------------------------------------------------------------------
(* Removal: Backend::remove_bond and run_journaled_removal                 *)

\* bond_remove_eligible, and an inventory that is healthy and has the peer once.
Remove(p) ==
    /\ At("idle") /\ mode = "hidden" /\ ~unhealthy
    /\ ram[p] # {} /\ Sound(ram)
    /\ pc' = "scan" /\ target' = p
    /\ UNCHANGED <<disk, ram, stack, unhealthy>>

\* Mutant: an RPA record of another peer under the target's address is let pass.
ScanAnyAlias ==
    /\ At("scan") /\ Goto("intent")
    /\ UNCHANGED <<disk, ram, stack, unhealthy>>
Scan ==
    /\ At("scan") /\ ~Overlap(target) /\ Goto("intent")
    /\ UNCHANGED <<disk, ram, stack, unhealthy>>

\* begin_delete_intent: from here on the removal will be completed.
Intent ==
    /\ At("intent") /\ receipt = NoPeer
    /\ receipt' = target /\ Then("companion")
    /\ UNCHANGED <<keys, aux, schema, assoc, made, ram, profile, connected, claim>>

\* run_schema_first_removal: the companion record, then NimBLE's own deletion.
Companion ==
    /\ At("companion")
    /\ schema' = schema \ {target} /\ Then("peer")
    /\ UNCHANGED <<keys, aux, assoc, receipt, made, ram, profile, connected, claim>>

\* ble_store_util_delete_peer, record by record through store_delete: a failed
\* deletion may leave the record in flash.
DeleteSecurity ==
    /\ At("peer")
    /\ \E k \in ram[target] :
         /\ ram' = [ram EXCEPT ![target] = @ \ {k}]
         /\ \/ keys' = [keys EXCEPT ![target] = @ \ {k}] /\ Then("peer")
            \/ UNCHANGED keys /\ Fails
    /\ UNCHANGED <<aux, schema, assoc, receipt, made, profile, connected, claim>>
\* NimBLE matches an auxiliary record by the address it is kept under.
DeleteAuxiliary ==
    /\ At("peer")
    /\ \E q \in Peer : aux[q] = target /\ aux' = [aux EXCEPT ![q] = NoPeer]
    /\ Then("peer")
    /\ UNCHANGED <<keys, schema, assoc, receipt, made, ram, profile, connected, claim>>
DeletedPeer ==
    /\ At("peer") /\ ram[target] = {} /\ Goto("rescan")
    /\ UNCHANGED <<disk, ram, stack, unhealthy>>

\* complete_durable_target: every record of the target that is still in flash,
\* then schema and association.
Rescan ==
    /\ At("rescan") /\ ~Overlap(target) /\ Goto("erase")
    /\ UNCHANGED <<disk, ram, stack, unhealthy>>
EraseAuxiliary ==
    /\ At("erase") /\ aux[target] # NoPeer
    /\ aux' = [aux EXCEPT ![target] = NoPeer] /\ Then("erase")
    /\ UNCHANGED <<keys, schema, assoc, receipt, made, ram, profile, connected, claim>>
EraseKey ==
    /\ At("erase") /\ aux[target] = NoPeer
    /\ \E k \in keys[target] :
         /\ k = "our" \/ "our" \notin keys[target]
         /\ keys' = [keys EXCEPT ![target] = @ \ {k}]
    /\ Then("erase")
    /\ UNCHANGED <<aux, schema, assoc, receipt, made, ram, profile, connected, claim>>
\* Mutant: the auxiliary records are erased, the keys are left to the sidecars.
ErasedAuxiliary ==
    /\ At("erase") /\ aux[target] = NoPeer /\ Goto("sidecar")
    /\ UNCHANGED <<disk, ram, stack, unhealthy>>
Erased ==
    /\ At("erase") /\ aux[target] = NoPeer /\ keys[target] = {} /\ Goto("sidecar")
    /\ UNCHANGED <<disk, ram, stack, unhealthy>>
EraseSchema ==
    /\ At("sidecar")
    /\ schema' = schema \ {target} /\ Then("association")
    /\ UNCHANGED <<keys, aux, assoc, receipt, made, ram, profile, connected, claim>>
EraseAssociation ==
    /\ At("association")
    /\ assoc' = [assoc EXCEPT ![target] = "missing"] /\ Then("verify")
    /\ UNCHANGED <<keys, aux, schema, receipt, made, ram, profile, connected, claim>>

\* verify_durable_target_absent, verify_ram, and again in finish_delete_intent.
Verify ==
    /\ At("verify") /\ Absent(target) /\ (mode = "hidden" => ram[target] = {} /\ Sound(ram))
    /\ Goto("finish") /\ UNCHANGED <<disk, ram, stack, unhealthy>>
\* Mutant: the receipt is cleared as soon as NimBLE has deleted what it knows of.
FinishEarly ==
    /\ At("finish") \/ At("rescan")
    /\ receipt' = NoPeer /\ Then("finished")
    /\ UNCHANGED <<keys, aux, schema, assoc, made, ram, profile, connected, claim>>
Finish ==
    /\ At("finish") /\ receipt = target /\ Absent(target)
    /\ receipt' = NoPeer /\ Then("finished")
    /\ UNCHANGED <<keys, aux, schema, assoc, made, ram, profile, connected, claim>>
\* Success is answered, or the start goes on.
Finished ==
    /\ At("finished") /\ target' = NoPeer
    /\ pc' = IF mode = "starting" THEN "restore" ELSE "idle"
    /\ UNCHANGED <<disk, ram, stack, unhealthy>>
-----------------------------------------------------------------------------
(* Creation: Backend::store_write with prepare_association and             *)
(* complete_association, and the records a bonded peer adds later          *)

\* A peer without a peer record in RAM; REPEAT_PAIRING is ignored otherwise.
Pair ==
    /\ At("idle") /\ connected # NoPeer /\ "peer" \notin ram[connected]
    /\ pc' = "prepare" /\ target' = connected
    /\ UNCHANGED <<disk, ram, stack, unhealthy>>

Owns == claim = target
\* association_compatibility of an unowned record with the strict class.
Legacy == profile = "strict" /\ assoc[target] = "missing"
Creating == profile = "mouse" /\ ~unhealthy /\ Owns /\ assoc[target] = "pending"
Admissible ==
    /\ profile = "mouse" /\ ~unhealthy /\ claim = NoPeer
    /\ assoc[target] = "missing" /\ keys[target] = {} /\ ram[target] = {}
Prepare ==
    /\ At("prepare") /\ (Legacy \/ Creating) /\ Goto("write")
    /\ UNCHANGED <<disk, ram, stack, unhealthy>>
\* Pending metadata is in flash before the first security record is.
Claim ==
    /\ At("prepare") /\ Admissible
    /\ assoc' = [assoc EXCEPT ![target] = "pending"]
    /\ \/ Proceeds("write") /\ claim' = target
       \/ Fails /\ UNCHANGED claim
    /\ UNCHANGED <<keys, aux, schema, receipt, made, ram, profile, connected>>
\* kIncompatible or kIncomplete: the record in flash stays as it is.
Refuse ==
    /\ At("prepare") /\ ~(Legacy \/ Creating \/ Admissible) /\ Done
    /\ UNCHANGED <<disk, ram, stack, unhealthy>>

Write ==
    /\ At("write")
    /\ \E k \in Kind :
         /\ k = "our" \/ "our" \in ram[target]
         /\ ram' = [ram EXCEPT ![target] = @ \cup {k}]
         /\ made' = [made EXCEPT ![target] = profile]
         /\ \/ keys' = [keys EXCEPT ![target] = @ \cup {k}] /\ Then("complete")
            \/ UNCHANGED keys /\ Fails
    /\ UNCHANGED <<aux, schema, assoc, receipt, profile, connected, claim>>

Rest == IF ram[target] = Kind THEN Done ELSE Goto("prepare")
Complete ==
    /\ At("complete") /\ (profile = "strict" \/ ~Whole(keys, target)) /\ Rest
    /\ UNCHANGED <<disk, ram, stack, unhealthy>>
CompleteAssociation ==
    /\ At("complete") /\ profile = "mouse" /\ Whole(keys, target) /\ Owns
    /\ assoc' = [assoc EXCEPT ![target] = "complete"]
    /\ \/ Done /\ UNCHANGED <<mode, unhealthy>>
       \/ Fails
    /\ UNCHANGED <<keys, aux, schema, receipt, made, ram, profile, connected, claim>>

\* compatible_association of the connected peer.
Compatible == IF profile = "strict" THEN assoc[connected] = "missing"
                                    ELSE assoc[connected] = "complete"
Bonded == At("idle") /\ connected # NoPeer /\ Whole(ram, connected) /\ Compatible
\* persist_gatt_schema_current
WriteSchema ==
    /\ Bonded /\ ~unhealthy /\ schema' = schema \cup {connected}
    /\ UNCHANGED <<keys, aux, assoc, receipt, made, ram, stack, unhealthy, pc, target>>
\* NimBLE stores a CCCD under the peer's identity, an RPA record under any address.
WriteAuxiliary(a) ==
    /\ Bonded /\ aux' = [aux EXCEPT ![connected] = a]
    /\ UNCHANGED <<keys, schema, assoc, receipt, made, ram, stack, unhealthy, pc, target>>
-----------------------------------------------------------------------------
(* The stack around it, and its failures                                   *)

Expose ==
    /\ At("idle") /\ mode = "hidden" /\ ~unhealthy /\ mode' = "exposed"
    /\ UNCHANGED <<disk, ram, profile, connected, claim, unhealthy, pc, target>>
Connect(p) ==
    /\ At("idle") /\ mode = "exposed" /\ connected = NoPeer /\ connected' = p
    /\ UNCHANGED <<disk, ram, profile, mode, claim, unhealthy, pc, target>>
\* A disconnect, alone or by a disable.
Disconnect ==
    /\ At("idle") /\ mode = "exposed" /\ mode' \in {"exposed", "hidden"}
    /\ connected' = NoPeer /\ claim' = NoPeer
    /\ UNCHANGED <<disk, ram, profile, unhealthy, pc, target>>

\* Any read or write fails, or what was read is not as it must be.
AccessFails ==
    /\ ~At("idle") /\ Fails
    /\ UNCHANGED <<disk, ram, profile, connected, claim>>

\* Power goes: flash is as it is, everything else is gone.
PowerLoss ==
    /\ mode' = "off" /\ pc' = "idle" /\ target' = NoPeer
    /\ ram' = Empty /\ unhealthy' = FALSE /\ connected' = NoPeer /\ claim' = NoPeer
    /\ UNCHANGED <<disk, profile>>
-----------------------------------------------------------------------------
\* Flash is empty, or holds the schema records whose bonds were removed before
\* removals were journaled ("several historical orphan records").
Init ==
    /\ keys = Empty /\ aux = [p \in Peer |-> NoPeer] /\ schema \in SUBSET Peer
    /\ assoc = [p \in Peer |-> "missing"] /\ receipt = NoPeer
    /\ made = [p \in Peer |-> "strict"]
    /\ ram = Empty /\ profile = "strict" /\ mode = "off" /\ unhealthy = FALSE
    /\ connected = NoPeer /\ claim = NoPeer /\ pc = "idle" /\ target = NoPeer

Start == (\E c \in Class : Boot(c)) \/ Resume \/ Restore \/ Associations \/ RecoverOrphan \/ Ready
Removal ==
    \/ (\E p \in Peer : Remove(p)) \/ Scan \/ Intent \/ Companion
    \/ DeleteSecurity \/ DeleteAuxiliary \/ DeletedPeer
    \/ Rescan \/ EraseAuxiliary \/ EraseKey \/ Erased \/ EraseSchema \/ EraseAssociation
    \/ Verify \/ Finish \/ Finished
Creation ==
    \/ Pair \/ Prepare \/ Claim \/ Refuse \/ Write \/ Complete \/ CompleteAssociation
    \/ WriteSchema \/ (\E a \in Peer : WriteAuxiliary(a))
Around == Expose \/ (\E p \in Peer : Connect(p)) \/ Disconnect \/ AccessFails \/ PowerLoss
Next == Start \/ Removal \/ Creation \/ Around

Spec == Init /\ [][Next]_vars
-----------------------------------------------------------------------------
TypeOK ==
    /\ keys \in [Peer -> SUBSET Kind] /\ ram \in [Peer -> SUBSET Kind]
    /\ aux \in [Peer -> Optional] /\ schema \in SUBSET Peer
    /\ assoc \in [Peer -> Association] /\ made \in [Peer -> Class]
    /\ {receipt, connected, claim, target} \subseteq Optional
    /\ profile \in Class /\ unhealthy \in BOOLEAN
    /\ mode \in {"off", "starting", "failed", "hidden", "exposed"}
    /\ pc \in {"idle", "resume", "restore", "associations", "orphans",
               "scan", "intent", "companion", "peer", "rescan", "erase", "sidecar",
               "association", "verify", "finish", "finished",
               "prepare", "write", "complete"}

\* "Journaled exact bond deletion removes association only after all target keys
\* are durably absent, so interrupted deletion cannot import a bond as legacy
\* strict": keys made under another class never lack their record, whatever was
\* interrupted in their creation or removal.
NeverLegacy == \A p \in Peer : keys[p] # {} /\ made[p] = "mouse" => assoc[p] # "missing"

\* A removal that answers success has left nothing of its peer, in flash or in
\* RAM, and no receipt; so has one that a start completed.
RemovedWhole == At("finished") => Absent(target) /\ ram[target] = {} /\ receipt = NoPeer

\* While no failure was seen, a stack at rest agrees with its flash: no receipt,
\* no half bond, nothing pending, no schema or association without its bond.
HealthyWhole ==
    At("idle") /\ mode \in {"hidden", "exposed"} /\ ~unhealthy =>
        /\ receipt = NoPeer /\ ram = keys /\ Sound(keys)
        /\ \A p \in Peer : keys[p] = {} => p \notin schema /\ assoc[p] = "missing"

Keeps(p) ==
    /\ keys[p] \subseteq keys'[p]
    /\ aux'[p] = NoPeer => aux[p] = NoPeer
    /\ assoc'[p] = "missing" => assoc[p] = "missing"
    /\ p \in schema \ schema' => keys[p] = {}

\* "No automatic cleanup of unjournaled peers": a record of a peer disappears
\* from flash only while that very peer's deletion is journaled, or as a schema
\* without a bond; a neighbour under the same address loses nothing.
OthersKept ==
    [][\A p \in Peer : p \in {receipt, receipt'} \/ Keeps(p)]_vars

\* A bond is there or not for whoever starts next: see BondSet.
Found == {p \in Peer : Whole(keys, p) /\ assoc[p] # "pending" /\ receipt # p}
Bonds == INSTANCE BondSet WITH bonds <- Found, asked <- target
GoneForGood == Bonds!Spec
=============================================================================
