-------------------------- MODULE MCTransactionStore --------------------------
(***************************************************************************)
(* What a transaction does with the snapshots of its target, the ports it  *)
(* does it through, and the store that keeps the snapshots.  None of them  *)
(* reads the state of another one, so a behaviour is one of one of them.   *)
(*                                                                         *)
(* Transaction: requests of at most MaxSteps steps over two aliases.       *)
(* Store: two foreground targets of one provider and a shadow target of    *)
(* another, ids that several snapshots show, the expectations that the     *)
(* tools state.                                                            *)
(* Ports: three effects; a page that navigates twice.                      *)
(***************************************************************************)
EXTENDS MCTransaction, ObservationStore, TransactionPorts, TLC

CONSTANTS t1, t2, t3, pid, window, tab, native, cdp, foreground, shadow

VARIABLE part

MCTokens == {t1, t2, t3}
MCKinds ==
    {[target |-> pid, generation |-> 0, ids |-> {a, b}],
     [target |-> window, generation |-> 0, ids |-> {a}],
     [target |-> tab, generation |-> 1, ids |-> {a}]}
MCExpectations ==
    {[provider |-> None, mode |-> foreground, target |-> None, generation |-> None],
     [provider |-> native, mode |-> foreground, target |-> pid, generation |-> None],
     [provider |-> cdp, mode |-> shadow, target |-> tab, generation |-> 1],
     [provider |-> cdp, mode |-> shadow, target |-> tab, generation |-> 2]}
MCProviderOf == [x \in {pid, window, tab} |-> IF x = tab THEN cdp ELSE native]
MCModeOf == [x \in {pid, window, tab} |-> IF x = tab THEN shadow ELSE foreground]

TokensAreAlike == Permutations(MCTokens)

MCModes == {"foreground", "shadow"}
-----------------------------------------------------------------------------
AnyRequest ==
    [steps |-> <<[op |-> "expect", name |-> NoAlias, within |-> NoAlias,
                  expect |-> FALSE, consequence |-> FALSE]>>,
     foreground |-> FALSE, opens |-> FALSE, final |-> FALSE]

PartsInit ==
    /\ part \in {"transaction", "store", "ports"} /\ Init /\ StoreInit /\ PortsInit
    /\ part # "transaction" => request = AnyRequest
    /\ part # "ports" => mode = "shadow"

TransactionStep == part = "transaction" /\ Next /\ UNCHANGED <<part, storeVars, portVars>>
SnapshotStep == part = "store" /\ StoreNext /\ UNCHANGED <<part, vars, portVars>>
PortStep == part = "ports" /\ PortsNext /\ UNCHANGED <<part, vars, storeVars>>

PartsNext == TransactionStep \/ SnapshotStep \/ PortStep

PartsSpec == PartsInit /\ [][PartsNext]_<<part, vars, storeVars, portVars>>
===============================================================================
