------------------------------- MODULE StateDelta -------------------------------
(***************************************************************************)
(* The post-state root of run_stateless_guest: the accounts and slots the  *)
(* execution has written are collected into updates of the witness trie,   *)
(* account by account, and the root of the updated trie is compared with   *)
(* the header's.                                                           *)
(*                                                                         *)
(* Outside src/ and therefore modelled by what the code expects of them:   *)
(* the trie, whose root is taken to be its contents; WitnessState, which   *)
(* reads the state after the block and lists the accounts and slots it     *)
(* was asked to update, with their values before the block.                *)
(***************************************************************************)
EXTENDS Integers, FiniteSets

CONSTANTS
    Address, Key,
    Info,           \* the fields of an account, its storage root excepted
    DefaultInfo,    \* those of Account{}
    Value,          \* storage words
    Zero,           \* the word a slot without an entry reads as
    None            \* no account

ASSUME StateAssumption ==
    /\ DefaultInfo \in Info
    /\ Zero \in Value

Storage  == [Key -> Value]
NoSlots  == [k \in Key |-> Zero]
Accounts == [info : Info, storage : Storage]

\* The state holds no account that is empty in the sense of EIP-161.
States == [Address -> {None} \cup {a \in Accounts : a.info # DefaultInfo}]

(***************************************************************************)
(* The blocks this program executes are of Prague and later: only an       *)
(* account created in the same transaction is destroyed, so that one which *)
(* is removed, or removed and created again, had no storage before.        *)
(***************************************************************************)
IsSuccessor(pre, post) ==
    \A a \in Address :
        pre[a] # None /\ post[a] = None => pre[a].storage = NoSlots

VARIABLES
    pre, post,      \* the state before and after the block
    accChanges,     \* state.account_changes(): the addresses
    storChanges,    \* state.storage_changes(): the slots of each address
    todo,           \* addresses the loop has still to visit
    updates,        \* acc_updates: pairs <<address, leaf>>
    root            \* option: computed_state_root

vars == <<pre, post, accChanges, storChanges, todo, updates, root>>

SlotOf(state, a, k) == IF state[a] = None THEN Zero ELSE state[a].storage[k]

\* The root of a storage trie is its slots that are not zero.  Account{} has a
\* zero storage root, and a leaf with it is encoded as one with an empty trie.
Root(slots) == [zero |-> FALSE, slots |-> slots]
ZeroRoot    == [zero |-> TRUE, slots |-> {}]
TrieOf(storage) == {<<k, storage[k]>> : k \in {l \in Key : storage[l] # Zero}}
Leaf(info, storageRoot) == [info |-> info, slots |-> storageRoot.slots]

StateTrie(state) ==
    [a \in {b \in Address : state[b] # None} |->
        Leaf(state[a].info, Root(TrieOf(state[a].storage)))]

\* What has changed was written; what was written may have been restored.
Init ==
    /\ pre \in States
    /\ post \in States
    /\ IsSuccessor(pre, post)
    /\ storChanges \in [Address -> SUBSET Key]
    /\ accChanges \in SUBSET Address
    /\ \A a \in Address :
        /\ \A k \in Key : SlotOf(pre, a, k) # SlotOf(post, a, k) => k \in storChanges[a]
        /\ pre[a] # post[a] \/ storChanges[a] # {} => a \in accChanges
    /\ todo = accChanges
    /\ updates = {}
    /\ root = << >>

-----------------------------------------------------------------------------
\* acc: the account before the block, or Account{}.
InfoBefore(a) == IF pre[a] = None THEN DefaultInfo ELSE pre[a].info
RootBefore(a) == IF pre[a] = None THEN ZeroRoot ELSE Root(TrieOf(pre[a].storage))

\* stor_updates: the written slots whose word is not the one before the block.
SlotUpdates(a) == {k \in storChanges[a] : SlotOf(post, a, k) # SlotOf(pre, a, k)}

\* A zero word deletes its slot; a zero storage root starts an empty trie.
StorageRoot(a) ==
    LET keys == SlotUpdates(a) IN
    IF keys = {} THEN RootBefore(a)
    ELSE Root({s \in RootBefore(a).slots : s[1] \notin keys}
              \cup {<<k, SlotOf(post, a, k)>> :
                        k \in {l \in keys : SlotOf(post, a, l) # Zero}})

\* Mistake: an account whose own fields are unchanged is passed over.
UnchangedFields(a) == post[a].info = InfoBefore(a)

Unchanged(a) ==
    /\ post[a].info = InfoBefore(a)
    /\ StorageRoot(a) = RootBefore(a)

\* One turn of the loop over account_changes.
VisitAccount(a) ==
    /\ a \in todo
    /\ todo' = todo \ {a}
    /\ updates' = IF post[a] = None \/ Unchanged(a) THEN updates
                  ELSE updates \cup {<<a, Leaf(post[a].info, StorageRoot(a))>>}
    /\ UNCHANGED <<pre, post, accChanges, storChanges, root>>

\* calc_root_from_updates, on the trie of the parent's state root.
Updated(trie) ==
    [a \in DOMAIN trie \cup {u[1] : u \in updates} |->
        IF \E u \in updates : u[1] = a THEN (CHOOSE u \in updates : u[1] = a)[2]
        ELSE trie[a]]

ComputeRoot ==
    /\ todo = {}
    /\ root = << >>
    /\ root' = <<Updated(StateTrie(pre))>>
    /\ UNCHANGED <<pre, post, accChanges, storChanges, todo, updates>>

Compared == root # << >> /\ UNCHANGED vars

Next == ComputeRoot \/ Compared \/ \E a \in Address : VisitAccount(a)

Spec == Init /\ [][Next]_vars

-----------------------------------------------------------------------------
RootIsPostState == root # << >> => root = <<StateTrie(post)>>

RemovedAccounts == {a \in Address : pre[a] # None /\ post[a] = None}

\* As long as the block removes no account of the parent's state, the computed
\* root is that of the state after the block: no change of an account or slot
\* is missed, none is written that was undone, a slot set to zero is deleted,
\* and a created account starts from an empty storage (stateless.cpp:927-963).
RootWithoutRemovals == RemovedAccounts = {} => RootIsPostState

\* The same for every block, those that remove accounts included.
RootOfEveryBlock == RootIsPostState
=============================================================================
