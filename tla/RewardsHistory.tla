---------------------------- MODULE RewardsHistory ----------------------------
(***************************************************************************)
(* The wallet's rewards history, end to end: the chain as db-sync stores   *)
(* it, the wallet's transaction history served by the db-sync chain        *)
(* history provider (DbSyncChainHistory), the delegation tracker's         *)
(* staking transactions with their epochs                                  *)
(* (wallet/src/services/DelegationTracker/DelegationTracker.ts), the       *)
(* rewards history tracker (RewardsHistory.ts) and the rewards service     *)
(* that answers it (cardano-services/src/Rewards/DbSyncRewardProvider).    *)
(*                                                                         *)
(* For each emission of the wallet's reward accounts (switchMap) the       *)
(* tracker first shows the stored history, then, each time                *)
(* firstDelegationEpoch$ emits a new lower bound (three epochs after the   *)
(* epoch of the first transaction of the history that delegates one of the *)
(* accounts), fetches the history since that bound, stores it and shows   *)
(* it.  Every emission is summarised: rewards grouped by epoch and sorted, *)
(* the last, the average and the lifetime reward.                          *)
(*                                                                         *)
(* The chain makes one transaction per block.  A wallet transaction spends *)
(* the wallet's change output and makes a new one, with a list of stake    *)
(* certificates; a foreign one pays OtherAddr and certifies foreign keys.  *)
(* The ledger pays an account for epoch e when a delegation of it lies     *)
(* RewardDelay epochs or more before e, with no deregistration after it.   *)
(***************************************************************************)
EXTENDS Naturals, Sequences, SequencesExt, FiniteSetsExt, DbSyncChainHistory

CONSTANTS
    Accounts,       \* reward accounts (stake keys) of the wallet
    ForeignKeys,    \* stake keys of other wallets
    WalletAddr,     \* the wallet's payment address
    OtherAddr,      \* another wallet's payment address
    Pool,           \* the pool delegations go to
    CertLists,      \* certificate lists a transaction may carry
    Hashes,         \* Hashes[i]: the hash of the i-th transaction
    Amounts,        \* rewards an account can earn in one epoch
    EpochLength,    \* slots per epoch (the era summaries of slotEpochCalc$)
    FirstEpoch,     \* the chain's epoch when the tracker starts
    MaxSlot,        \* the last slot the model lets the chain reach
    MaxBlocks,      \* bound on the blocks after genesis
    MaxEmits,       \* bound on the emissions of rewardAccounts$
    RewardDelay,    \* epochs from a delegation to the first epoch it earns for
    None            \* null / not yet emitted

StakeKeys == Accounts \cup ForeignKeys
CertKinds == {"registration", "deregistration", "delegation"}

ASSUME /\ CertLists \subseteq Seq([kind : CertKinds, key : StakeKeys])
       /\ Hashes \in Seq(Nat) /\ Len(Hashes) > MaxBlocks
       /\ EpochLength \in Nat \ {0} /\ FirstEpoch * EpochLength <= MaxSlot

VARIABLES
    slot,           \* the chain's tip slot
    db,             \* db-sync's tables
    walletTxs,      \* the provider's answer for the wallet's addresses over db
    history,        \* TransactionsTracker.history$: the wallet's transactions, or None
    stored,         \* rewardsHistoryStore: account -> its EpochRewards[]
    storedDone,     \* the stored-history half of the concat has completed
    fetched,        \* <<lb>>: the last lower bound firstDelegationEpoch$ emitted
    pending,        \* the provider's answer for that bound is awaited
    shown,          \* the RewardsHistory the tracker emitted last, or None
    emits,          \* emissions of rewardAccounts$ so far
    tracking        \* rewardsHistory$ has not been completed by shutdown

vars == <<slot, db, walletTxs, history, stored, storedDone, fetched, pending, shown, emits, tracking>>

-----------------------------------------------------------------------------
(* Chain history, as the wallet sees it *)

\* createSlotEpochCalc for a single era.
SlotEpochCalc(s) == s \div EpochLength

\* DbSyncChainHistoryProvider.transactionsByHashes: each transaction of
\* findTransactionsByHashes with its inputs, outputs and certificates.
TransactionsByHashes(d, hashes) ==
    LET txs == FindTransactionsByHashes(d, hashes)
        ins(h) == SelectSeq(FindTxInputsByHashes(d, hashes), LAMBDA r : r.tx_id = h)
        outs(h) == SelectSeq(FindTxOutputsByHashes(d, hashes), LAMBDA r : r.tx_id = h)
        certs(h) == SortBy({MapCertificate(c) :
                              c \in {c \in FindStakeCerts(d, hashes) \cup
                                           ToSet(FindDelegationCerts(d, hashes)) :
                                       c.tx_id = h}},
                           LAMBDA x : x.cert_index)
    IN [i \in DOMAIN txs |->
          MapTxAlonzo(txs[i],
                      [j \in DOMAIN ins(txs[i].id) |-> MapTxIn(ins(txs[i].id)[j])],
                      [j \in DOMAIN outs(txs[i].id) |-> MapTxOut(outs(txs[i].id)[j])],
                      certs(txs[i].id))]

\* DbSyncChainHistoryProvider.transactionsByAddresses: the transactions that
\* spend from or pay to the addresses since a block.
TransactionsByAddresses(d, addresses, sinceBlock) ==
    TransactionsByHashes(d,
        {r.tx_id : r \in ToSet(FindTxInputsByAddresses(d, addresses, sinceBlock))} \cup
        {r.tx_id : r \in ToSet(FindTxOutputsByAddresses(d, addresses, sinceBlock))})

\* The stake keys a transaction certifies with a certificate of the types.
CertifiedKeys(tx, types) ==
    {tx.body.certificates[i].stakeKeyHash :
        i \in {i \in DOMAIN tx.body.certificates : tx.body.certificates[i].__typename \in types}}

\* transactionsWithCertificates: the history's transactions with a
\* certificate of the types for one of the reward accounts.
TransactionsWithCertificates(h, types) ==
    SelectSeq(h, LAMBDA tx : CertifiedKeys(tx, types) \cap Accounts # {})

\* certificateTransactionsWithEpochs, with the certificate types of
\* createDelegationTracker.
CertificateTransactionsWithEpochs(h) ==
    LET txs == TransactionsWithCertificates(h,
                 {"StakeDelegation", "StakeKeyRegistration", "StakeKeyDeregistration"})
    IN [i \in DOMAIN txs |-> [epoch |-> SlotEpochCalc(txs[i].blockHeader.slot), tx |-> txs[i]]]

\* Mutant: the last delegating transaction instead of the first.
FirstDelegationEpochLast(txs) ==
    LET delegations == SelectSeq(txs, LAMBDA t :
                          CertifiedKeys(t.tx, {"StakeDelegation"}) \cap Accounts # {})
    IN IF delegations = <<>> THEN None ELSE delegations[Len(delegations)].epoch + 3

\* firstDelegationEpoch$: three epochs after the first transaction with a
\* signed stake delegation of the accounts, or null.
FirstDelegationEpoch(txs) ==
    LET delegations == SelectSeq(txs, LAMBDA t :
                          CertifiedKeys(t.tx, {"StakeDelegation"}) \cap Accounts # {})
    IN IF delegations = <<>> THEN None ELSE delegations[1].epoch + 3

LowerBound == FirstDelegationEpoch(CertificateTransactionsWithEpochs(history))

-----------------------------------------------------------------------------
(* The rewards service *)

\* A Map with no entries.
EmptyMap == [a \in {} |-> <<>>]

\* RewardsBuilder.getRewardsHistory: the accounts' reward rows since the
\* lower bound (findRewardsHistory), or [] when there are none.
GetRewardsHistory(lb) == SetToSeq({r \in db.reward : r.address \in Accounts /\ r.epoch >= lb})

\* rewardsToCore: rows grouped by address, each account's rewards in row order.
RewardsToCore(rows) ==
    LET add(m, row) ==
          LET a == row.address
              prev == IF a \in DOMAIN m THEN m[a] ELSE <<>>
          IN [x \in DOMAIN m \cup {a} |->
                IF x = a THEN Append(prev, [epoch |-> row.epoch, rewards |-> row.quantity])
                ELSE m[x]]
    IN FoldLeft(add, EmptyMap, rows)

\* createRewardsHistoryProvider: the service's history since the bound, or an
\* empty Map when the bound is null.
RewardsHistoryProvider(lb) ==
    IF lb = None THEN EmptyMap ELSE RewardsToCore(GetRewardsHistory(lb))

-----------------------------------------------------------------------------
(* The summary of lines 81-113 *)

\* The decimal digits of n: what Array.prototype.sort compares numbers by.
RECURSIVE Digits(_)
Digits(n) == IF n < 10 THEN <<n>> ELSE Digits(n \div 10) \o <<n % 10>>

\* String comparison of two digit sequences.
RECURSIVE StringLess(_, _)
StringLess(s, t) ==
    \/ s = <<>> /\ t # <<>>
    \/ /\ s # <<>> /\ t # <<>>
       /\ \/ Head(s) < Head(t)
          \/ Head(s) = Head(t) /\ StringLess(Tail(s), Tail(t))

\* epochs.sort() with no comparator.
DefaultSort(S) == SetToSortSeq(S, LAMBDA x, y : StringLess(Digits(x), Digits(y)))

\* sumRewards over an EpochRewards[].
SumRewards(rs) == FoldSeq(LAMBDA r, acc : r.rewards + acc, 0, rs)

\* flatten([...rewardsByAccount.values()]).
Flatten(m) == LET accs == SetToSeq(DOMAIN m)
              IN FlattenSeq([i \in DOMAIN accs |-> m[accs[i]]])

Summary(rewardsByAccount) ==
    LET allRewards == Flatten(rewardsByAccount)
    IN IF allRewards = <<>>
       THEN [all |-> <<>>, avgReward |-> None, lastReward |-> None, lifetimeRewards |-> 0]
       ELSE LET epochs == DefaultSort({allRewards[i].epoch : i \in DOMAIN allRewards})
                all == [i \in DOMAIN epochs |->
                          [epoch |-> epochs[i],
                           rewards |-> SumRewards(SelectSeq(allRewards,
                                                    LAMBDA r : r.epoch = epochs[i]))]]
            IN [all |-> all,
                avgReward |-> SumRewards(allRewards) \div Len(allRewards),
                lastReward |-> all[Len(all)],
                lifetimeRewards |-> SumRewards(allRewards)]

-----------------------------------------------------------------------------
(* The chain *)

\* The epoch of the block of a transaction row.
TxEpoch(d, txId) == SlotEpochCalc((CHOOSE b \in d.block :
                                     \E t \in d.tx : t.id = txId /\ t.block_id = b.id).slot_no)

\* Accounts the ledger pays for epoch e: delegated RewardDelay epochs or more
\* before e and not deregistered by a later transaction.
Earning(d, e) ==
    {a \in StakeKeys :
       \E g \in d.delegation :
          /\ g.addr = a /\ TxEpoch(d, g.tx_id) + RewardDelay <= e
          /\ ~\E u \in d.stake_deregistration : u.addr = a /\ u.tx_id > g.tx_id}

\* Genesis: block 0 with one transaction funding the wallet.
Genesis ==
    [block |-> {[id |-> 1, block_no |-> 0, slot_no |-> 0]},
     tx |-> {[id |-> 1, hash |-> Hashes[1], block_id |-> 1]},
     tx_out |-> {[id |-> 1, tx_id |-> 1, index |-> 0, address |-> WalletAddr]},
     tx_in |-> {}, stake_registration |-> {}, stake_deregistration |-> {},
     delegation |-> {}, reward |-> {}]

\* rewardsHistory$ is a TrackerSubject with no value yet; the store is empty.
Init ==
    /\ slot = FirstEpoch * EpochLength
    /\ db = Genesis
    /\ walletTxs = TransactionsByAddresses(Genesis, {WalletAddr}, 0)
    /\ history = None
    /\ stored = EmptyMap
    /\ storedDone = FALSE
    /\ fetched = <<>>
    /\ pending = FALSE
    /\ shown = None
    /\ emits = 0
    /\ tracking = TRUE

\* The wallet's change output: its output no input spends.
WalletUtxo(d) ==
    CHOOSE o \in d.tx_out :
       o.address = WalletAddr /\ ~\E i \in d.tx_in : i.tx_out_id = o.tx_id /\ i.tx_out_index = o.index

\* The rows of the stake table of a kind for a certificate list of tx n.
CertRows(n, certs, kind) ==
    {[tx_id |-> n, cert_index |-> i - 1, addr |-> certs[i].key, pool |-> Pool] :
        i \in {i \in DOMAIN certs : certs[i].kind = kind}}

\* A block with one transaction from addr, carrying certs, is adopted and
\* db-sync inserts it.  A wallet transaction spends the wallet's change.
ProduceBlock(addr, certs) ==
    /\ Cardinality(db.block) <= MaxBlocks
    /\ \A b \in db.block : b.slot_no < slot
    /\ addr = OtherAddr => \A i \in DOMAIN certs : certs[i].key \notin Accounts
    /\ LET n == Cardinality(db.tx) + 1
       IN db' = [db EXCEPT
                   !.block = @ \cup {[id |-> n, block_no |-> n - 1, slot_no |-> slot]},
                   !.tx = @ \cup {[id |-> n, hash |-> Hashes[n], block_id |-> n]},
                   !.tx_out = @ \cup {[id |-> Cardinality(db.tx_out) + 1, tx_id |-> n,
                                       index |-> 0, address |-> addr]},
                   !.tx_in = IF addr = WalletAddr
                             THEN @ \cup {[id |-> Cardinality(db.tx_in) + 1, tx_in_id |-> n,
                                           tx_out_id |-> WalletUtxo(db).tx_id,
                                           tx_out_index |-> WalletUtxo(db).index]}
                             ELSE @,
                   !.stake_registration = @ \cup CertRows(n, certs, "registration"),
                   !.stake_deregistration = @ \cup CertRows(n, certs, "deregistration"),
                   !.delegation = @ \cup CertRows(n, certs, "delegation")]
    /\ walletTxs' = TransactionsByAddresses(db', {WalletAddr}, 0)
    /\ UNCHANGED <<slot, history, stored, storedDone, fetched, pending, shown, emits, tracking>>

\* The next slot; when it starts an epoch, db-sync records the rewards of the
\* epoch that ended.
Tick ==
    /\ slot < MaxSlot
    /\ slot' = slot + 1
    /\ LET e == SlotEpochCalc(slot)
       IN IF SlotEpochCalc(slot + 1) > e
          THEN \E pay \in [Earning(db, e) -> Amounts] :
                 db' = [db EXCEPT !.reward = @ \cup
                          {[address |-> a, epoch |-> e, quantity |-> pay[a]] : a \in DOMAIN pay}]
          ELSE UNCHANGED db
    /\ UNCHANGED <<walletTxs, history, stored, storedDone, fetched, pending, shown, emits, tracking>>

\* TransactionsTracker.history$ emits the wallet's transactions anew.
WalletSync ==
    /\ history # walletTxs
    /\ history' = walletTxs
    /\ UNCHANGED <<slot, db, walletTxs, stored, storedDone, fetched, pending, shown, emits, tracking>>

\* rewardAccounts$ emits: switchMap drops the running concat and starts a new
\* one, with a new firstDelegationEpoch$ that has emitted nothing yet.
AccountsEmit ==
    /\ tracking /\ emits < MaxEmits
    /\ emits' = emits + 1
    /\ storedDone' = FALSE
    /\ fetched' = <<>>
    /\ pending' = FALSE
    /\ UNCHANGED <<slot, db, walletTxs, history, stored, shown, tracking>>

\* rewardsHistoryStore.getValues emits the accounts' stored histories, which
\* are summarised; with an account missing from the store it emits nothing.
ShowStored ==
    /\ tracking /\ ~storedDone
    /\ storedDone' = TRUE
    /\ shown' = IF Accounts \subseteq DOMAIN stored
                THEN Summary([a \in Accounts |-> stored[a]])
                ELSE shown
    /\ UNCHANGED <<slot, db, walletTxs, history, stored, fetched, pending, emits, tracking>>

\* After the stored history (concat), firstDelegationEpoch$ emits a lower
\* bound other than the last one (distinctUntilChanged) and switchMap asks
\* the provider for the history since it.
FetchRequest ==
    /\ tracking /\ storedDone /\ history # None /\ fetched # <<LowerBound>>
    /\ fetched' = <<LowerBound>>
    /\ pending' = TRUE
    /\ UNCHANGED <<slot, db, walletTxs, history, stored, storedDone, shown, emits, tracking>>

\* The provider answers a request no newer bound has switched away from; the
\* answer replaces the store's contents (setAll) and its summary is emitted.
FetchReply ==
    /\ tracking /\ pending /\ fetched = <<LowerBound>>
    /\ LET byAccount == RewardsHistoryProvider(fetched[1])
       IN /\ stored' = byAccount
          /\ shown' = Summary(byAccount)
    /\ pending' = FALSE
    /\ UNCHANGED <<slot, db, walletTxs, history, storedDone, fetched, emits, tracking>>

\* DelegationTracker.shutdown completes rewardsHistory$.
Shutdown ==
    /\ tracking
    /\ tracking' = FALSE
    /\ UNCHANGED <<slot, db, walletTxs, history, stored, storedDone, fetched, pending, shown, emits>>

Next ==
    \/ \E addr \in {WalletAddr, OtherAddr}, certs \in CertLists : ProduceBlock(addr, certs)
    \/ Tick \/ WalletSync \/ AccountsEmit \/ ShowStored \/ FetchRequest \/ FetchReply \/ Shutdown

Spec == Init /\ [][Next]_vars

\* The wallet's history is synced and the tracker's pipeline runs whenever
\* its source has emitted; the rewards provider is retried until it answers.
FairSpec == Spec /\ WF_vars(WalletSync) /\ WF_vars(ShowStored) /\ WF_vars(FetchRequest)

-----------------------------------------------------------------------------
(* Properties *)

TypeOK ==
    /\ slot \in 0..MaxSlot /\ emits \in 0..MaxEmits /\ tracking \in BOOLEAN /\ pending \in BOOLEAN
    /\ fetched = <<>> \/ (Len(fetched) = 1 /\ fetched[1] \in Nat \cup {None})
    /\ history = None \/ \A i \in DOMAIN history :
          /\ history[i].id \in {t.hash : t \in db.tx}
          /\ \A j \in DOMAIN history[i].body.certificates :
                history[i].body.certificates[j].__typename \in
                   {"StakeKeyRegistration", "StakeKeyDeregistration", "StakeDelegation"}

\* Stake keys the wallet's history shows a delegation of.
KnownDelegated ==
    IF history = None THEN {}
    ELSE {g.addr : g \in {g \in db.delegation :
                            \E t \in db.tx : t.id = g.tx_id /\
                               \E i \in DOMAIN history : history[i].id = t.hash}}

\* When the tracker fetches, the history it shows has every epoch the chain
\* has paid a reward for to an account the wallet's history shows
\* delegated: the bound firstDelegationEpoch$ derives from the first
\* delegation (first() over the ORDER BY tx.id of the chain history query,
\* the epoch of its slot, plus three) never cuts off an earned reward.
FetchShowsEveryEarnedReward ==
    [][ FetchReply =>
          \A r \in db.reward :
             r.address \in Accounts \cap KnownDelegated =>
                \E i \in DOMAIN shown'.all : shown'.all[i].epoch = r.epoch ]_vars

\* Once the chain holds a delegation of one of the wallet's accounts made by
\* the wallet, the tracker eventually fetches the history from a bound that
\* is not null, unless it is shut down first.
DelegationIsFetched ==
    (\E g \in db.delegation : g.addr \in Accounts)
       ~> (~tracking \/ (fetched # <<>> /\ fetched[1] # None))

\* The last reward the tracker reports is the one of the latest epoch it
\* has rewards for, and `all` lists the epochs in ascending order (the sort
\* of line 96 and all[all.length - 1] of line 101).
LastRewardIsLatest ==
    shown # None /\ shown.all # <<>> =>
       /\ shown.lastReward.epoch = Max({shown.all[i].epoch : i \in DOMAIN shown.all})
       /\ IsSorted([i \in DOMAIN shown.all |-> shown.all[i].epoch], <)

=============================================================================
