-------------------------- MODULE DbSyncChainHistory --------------------------
(***************************************************************************)
(* The chain history the rewards service's sibling, the db-sync chain     *)
(* history provider, serves to the wallet: the SQL of                      *)
(* cardano-services/src/ChainHistory/DbSyncChainHistory/queries.ts and the *)
(* row mappers of mappers.ts, as operators over the db-sync tables.        *)
(*                                                                         *)
(* A table is a set of rows; a row is a record with the columns the        *)
(* queries use.  SELECT ... ORDER BY k is the set of joined rows sorted on *)
(* k and projected; a UNION of two SELECTs is a set, since SQL gives its  *)
(* rows no order.  Hashes are model values, unrelated to the row ids, so  *)
(* ordering by tx.id is not ordering by hash.                              *)
(***************************************************************************)
EXTENDS Naturals, FiniteSets, Sequences, SequencesExt

\* The rows in ascending order of a key no two of them share.
SortBy(rows, key(_)) ==
    LET rank(r) == Cardinality({x \in rows : key(x) < key(r)}) + 1
    IN [i \in 1..Cardinality(rows) |-> CHOOSE r \in rows : rank(r) = i]

\* SELECT proj(r) FROM rows r ORDER BY key(r) ASC.
Query(rows, key(_), proj(_)) ==
    LET sorted == SortBy(rows, key)
    IN [i \in DOMAIN sorted |-> proj(sorted[i])]

BlockOf(db, t) == CHOOSE b \in db.block : b.id = t.block_id

-----------------------------------------------------------------------------
(* queries.ts *)

\* selectTxInput: tx_out JOIN tx_in ON the spent output, JOIN the spending tx.
SelectTxInput(db) ==
    { [id |-> j[2].id, address |-> j[1].address, index |-> j[2].tx_out_index,
       tx_id |-> j[3].hash, tx |-> j[3]] :
        j \in { j \in db.tx_out \X db.tx_in \X db.tx :
                  /\ j[1].tx_id = j[2].tx_out_id
                  /\ j[3].id = j[2].tx_in_id
                  /\ j[2].tx_out_index = j[1].index } }

\* selectTxOutput: tx_out JOIN the tx that produced it.
SelectTxOutput(db) ==
    { [id |-> j[1].id, address |-> j[1].address, index |-> j[1].index,
       tx_id |-> j[2].hash, tx |-> j[2]] :
        j \in { j \in db.tx_out \X db.tx : j[1].tx_id = j[2].id } }

Row(r) == [address |-> r.address, index |-> r.index, tx_id |-> r.tx_id]

FindTxInputsByHashes(db, hashes) ==
    Query({r \in SelectTxInput(db) : r.tx_id \in hashes}, LAMBDA r : r.id, Row)

FindTxInputsByAddresses(db, addresses, fromBlock) ==
    Query({r \in SelectTxInput(db) : /\ r.address \in addresses
                                     /\ BlockOf(db, r.tx).block_no >= fromBlock},
          LAMBDA r : r.id, Row)

FindTxOutputsByHashes(db, hashes) ==
    Query({r \in SelectTxOutput(db) : r.tx_id \in hashes}, LAMBDA r : r.id, Row)

FindTxOutputsByAddresses(db, addresses, fromBlock) ==
    Query({r \in SelectTxOutput(db) : /\ r.address \in addresses
                                      /\ BlockOf(db, r.tx).block_no >= fromBlock},
          LAMBDA r : r.id, Row)

\* Mutant: ordered by the transaction's hash.
FindTransactionsByHashesByHash(db, hashes) ==
    Query({t \in db.tx : t.hash \in hashes}, LAMBDA t : t.hash,
          LAMBDA t : [id |-> t.hash, block_no |-> BlockOf(db, t).block_no,
                      block_slot_no |-> BlockOf(db, t).slot_no])

\* findTransactionsByHashes: tx JOIN block, in tx.id order.
FindTransactionsByHashes(db, hashes) ==
    Query({t \in db.tx : t.hash \in hashes}, LAMBDA t : t.id,
          LAMBDA t : [id |-> t.hash, block_no |-> BlockOf(db, t).block_no,
                      block_slot_no |-> BlockOf(db, t).slot_no])

\* findStakeCerts: the registrations UNION the deregistrations.
FindStakeCerts(db, hashes) ==
    { [cert_index |-> c.cert_index, address |-> c.addr, registration |-> reg,
       tx_id |-> t.hash, type |-> "stake"] :
        <<c, t, reg>> \in { x \in (db.stake_registration \X db.tx \X {TRUE})
                                  \cup (db.stake_deregistration \X db.tx \X {FALSE}) :
                               x[2].id = x[1].tx_id /\ x[2].hash \in hashes } }

\* findDelegationCerts: delegation JOIN tx, pool and stake address.
FindDelegationCerts(db, hashes) ==
    Query({x \in db.delegation \X db.tx : x[2].id = x[1].tx_id /\ x[2].hash \in hashes},
          LAMBDA x : x[2].id,
          LAMBDA x : [cert_index |-> x[1].cert_index, tx_id |-> x[2].hash,
                      pool_id |-> x[1].pool, address |-> x[1].addr, type |-> "delegation"])

-----------------------------------------------------------------------------
(* mappers.ts *)

MapTxIn(r) == [address |-> r.address, index |-> r.index, txId |-> r.tx_id]

MapTxOut(r) == [address |-> r.address, index |-> r.index, txId |-> r.tx_id]

\* Mutant: a delegation row taken for a stake key registration.
MapCertificateDelegationAsRegistration(c) ==
    IF c.type = "delegation"
    THEN [__typename |-> "StakeKeyRegistration", cert_index |-> c.cert_index,
          stakeKeyHash |-> c.address, poolId |-> "none"]
    ELSE [__typename |-> IF c.registration THEN "StakeKeyRegistration"
                                           ELSE "StakeKeyDeregistration",
          cert_index |-> c.cert_index, stakeKeyHash |-> c.address, poolId |-> "none"]

\* mapCertificate: the certificate of a row, by the query that tagged it;
\* null for a row of no known kind.
MapCertificate(c) ==
    CASE c.type = "poolRetire" ->
           [__typename |-> "PoolRetirement", cert_index |-> c.cert_index,
            stakeKeyHash |-> "none", poolId |-> c.pool_id]
      [] c.type = "poolRegister" ->
           [__typename |-> "PoolRegistration", cert_index |-> c.cert_index,
            stakeKeyHash |-> "none", poolId |-> "none"]
      [] c.type = "mir" ->
           [__typename |-> "MIR", cert_index |-> c.cert_index,
            stakeKeyHash |-> c.address, poolId |-> "none"]
      [] c.type = "stake" ->
           [__typename |-> IF c.registration THEN "StakeKeyRegistration"
                                             ELSE "StakeKeyDeregistration",
            cert_index |-> c.cert_index, stakeKeyHash |-> c.address, poolId |-> "none"]
      [] c.type = "delegation" ->
           [__typename |-> "StakeDelegation", cert_index |-> c.cert_index,
            stakeKeyHash |-> c.address, poolId |-> c.pool_id]
      [] OTHER -> "null"

\* Mutant: the transaction's id taken from its block.
MapTxAlonzoBlockId(txModel, inputs, outputs, certificates) ==
    [id |-> txModel.block_no,
     blockHeader |-> [blockNo |-> txModel.block_no, slot |-> txModel.block_slot_no],
     body |-> [inputs |-> inputs, outputs |-> outputs, certificates |-> certificates]]

\* mapTxAlonzo: the transaction's id, block header and body.
MapTxAlonzo(txModel, inputs, outputs, certificates) ==
    [id |-> txModel.id,
     blockHeader |-> [blockNo |-> txModel.block_no, slot |-> txModel.block_slot_no],
     body |-> [inputs |-> inputs, outputs |-> outputs, certificates |-> certificates]]

=============================================================================
