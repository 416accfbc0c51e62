------------------------------ MODULE TxBuilder ------------------------------
(***************************************************************************)
(* ObservableWalletTxBuilder (src/packages/wallet/src/TxBuilder/buildTx.ts) *)
(* and the wallet calls it awaits.  The builder is a mutable object: the    *)
(* user's setters run between any two awaits of build(), and of the        *)
(* sign() and submit() of the transactions it returned.                    *)
(*                                                                         *)
(* Outputs, pools, metadata, signers and signing options are model values. *)
(* A transaction body is the record of what initializeTx was given, with   *)
(* the auxiliary data standing for its hash.                               *)
(***************************************************************************)
EXTENDS Naturals, Sequences, SequencesExt

CONSTANTS
    Builds,         \* build() calls the user makes on one builder
    Outputs,        \* TxOut values
    InvalidOutputs, \* outputs the OutputBuilder reports as invalid
    Pools,          \* stake pool ids
    Metadatas,      \* values given to setMetadata
    Signers,        \* values given to setExtraSigners
    Options,        \* values given to setSigningOptions
    Accounts,       \* reward accounts of the wallet
    None,           \* an undefined field
    MaxEdits        \* bound on setter calls once the builder is configured

ASSUME InvalidOutputs \subseteq Outputs /\ None \notin Pools \cup Metadatas \cup Signers \cup Options

\* StakeKeyStatus of the wallet's reward accounts: a key whose registration
\* or deregistration is in a transaction not yet on chain is Registering or
\* Unregistering.
KeyStatuses == {"Registering", "Registered", "Unregistering", "Unregistered"}
DelegateConfigs == {[type |-> "none", pool |-> None]}
                   \cup [type : {"delegate"}, pool : Pools]
                   \cup {[type |-> "deregister", pool |-> None]}
Certificate == [type : {"StakeKeyRegistration", "StakeKeyDeregistration", "StakeDelegation"},
                key : Accounts, pool : Pools \cup {None}]
Body == [certs : Seq(Certificate), outs : SUBSET Outputs, aux : Metadatas \cup {None}]

VARIABLES
    outputs,         \* partialTxBody.outputs
    certificates,    \* partialTxBody.certificates
    delegateConfig,  \* #delegateConfig
    auxiliaryData,   \* auxiliaryData (its metadata blob)
    extraSigners,    \* extraSigners
    signingOptions,  \* signingOptions
    isSubmitted,     \* #isSubmitted
    rewardAccounts,  \* the value delegation.rewardAccounts$ emits
    keyStatus,       \* keyStatus[a]: stake key status of reward account a
    bpc,             \* bpc[b]: where build() call b is suspended
    validated,       \* validated[b]: the outputs #validateOutputs of b checked
    request,         \* request[b]: the body initializeTx was called with
    validTx,         \* validTx[b]: the ValidTx b resolved to
    spc,             \* spc[b]: progress of sign() and submit() of validTx[b]
    signed,          \* signed[b]: what finalizeTx was called with
    submitted,       \* transactions wallet.submitTx accepted, in order
    edits            \* setter calls so far

vars == <<outputs, certificates, delegateConfig, auxiliaryData, extraSigners,
          signingOptions, isSubmitted, rewardAccounts, keyStatus, bpc, validated,
          request, validTx, spc, signed, submitted, edits>>
setters == <<outputs, delegateConfig, auxiliaryData, extraSigners, signingOptions>>
calls   == <<bpc, validated, request, validTx, spc, signed>>

SignedTx == [body : Body, aux : Metadatas \cup {None},
             signers : Signers \cup {None}, opts : Options \cup {None}]

\* The type invariant; a delegation always names a pool.
TypeOK ==
    /\ outputs \subseteq Outputs /\ certificates \in Seq(Certificate)
    /\ delegateConfig \in DelegateConfigs
    /\ auxiliaryData \in Metadatas \cup {None}
    /\ extraSigners \in Signers \cup {None} /\ signingOptions \in Options \cup {None}
    /\ isSubmitted \in BOOLEAN
    /\ rewardAccounts \in Seq(Accounts) /\ keyStatus \in [Accounts -> KeyStatuses]
    /\ bpc \in [Builds -> {"idle", "certs", "certsDone", "validate", "init", "done", "failed"}]
    /\ validated \in [Builds -> SUBSET Outputs]
    /\ request \in [Builds -> Body \cup {None}]
    /\ validTx \in [Builds -> SignedTx \cup {None}]
    /\ spc \in [Builds -> {"none", "signing", "signed", "submitting", "submitted", "failed"}]
    /\ signed \in [Builds -> SignedTx \cup {None}]
    /\ submitted \in Seq(SignedTx)
    /\ edits \in 0..MaxEdits

\* A builder the user has configured with any of the setters and not yet
\* built with.  The wallet's reward accounts are all its accounts, in a
\* fixed order, or none (a wallet the builder cannot delegate from).
Init ==
    /\ outputs \in SUBSET Outputs /\ certificates = <<>>
    /\ delegateConfig \in DelegateConfigs
    /\ auxiliaryData \in Metadatas \cup {None}
    /\ extraSigners \in Signers \cup {None} /\ signingOptions \in Options \cup {None}
    /\ isSubmitted = FALSE
    /\ rewardAccounts \in {<<>>, SetToSeq(Accounts)}
    /\ keyStatus \in [Accounts -> KeyStatuses]
    /\ bpc = [b \in Builds |-> "idle"] /\ validated = [b \in Builds |-> {}]
    /\ request = [b \in Builds |-> None] /\ validTx = [b \in Builds |-> None]
    /\ spc = [b \in Builds |-> "none"] /\ signed = [b \in Builds |-> None]
    /\ submitted = <<>> /\ edits = 0

-----------------------------------------------------------------------------
(* #addDelegationCertificates: one iteration of its loop per reward account *)

Cert(type, a, pool) == [type |-> type, key |-> a, pool |-> pool]

CertsFor(cfg, a) ==
    IF cfg.type = "deregister"
    THEN IF keyStatus[a] = "Unregistered" THEN <<>>
         ELSE <<Cert("StakeKeyDeregistration", a, None)>>
    ELSE (IF keyStatus[a] # "Unregistered" THEN <<>>
          ELSE <<Cert("StakeKeyRegistration", a, None)>>)
         \o <<Cert("StakeDelegation", a, cfg.pool)>>

DelegationCertificates(cfg, accounts) ==
    FoldLeft(LAMBDA cs, a : cs \o CertsFor(cfg, a), <<>>, accounts)

-----------------------------------------------------------------------------
(* The user's setters, each counted against MaxEdits *)

Edit == edits < MaxEdits /\ edits' = edits + 1

AddOutput(o) ==
    /\ Edit
    /\ outputs' = outputs \cup {o}
    /\ UNCHANGED <<certificates, delegateConfig, auxiliaryData, extraSigners,
                   signingOptions, isSubmitted, rewardAccounts, keyStatus, calls, submitted>>

RemoveOutput(o) ==
    /\ Edit
    /\ o \in outputs
    /\ outputs' = outputs \ {o}
    /\ UNCHANGED <<certificates, delegateConfig, auxiliaryData, extraSigners,
                   signingOptions, isSubmitted, rewardAccounts, keyStatus, calls, submitted>>

\* delegate(poolId): a pool delegates to it, no pool deregisters the keys.
Delegate(p) ==
    /\ Edit
    /\ delegateConfig' = IF p # None THEN [type |-> "delegate", pool |-> p]
                                     ELSE [type |-> "deregister", pool |-> None]
    /\ UNCHANGED <<outputs, certificates, auxiliaryData, extraSigners, signingOptions,
                   isSubmitted, rewardAccounts, keyStatus, calls, submitted>>

SetMetadata(md) ==
    /\ Edit
    /\ auxiliaryData' = md
    /\ UNCHANGED <<outputs, certificates, delegateConfig, extraSigners, signingOptions,
                   isSubmitted, rewardAccounts, keyStatus, calls, submitted>>

SetExtraSigners(s) ==
    /\ Edit
    /\ extraSigners' = s
    /\ UNCHANGED <<outputs, certificates, delegateConfig, auxiliaryData, signingOptions,
                   isSubmitted, rewardAccounts, keyStatus, calls, submitted>>

SetSigningOptions(opt) ==
    /\ Edit
    /\ signingOptions' = opt
    /\ UNCHANGED <<outputs, certificates, delegateConfig, auxiliaryData, extraSigners,
                   isSubmitted, rewardAccounts, keyStatus, calls, submitted>>

-----------------------------------------------------------------------------
(* build(): one action per await *)

\* isSubmitted(): a transaction built by this builder was submitted.
IsSubmitted == isSubmitted

\* build() is called: a builder whose transaction was submitted returns
\* TxAlreadySubmittedError.  Without a delegation #addDelegationCertificates
\* returns a resolved promise; otherwise it awaits the first emission of
\* rewardAccounts$.
BuildCall(b) ==
    /\ bpc[b] = "idle"
    /\ bpc' = [bpc EXCEPT ![b] = CASE IsSubmitted                -> "failed"
                                   [] delegateConfig.type = "none" -> "certsDone"
                                   [] OTHER                        -> "certs"]
    /\ UNCHANGED <<setters, certificates, isSubmitted, rewardAccounts, keyStatus,
                   validated, request, validTx, spc, signed, submitted, edits>>

\* rewardAccounts$ emits: with no account the build fails; otherwise the
\* certificates are replaced by those of the current delegation config.
BuildCerts(b) ==
    /\ bpc[b] = "certs"
    /\ IF rewardAccounts = <<>>
       THEN /\ bpc' = [bpc EXCEPT ![b] = "failed"]
            /\ UNCHANGED certificates
       ELSE /\ certificates' = DelegationCertificates(delegateConfig, rewardAccounts)
            /\ bpc' = [bpc EXCEPT ![b] = "certsDone"]
    /\ UNCHANGED <<setters, isSubmitted, rewardAccounts, keyStatus, validated, request,
                   validTx, spc, signed, submitted, edits>>

\* The await of #addDelegationCertificates() is over: #validateOutputs
\* starts an output builder on each of the outputs as they are now.
ValidateOutputs(b) ==
    /\ bpc[b] = "certsDone"
    /\ validated' = [validated EXCEPT ![b] = outputs]
    /\ bpc' = [bpc EXCEPT ![b] = "validate"]
    /\ UNCHANGED <<setters, certificates, isSubmitted, rewardAccounts, keyStatus,
                   request, validTx, spc, signed, submitted, edits>>

\* The output builders resolve: an invalid output fails the build; otherwise
\* initializeTx is called with the builder's fields as they are now.
BuildValidate(b) ==
    /\ bpc[b] = "validate"
    /\ IF validated[b] \cap InvalidOutputs # {}
       THEN /\ bpc' = [bpc EXCEPT ![b] = "failed"]
            /\ UNCHANGED request
       ELSE /\ request' = [request EXCEPT ![b] =
                 [certs |-> certificates, outs |-> outputs, aux |-> auxiliaryData]]
            /\ bpc' = [bpc EXCEPT ![b] = "init"]
    /\ UNCHANGED <<setters, certificates, isSubmitted, rewardAccounts, keyStatus,
                   validated, validTx, spc, signed, submitted, edits>>

\* initializeTx rejects (input selection fails), or resolves and
\* #createValidTx copies auxiliaryData, extraSigners and signingOptions.
BuildInit(b) ==
    /\ bpc[b] = "init"
    /\ \/ /\ bpc' = [bpc EXCEPT ![b] = "failed"]
          /\ UNCHANGED validTx
       \/ /\ validTx' = [validTx EXCEPT ![b] =
                 [body |-> request[b], aux |-> auxiliaryData,
                  signers |-> extraSigners, opts |-> signingOptions]]
          /\ bpc' = [bpc EXCEPT ![b] = "done"]
    /\ UNCHANGED <<setters, certificates, isSubmitted, rewardAccounts, keyStatus,
                   validated, request, spc, signed, submitted, edits>>

-----------------------------------------------------------------------------
(* ValidTx.sign() and SignedTx.submit() *)

\* sign(): createSignedTx is given the tx body and the builder's
\* auxiliaryData, extraSigners and signingOptions read when sign() runs.
Sign(b) ==
    /\ bpc[b] = "done" /\ spc[b] = "none"
    /\ signed' = [signed EXCEPT ![b] =
          [body |-> validTx[b].body, aux |-> auxiliaryData,
           signers |-> extraSigners, opts |-> signingOptions]]
    /\ spc' = [spc EXCEPT ![b] = "signing"]
    /\ UNCHANGED <<setters, certificates, isSubmitted, rewardAccounts, keyStatus,
                   bpc, validated, request, validTx, submitted, edits>>

\* finalizeTx resolves (the SignedTx is returned) or rejects.
Finalize(b) ==
    /\ spc[b] = "signing"
    /\ \E ok \in BOOLEAN : spc' = [spc EXCEPT ![b] = IF ok THEN "signed" ELSE "failed"]
    /\ UNCHANGED <<setters, certificates, isSubmitted, rewardAccounts, keyStatus,
                   bpc, validated, request, validTx, signed, submitted, edits>>

\* submit(): wallet.submitTx is called with the finalized transaction.
Submit(b) ==
    /\ spc[b] = "signed"
    /\ spc' = [spc EXCEPT ![b] = "submitting"]
    /\ UNCHANGED <<setters, certificates, isSubmitted, rewardAccounts, keyStatus,
                   bpc, validated, request, validTx, signed, submitted, edits>>

\* wallet.submitTx resolves and afterSubmitCb sets #isSubmitted, or it rejects.
SubmitDone(b) ==
    /\ spc[b] = "submitting"
    /\ \/ /\ submitted' = Append(submitted, signed[b])
          /\ isSubmitted' = TRUE
          /\ spc' = [spc EXCEPT ![b] = "submitted"]
       \/ /\ spc' = [spc EXCEPT ![b] = "failed"]
          /\ UNCHANGED <<submitted, isSubmitted>>
    /\ UNCHANGED <<setters, certificates, rewardAccounts, keyStatus,
                   bpc, validated, request, validTx, signed, edits>>

-----------------------------------------------------------------------------

Next ==
    \/ \E o \in Outputs : AddOutput(o) \/ RemoveOutput(o)
    \/ \E p \in Pools \cup {None} : Delegate(p)
    \/ \E md \in Metadatas : SetMetadata(md)
    \/ \E s \in Signers : SetExtraSigners(s)
    \/ \E opt \in Options : SetSigningOptions(opt)
    \/ \E b \in Builds : \/ BuildCall(b) \/ BuildCerts(b) \/ ValidateOutputs(b) \/ BuildValidate(b)
                         \/ BuildInit(b) \/ Sign(b) \/ Finalize(b) \/ Submit(b)
                         \/ SubmitDone(b)

Spec == Init /\ [][Next]_vars

-----------------------------------------------------------------------------
(* Properties *)

\* The status a key will have once the wallet's pending transactions are on
\* chain.
Settled(status) == IF status \in {"Registering", "Registered"} THEN "Registered"
                                                             ELSE "Unregistered"

\* Every transaction body built with initializeTx obeys the ledger's rules
\* for the stake keys #addDelegationCertificates writes certificates for,
\* taken after the wallet's pending transactions: a key is registered only
\* when it will be unregistered, deregistered only when it will be
\* registered, delegates only when it will be registered or is registered
\* earlier in the same body, and no certificate appears twice (the log
\* messages of lines 225 and 239: "Stake key not registered", "Stake key
\* already registered").
CertificatesFollowLedgerRules ==
    \A b \in Builds : request[b] # None =>
       LET cs == request[b].certs IN
       /\ IsInjective(cs)
       /\ \A i \in DOMAIN cs :
            LET a == cs[i].key
                registeredBefore == \E j \in 1..(i - 1) :
                                      cs[j] = Cert("StakeKeyRegistration", a, None)
            IN /\ cs[i].type = "StakeKeyRegistration" => Settled(keyStatus[a]) = "Unregistered"
               /\ cs[i].type = "StakeKeyDeregistration" => Settled(keyStatus[a]) = "Registered"
               /\ cs[i].type = "StakeDelegation" =>
                     Settled(keyStatus[a]) = "Registered" \/ registeredBefore

\* Once a transaction built by this builder was submitted, no build()
\* returns a ValidTx any more (the comment on #isSubmitted: do not allow
\* building if a transaction built by this builder was already submitted).
NoBuildAfterSubmit ==
    [][\A b \in Builds : isSubmitted /\ bpc[b] # "done" => bpc'[b] # "done"]_vars

\* What sign() hands to finalizeTx is the ValidTx it was called on: the
\* auxiliary data whose hash its body was built with (the ValidTx shows the
\* same), and the extra signers the ValidTx shows.
SignedTxIsValidTx ==
    \A b \in Builds : signed[b] # None =>
       /\ signed[b].aux = validTx[b].body.aux
       /\ signed[b].aux = validTx[b].aux
       /\ signed[b].signers = validTx[b].signers

=============================================================================
