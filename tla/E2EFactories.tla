----------------------------- MODULE E2EFactories -----------------------------
(***************************************************************************)
(* The factories the end-to-end tests build wallets with                   *)
(* (src/packages/e2e/src/factories.ts) and setupWallet                     *)
(* (src/packages/wallet/src/setupWallet.ts).                               *)
(*                                                                         *)
(* Providers are registered by name with a ProviderFactory per kind;       *)
(* getWallet awaits one provider of each kind, in the order of its object  *)
(* literal, then a key agent factory, then setupWallet.  keyAgentById is   *)
(* lodash memoize of a function that writes the requested index into the   *)
(* params object it is given and creates a key agent factory from it.  A   *)
(* key agent factory (CreateKeyAgent) is a closure over its params object: *)
(* it reads params.accountIndex when the test invokes it, not when it is   *)
(* created.                                                                *)
(*                                                                         *)
(* A params object is reduced to its accountIndex; the other fields        *)
(* (password, networkId, mnemonic) are taken as set.  A provider is        *)
(* reduced to the BlockFrostAPI instance it was given, if any.             *)
(***************************************************************************)
EXTENDS Naturals, Sequences, TLC

CONSTANTS
    Wallets,        \* getWallet calls of a test
    WalletIdx,      \* WalletIdx[w]: the idx prop of getWallet call w, or None
    EnvProvider,    \* env.<KIND>_PROVIDER for each provider kind
    EnvKeyProvider, \* env.KEY_MANAGEMENT_PROVIDER
    EnvParams,      \* the object env.KEY_MANAGEMENT_PARAMS
    HasBaseUrl,     \* the env's provider params carry a baseUrl
    HasApiKey,      \* process.env.BLOCKFROST_API_KEY is set
    Indices,        \* account indices a test asks keyAgentById for
    KeyProviders,   \* provider names a test passes to keyAgentById
    ParamObjs,      \* params objects a test passes to keyAgentById
    MaxCalls,       \* bound on keyAgentById calls
    None            \* undefined

\* getWallet's providers, in the order its object literal awaits them.
ProviderKinds == <<"asset", "chainHistory", "networkInfo", "rewards",
                   "stakePool", "txSubmit", "utxo">>

Objs == ParamObjs \cup {EnvParams}

ASSUME /\ DOMAIN EnvProvider = {ProviderKinds[i] : i \in 1..Len(ProviderKinds)}
       /\ WalletIdx \in [Wallets -> Indices \cup {None}]
       /\ HasBaseUrl \in BOOLEAN /\ HasApiKey \in BOOLEAN /\ MaxCalls \in Nat

VARIABLES
    paramIdx,       \* paramIdx[o]: params.accountIndex of params object o
    cache,          \* keyAgentById's memoize cache: accountIndex -> the promise it returned
    calls,          \* calls[k]: the k-th keyAgentById call and the promise it returned
    agents,         \* agents[k]: the key agent made by invoking calls[k]'s CreateKeyAgent, or None
    apis,           \* BlockFrostAPI instances created so far
    wpc,            \* wpc[w]: the step getWallet w is at
    created,        \* created[w]: how many of its providers getWallet w has
    walletApis,     \* walletApis[w]: the BlockFrostAPI instances of w's providers
    walletKey       \* walletKey[w]: the key agent w's CreateKeyAgent makes, or None

vars == <<paramIdx, cache, calls, agents, apis, wpc, created, walletApis, walletKey>>

-----------------------------------------------------------------------------
(* The registrations *)

\* The names each provider factory has registered.
Registered == [asset |-> {"http", "blockfrost"}, chainHistory |-> {"blockfrost", "http"},
               networkInfo |-> {"blockfrost", "http"}, rewards |-> {"blockfrost", "http"},
               txSubmit |-> {"blockfrost", "ogmios", "http"},
               utxo |-> {"blockfrost", "http"}, stakePool |-> {"stub", "http"}]

\* The names whose factory throws without params.baseUrl.
NeedsBaseUrl == {"http", "ogmios"}

\* getBlockfrostApi: throws without a project id; otherwise a new instance,
\* since the module's blockfrostApi is never assigned.
GetBlockfrostApi == IF HasApiKey THEN [ok |-> TRUE, api |-> apis + 1] ELSE [ok |-> FALSE]

\* keyManagementFactory.create(provider, params): an unregistered name and a
\* missing accountIndex reject; otherwise the promise of a CreateKeyAgent
\* closed over the params object.
Rejected == [ok |-> FALSE]
KeyManagementCreate(p, o, idx) ==
    IF p \notin {"inMemory", "ledger", "trezor"} \/ idx = None THEN Rejected
    ELSE [ok |-> TRUE, provider |-> p, obj |-> o]

-----------------------------------------------------------------------------

Init ==
    /\ paramIdx \in [Objs -> Indices \cup {None}]
    /\ cache = <<>>
    /\ calls = <<>>
    /\ agents = <<>>
    /\ apis = 0
    /\ wpc = [w \in Wallets |-> "providers"]
    /\ created = [w \in Wallets |-> 0]
    /\ walletApis = [w \in Wallets |-> {}]
    /\ walletKey = [w \in Wallets |-> None]

\* keyAgentById(i, p, o): memoize returns the promise cached for i, whatever
\* p and o are; on a miss the function sets o.accountIndex and creates.
keyAgentById(i, p, o) ==
    /\ Len(calls) < MaxCalls
    /\ IF i \in DOMAIN cache
       THEN /\ calls' = Append(calls, [index |-> i, provider |-> p, promise |-> cache[i]])
            /\ UNCHANGED <<paramIdx, cache>>
       ELSE LET promise == KeyManagementCreate(p, o, i)
            IN /\ paramIdx' = [paramIdx EXCEPT ![o] = i]
               /\ cache' = (i :> promise) @@ cache
               /\ calls' = Append(calls, [index |-> i, provider |-> p, promise |-> promise])
    /\ agents' = Append(agents, None)
    /\ UNCHANGED <<apis, wpc, created, walletApis, walletKey>>

\* The test invokes the CreateKeyAgent of call k: the closure reads
\* params.accountIndex of its params object now.
InvokeKeyAgent(k) ==
    /\ agents[k] = None /\ calls[k].promise.ok
    /\ agents' = [agents EXCEPT ![k] = [index |-> paramIdx[calls[k].promise.obj],
                                         provider |-> calls[k].promise.provider]]
    /\ UNCHANGED <<paramIdx, cache, calls, apis, wpc, created, walletApis, walletKey>>

\* getWallet awaits the provider of the next kind: an unregistered name and a
\* missing baseUrl reject; a blockfrost provider awaits getBlockfrostApi
\* inside a Promise executor, so when it throws the promise never settles.
GetWalletProvider(w) ==
    /\ wpc[w] = "providers"
    /\ LET kind == ProviderKinds[created[w] + 1]
           name == EnvProvider[kind]
           next == IF created[w] + 1 = Len(ProviderKinds) THEN "keyAgent" ELSE "providers"
       IN CASE name \notin Registered[kind] \/ (name \in NeedsBaseUrl /\ ~HasBaseUrl) ->
                 /\ wpc' = [wpc EXCEPT ![w] = "failed"]
                 /\ UNCHANGED <<apis, created, walletApis>>
            [] name = "blockfrost" /\ ~GetBlockfrostApi.ok ->
                 /\ wpc' = [wpc EXCEPT ![w] = "hung"]
                 /\ UNCHANGED <<apis, created, walletApis>>
            [] name = "blockfrost" ->
                 /\ apis' = GetBlockfrostApi.api
                 /\ walletApis' = [walletApis EXCEPT ![w] = @ \cup {GetBlockfrostApi.api}]
                 /\ wpc' = [wpc EXCEPT ![w] = next]
                 /\ created' = [created EXCEPT ![w] = @ + 1]
            [] OTHER ->
                 /\ wpc' = [wpc EXCEPT ![w] = next]
                 /\ created' = [created EXCEPT ![w] = @ + 1]
                 /\ UNCHANGED <<apis, walletApis>>
    /\ UNCHANGED <<paramIdx, cache, calls, agents, walletKey>>

\* getWallet copies env.KEY_MANAGEMENT_PARAMS, with accountIndex idx when
\* idx is given, and creates the key agent factory from the copy.
GetWalletKeyAgent(w) ==
    /\ wpc[w] = "keyAgent"
    /\ LET idx == IF WalletIdx[w] # None THEN WalletIdx[w] ELSE paramIdx[EnvParams]
       IN IF KeyManagementCreate(EnvKeyProvider, EnvParams, idx).ok
          THEN /\ walletKey' = [walletKey EXCEPT ![w] =
                                  [index |-> idx, provider |-> EnvKeyProvider]]
               /\ wpc' = [wpc EXCEPT ![w] = "setup"]
          ELSE /\ wpc' = [wpc EXCEPT ![w] = "failed"]
               /\ UNCHANGED walletKey
    /\ UNCHANGED <<paramIdx, cache, calls, agents, apis, created, walletApis>>

\* setupWallet: createKeyAgent with the lazy wallet util, createWallet with
\* the key agent, then walletUtil.initialize(wallet); getWallet resolves.
SetupWallet(w) ==
    /\ wpc[w] = "setup"
    /\ wpc' = [wpc EXCEPT ![w] = "done"]
    /\ UNCHANGED <<paramIdx, cache, calls, agents, apis, created, walletApis, walletKey>>

Next ==
    \/ \E i \in Indices, p \in KeyProviders, o \in Objs : keyAgentById(i, p, o)
    \/ \E k \in DOMAIN calls : InvokeKeyAgent(k)
    \/ \E w \in Wallets : GetWalletProvider(w) \/ GetWalletKeyAgent(w) \/ SetupWallet(w)

Spec == Init /\ [][Next]_vars

-----------------------------------------------------------------------------
(* Properties *)

\* A key agent obtained through keyAgentById(i, p, params) is the key agent
\* of account i made by provider p (its doc comment: key agents at different
\* account indices), even when the test asks for several before invoking one.
KeyAgentByIdMatches ==
    \A k \in DOMAIN agents :
       agents[k] # None => agents[k] = [index |-> calls[k].index, provider |-> calls[k].provider]

=============================================================================
