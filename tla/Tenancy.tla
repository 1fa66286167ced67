------------------------------- MODULE Tenancy -------------------------------
(***************************************************************************)
(* Whose exchange it is and who signs for it: the tenants and issuer        *)
(* instances read from the environment, the tenant an exchange is created   *)
(* for, which tenant may read it, and the instance that signs its           *)
(* credential.  Who the caller is has been established before: authTenant   *)
(* is the tenant that authentication found, or None when it is switched off.*)
(*                                                                         *)
(* A name is a word with its case: the environment is matched in upper      *)
(* case, tenants are filed in lower case, requests may write either.        *)
(***************************************************************************)
EXTENDS Naturals, Sequences

CONSTANTS
  Words,          \* tenant names, case apart
  DefaultWord,    \* "default"
  Cryptosuites,   \* cryptosuite names, known to the service or not
  None

ASSUME DefaultWordAssumption == DefaultWord \in Words
Name == [word : Words, upper : BOOLEAN]

ASSUME AbsentAssumption == None \notin Cryptosuites /\ None \notin Name

Lower(name) == [name EXCEPT !.upper = FALSE]
LowerName(word) == [word |-> word, upper |-> FALSE]

-----------------------------------------------------------------------------
(* Configuration *)

CryptosuitePriority ==
  <<"eddsa-rdfc-2022", "ecdsa-rdfc-2019", "ed25519-signature-2020">>

(* TENANT_ISSUER_<n>_*: read from 1 up to the first number without an ID.    *)
ParseIssuerInstances(entries, word) ==
  LET read == {n \in DOMAIN entries : \A m \in 1..n : entries[m].id # None} IN
  [n \in read |->
    [id |-> entries[n].id,
     cryptosuite |-> IF entries[n].cryptosuite = None THEN "eddsa-rdfc-2022"
                     ELSE entries[n].cryptosuite,
     signingTenant |-> IF entries[n].signingTenant = None THEN LowerName(word)
                       ELSE entries[n].signingTenant]]

(* The tenants that have a token; without any, the default tenant.           *)
Tenants(env) ==
  LET words == IF env.tokens = {} THEN {DefaultWord} ELSE env.tokens IN
  [w \in words |-> ParseIssuerInstances(env.issuers[w], w)]

-----------------------------------------------------------------------------
(* Creating and reading *)

\* A slip: the body's name is taken for the exchange unchecked.
ResolveUnchecked(bodyTenantName, authTenant, defaultTenantName) ==
  IF bodyTenantName # None THEN bodyTenantName
  ELSE IF authTenant # None THEN authTenant ELSE defaultTenantName

(* None stands for the 401 of a name that is not the caller's.               *)
ResolveExchangeTenant(bodyTenantName, authTenant, defaultTenantName) ==
  IF authTenant # None
  THEN IF bodyTenantName \in {None, authTenant} THEN authTenant ELSE None
  ELSE IF bodyTenantName # None THEN bodyTenantName ELSE defaultTenantName

(* The GET of an exchange by a tenant, without an exchange token.            *)
MayRead(tenantName, authTenant) == authTenant \in {None, tenantName}

-----------------------------------------------------------------------------
(* Signing *)

CryptosuiteRank(cryptosuite) ==
  IF \E r \in DOMAIN CryptosuitePriority : CryptosuitePriority[r] = cryptosuite
  THEN CHOOSE r \in DOMAIN CryptosuitePriority : CryptosuitePriority[r] = cryptosuite
  ELSE Len(CryptosuitePriority) + 1

(* The head of a stable sort by rank.                                        *)
FirstByPriority(instances, pool) ==
  CHOOSE i \in pool : \A j \in pool :
    \/ CryptosuiteRank(instances[i].cryptosuite) < CryptosuiteRank(instances[j].cryptosuite)
    \/ /\ CryptosuiteRank(instances[i].cryptosuite) = CryptosuiteRank(instances[j].cryptosuite)
       /\ i <= j

\* A slip: what the wallet used is not looked at.
SelectIgnoringWallet(instances, wallet) ==
  IF instances = <<>> THEN None
  ELSE instances[FirstByPriority(instances, DOMAIN instances)]

SelectIssuerInstance(instances, wallet) ==
  LET matching == {i \in DOMAIN instances : instances[i].cryptosuite \in wallet} IN
  IF instances = <<>> THEN None
  ELSE instances[FirstByPriority(instances,
                   IF matching # {} THEN matching ELSE DOMAIN instances)]

(* The suites named by the proofs of the wallet's presentation.              *)
ExtractWalletCryptosuites(proofs) ==
  {p.cryptosuite : p \in {q \in proofs : q.cryptosuite # None}} \cup
  {"ed25519-signature-2020" : p \in {q \in proofs : q.type = "Ed25519Signature2020"}}

(* Who signs the credential of an exchange, in whose name: an issuer of None *)
(* is the one its template names.                                            *)
SignedFor(tenants, tenantName, proofs) ==
  LET word == Lower(tenantName).word
      instance == IF word \notin DOMAIN tenants THEN None
                  ELSE SelectIssuerInstance(tenants[word], ExtractWalletCryptosuites(proofs))
  IN IF instance = None THEN [issuer |-> None, signingTenant |-> tenantName]
     ELSE [issuer |-> instance.id, signingTenant |-> instance.signingTenant]
=============================================================================
