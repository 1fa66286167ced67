----------------------------- MODULE Registries -----------------------------
(***************************************************************************)
(* Whom a verify exchange trusts: the registries known from the code and    *)
(* the environment, the ones an exchange's names are turned into, what the  *)
(* verifier reports of an issuer that is in one of them, and what the       *)
(* exchange's result says about its issuers.                                *)
(***************************************************************************)
EXTENDS Tenancy, TLC

-----------------------------------------------------------------------------
(* Registries *)

Registry(name, type, url) == [name |-> name, type |-> type, url |-> url]

StaticKnownRegistries ==
  [n \in {"DCC Sandbox Registry", "DCC Community Registry", "DCC Registry"} |->
     Registry(IF n = "DCC Registry" THEN "DCC Member Registry" ELSE n, "dcc-legacy", n)]

(* REGISTRY_VC_RECOGNITION_<S>_URL with its accepted issuers, by the name    *)
(* VC_RECOGNITION_<S>: an entry without either is skipped.                   *)
ParseVcRecognitionRegistries(entries) ==
  [n \in {m \in DOMAIN entries : entries[m].url # None /\ entries[m].acceptedIssuers # {}} |->
     Registry(n, "vc-recognition", entries[n].url)]

(* REGISTRY_OIDF_<S>_TRUST_ANCHOR_EC, by the name OIDF_<S>.                  *)
ParseOidfRegistries(anchors) ==
  [n \in {m \in DOMAIN anchors : anchors[m] # None} |-> Registry(n, "oidf", anchors[n])]

(* Later entries of the spread win.                                          *)
BuildKnownRegistries(env) ==
  ParseVcRecognitionRegistries(env.recognition) @@ ParseOidfRegistries(env.oidf)
    @@ StaticKnownRegistries

(* An unknown name becomes a registry of its own: a name that is a URL at    *)
(* that URL, any other at one made from it.                                  *)
MapRegistryNamesToRegistries(names, known) ==
  {IF n \in DOMAIN known THEN known[n] ELSE Registry(n, "dcc-legacy", n) : n \in names}

(* The synchronous pass asks the registries the exchange names, or the       *)
(* configured ones.                                                          *)
RegistriesOf(trustedRegistries, defaultNames, known) ==
  MapRegistryNamesToRegistries(
    IF trustedRegistries # {} THEN trustedRegistries ELSE defaultNames, known)

\* A slip: the worker only knows the ones the exchange names.
ResolveNamed(trustedRegistries, defaultNames, known) ==
  MapRegistryNamesToRegistries(trustedRegistries, known)

(* The worker, whose registry checks replace those of the synchronous pass.  *)
DefaultResolveRegistries(trustedRegistries, defaultNames, known) ==
  MapRegistryNamesToRegistries(
    IF trustedRegistries # {} THEN trustedRegistries ELSE defaultNames, known)

(* verifier-core's registry check of an issuer: it succeeds if a registry    *)
(* lists the issuer, and the payload of its outcome names the ones that do.  *)
(* A check that succeeds is only listed with `verbose`.                      *)
RegistryChecksOf(issuer, registries, listing, verbose) ==
  LET found == {r.name : r \in {q \in registries : <<q.url, issuer>> \in listing}}
      outcome == [status |-> IF found = {} THEN "failure" ELSE "success",
                  foundInRegistries |-> {}, payload |-> found]
  IN IF verbose \/ found = {} THEN {outcome} ELSE {}

-----------------------------------------------------------------------------
(* Issuers *)

IssuerReport(issuerFound, registryMatch) ==
  [issuerFound |-> issuerFound, registryMatch |-> registryMatch]

(* The names are looked for in the outcome, not in its payload; where there  *)
(* are none, a success counts if the exchange names no registry.             *)
ValidateTrustedIssuers(issuer, trustedIssuers, trustedRegistries, checks) ==
  IssuerReport(issuer \in trustedIssuers,
    \E check \in checks :
      /\ check.status = "success"
      /\ IF check.foundInRegistries # {}
         THEN check.foundInRegistries \cap trustedRegistries # {}
         ELSE trustedRegistries = {})

(* issuerValidation: None if the exchange names neither issuers nor          *)
(* registries; both flags say whether every credential passed.               *)
IssuerValidation(credentials, trustedIssuers, trustedRegistries) ==
  IF trustedIssuers = {} /\ trustedRegistries = {} THEN None
  ELSE LET valid == \A i \in DOMAIN credentials :
             LET report == ValidateTrustedIssuers(credentials[i].issuer, trustedIssuers,
                                                  trustedRegistries, credentials[i].checks)
             IN report.issuerFound \/ report.registryMatch
       IN IssuerReport(valid, valid)
=============================================================================
