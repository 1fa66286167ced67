--------------------------- MODULE Authentication ---------------------------
(***************************************************************************)
(* Which tenant a request is taken to come from: tenant tokens by Basic or  *)
(* Bearer, access tokens bought with them, and the cookie of an exchange's  *)
(* page.  Signatures and expiry of tokens are taken as good: the module     *)
(* says who is recognised.  Names and tenants are those of Tenancy.         *)
(*                                                                         *)
(* A token is a record of its kind and of what it says.                     *)
(***************************************************************************)
EXTENDS Tenancy

TenantToken(secret)  == [kind |-> "tenant", says |-> secret]
AccessToken(word)    == [kind |-> "access", says |-> word]

(* config: the tokens by tenant, and whether ACCESS_JWT_SECRET is set.       *)
Enabled(config) == DOMAIN config.tokens # {}

(* Without tokens there is still the default tenant, with a token of its own.*)
TenantTokens(config) ==
  IF Enabled(config) THEN config.tokens ELSE [w \in {DefaultWord} |-> "default"]

\* A slip: the name is looked up as it was written.
TenantOfExactName(config, name) ==
  IF ~name.upper /\ name.word \in DOMAIN config.tokens THEN LowerName(name.word) ELSE None

TenantOfName(config, name) ==
  IF Lower(name).word \in DOMAIN config.tokens THEN LowerName(Lower(name).word) ELSE None

(* By name, by token, or by both; of several with one token, some tenant.    *)
GetTenant(config, name, secret) ==
  IF ~Enabled(config) THEN None
  ELSE IF secret = None THEN IF name = None THEN None ELSE TenantOfName(config, name)
  ELSE LET holders == {w \in DOMAIN config.tokens : config.tokens[w] = secret} IN
       IF name = None
       THEN IF holders = {} THEN None ELSE LowerName(CHOOSE w \in holders : TRUE)
       ELSE IF TenantOfName(config, name) \in {LowerName(w) : w \in holders}
            THEN TenantOfName(config, name) ELSE None

VerifyAccessToken(config, token) ==
  IF config.accessSecret /\ token.kind = "access" THEN token.says ELSE None

(* An access token is recognised before a tenant's.                          *)
AuthenticateTenant(config, token) ==
  LET sub == VerifyAccessToken(config, token) IN
  IF sub # None
  THEN IF sub \in DOMAIN config.tokens THEN LowerName(sub) ELSE None
  ELSE IF token.kind = "tenant" THEN GetTenant(config, None, token.says) ELSE None

Basic(name, secret) == [scheme |-> "Basic", name |-> name, token |-> TenantToken(secret)]
Bearer(token)       == [scheme |-> "Bearer", name |-> None, token |-> token]

TenantFromAuthorizationHeader(config, header) ==
  IF header.scheme = "Basic" THEN GetTenant(config, header.name, header.token.says)
  ELSE AuthenticateTenant(config, header.token)

(* The token endpoint, client_credentials: the tokens it gives out.          *)
HandleOAuthTokenPost(config, clientId, clientSecret) ==
  {AccessToken(w) : w \in {v \in DOMAIN TenantTokens(config) :
     /\ config.accessSecret
     /\ v = Lower(clientId).word
     /\ TenantTokens(config)[v] = clientSecret}}

-----------------------------------------------------------------------------
(* The middlewares: who it is, "anyone" if authentication is off or the page *)
(* of the exchange asks, or "refused".                                       *)
Caller(who, tenant) == [who |-> who, tenant |-> tenant]

AuthenticateTenantMiddleware(config, header) ==
  IF ~Enabled(config) THEN Caller("anyone", None)
  ELSE LET tenant == TenantFromAuthorizationHeader(config, header) IN
       IF tenant = None THEN Caller("refused", None) ELSE Caller("tenant", tenant)

(* A cookie decides alone: of this exchange, or of another and refused.      *)
AuthenticateExchangeOrTenantMiddleware(config, cookie, header, x) ==
  IF cookie = None THEN AuthenticateTenantMiddleware(config, header)
  ELSE IF cookie = x THEN Caller("anyone", None) ELSE Caller("refused", None)
=============================================================================
