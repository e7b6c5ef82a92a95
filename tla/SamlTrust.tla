------------------------------ MODULE SamlTrust ------------------------------
(***************************************************************************)
(* The inbound side of SAML: an identity provider (IdP) makes Okta a        *)
(* service provider, with routes of its own and a policy that finds the     *)
(* account for an assertion (models/saml.py).                               *)
(***************************************************************************)
EXTENDS SamlClaims

IsSamlIdentityProvider(idp) == idp.type = "SAML2" /\ idp.protocol = "SAML2"

SamlServiceProviderId(idp) == <<"service-provider", idp>>
\* Of the org that is collected: IdPs that trust the same issuer share it.
SamlTrustedIssuerId(entity) == <<"trusted-issuer", entity>>
SamlSpAcsId(idp, index) == <<"sp-acs", idp, index>>
AccountResolutionRuleId(idp) == <<"rule", idp>>
AccountResolutionFieldId(idp) == <<"field", idp>>

AccountStates ==
  [ACTIVE |-> "enabled", SUSPENDED |-> "suspended", DEPROVISIONED |-> "deprovisioned",
   LOCKED_OUT |-> "login_blocked"]

\* normalize_okta_account_state
AccountState(status) ==
  IF status \in DOMAIN AccountStates THEN AccountStates[status] ELSE "unknown"

-----------------------------------------------------------------------------
(* Finding the account. *)

NoField == "none"

\* The field of an assertion that a template of the policy takes whole.
TemplateField(template) ==
  CASE template = <<"idpuser", "email">> -> "email"
    [] template \in {<<"idpuser", "subjectNameId">>, <<"saml", "subjectNameId">>}
         -> "scoped"
    [] OTHER -> NoField

\* Wrong: a transformation of the user name is not asked for
\* (RulesResolveAsOkta).
IsAutomaticMatch(policy) ==
  /\ policy.action = "AUTO" /\ ~policy.linkFilter
  /\ policy.matchType = "USERNAME" /\ ~policy.subjectFilter /\ ~policy.matchAttribute

\* Nothing but the user name is compared, as it is, and for every account.
IsExactLoginMatch(policy) ==
  /\ policy.action = "AUTO" /\ ~policy.linkFilter
  /\ policy.matchType = "USERNAME" /\ ~policy.subjectFilter /\ ~policy.matchAttribute
  /\ ~policy.transformed

\* _account_resolution_evidence: the field that equals the login.
ResolvingField(idp) ==
  IF IsSamlIdentityProvider(idp) /\ IsExactLoginMatch(idp.policy)
    THEN TemplateField(idp.policy.template) ELSE NoField

\* saml_account_resolution_rule_row, saml_account_resolution_field_row
AccountResolutionRuleRows(idp) ==
  IF ResolvingField(idp) = NoField THEN {}
  ELSE {[id |-> AccountResolutionRuleId(idp.id), assertionField |-> ResolvingField(idp),
         field |-> AccountResolutionFieldId(idp.id)]}

AccountResolutionFieldRows(idp) ==
  IF ResolvingField(idp) = NoField THEN {}
  ELSE {[id |-> AccountResolutionFieldId(idp.id), account |-> "login"]}

-----------------------------------------------------------------------------
(* The routes. *)

SpEntityId(idp) == FirstGiven(<<idp.metadata, idp.audience>>)

\* The endpoints of the metadata, one for each URL, and else the one that the
\* links of the IdP name.
FirstOfUrl(endpoints) ==
  LET seen[n \in 0 .. Len(endpoints)] ==
        IF n = 0 THEN <<>>
        ELSE IF \E x \in ToSet(seen[n - 1]) : x.url = endpoints[n].url THEN seen[n - 1]
        ELSE Append(seen[n - 1], endpoints[n])
  IN seen[Len(endpoints)]

SpEndpoints(idp) ==
  LET stated == WithUrls(idp.metadataAcs)
      linked == [url |-> idp.acsUrl, index |-> 0, binding |-> idp.acsBinding,
                 default |-> "yes"]
  IN IF stated # <<>> THEN FirstOfUrl(stated)
     ELSE IF Given(idp.acsUrl) THEN <<linked>>
     ELSE <<>>

\* _okta_org_trust_specific_acs_url: the org's endpoint, which its IdPs share,
\* has a route for each of them below it.
IsSharedUrl(url) == Len(url) = 2 /\ url[2] = "/sso/saml2"

TrustSpecificUrl(idp, urls) ==
  IF /\ idp.status = "ACTIVE" /\ idp.acsType = "ORG"
     /\ IsSharedUrl(idp.acsUrl) /\ idp.acsUrl \in urls
    THEN Append(idp.acsUrl, idp.id) ELSE NoText

\* saml_sp_acs_rows: the alias comes last, with an index that is not taken.
SamlSpAcsRows(idp) ==
  LET sp == SpEntityId(idp)
      endpoints == SpEndpoints(idp)
      urls == {e.url : e \in ToSet(endpoints)}
      indices == [i \in DOMAIN endpoints |->
                    IF endpoints[i].index # NoIndex THEN endpoints[i].index ELSE i - 1]
      alias == TrustSpecificUrl(idp, urls)
      routes == [i \in DOMAIN endpoints |->
                   Route(endpoints[i].url, sp, indices[i], endpoints[i].binding,
                         endpoints[i].default, "metadata")]
      aliases == IF Given(alias) /\ alias \notin urls
                   THEN <<Route(alias, sp, 1 + Max({-1} \cup Range(indices)),
                                idp.acsBinding, "no", "alias")>>
                   ELSE <<>>
      all == routes \o aliases
  IN IF IsSamlIdentityProvider(idp) /\ Given(sp) /\ endpoints # <<>>
       THEN {[id |-> SamlSpAcsId(idp.id, i - 1), idp |-> idp.id, route |-> all[i]] :
               i \in DOMAIN all}
       ELSE {}

\* saml_trusted_issuer_row
TrustedIssuerRows(idp) ==
  IF IsSamlIdentityProvider(idp) /\ idp.issuer # NoText
    THEN {[id |-> SamlTrustedIssuerId(idp.issuer), entity |-> idp.issuer]} ELSE {}

\* saml_service_provider_row: it names the other rows of the IdP.
ServiceProviderRows(idp) ==
  IF ~IsSamlIdentityProvider(idp) THEN {}
  ELSE {[id |-> SamlServiceProviderId(idp.id), idp |-> idp.id, status |-> idp.status,
         issuers |-> {r.id : r \in TrustedIssuerRows(idp)},
         acs |-> {r.id : r \in SamlSpAcsRows(idp)},
         rules |-> {r.id : r \in AccountResolutionRuleRows(idp)},
         fields |-> {r.field : r \in AccountResolutionRuleRows(idp)}]}

\* saml_federation_provider_row: the same for an application.
FederationProviderRows(app) ==
  IF ~IsSamlApplication(app) THEN {}
  ELSE {[id |-> SamlProviderId(app.id), app |-> app.id, status |-> app.status,
         issuers |-> {r.id : r \in SamlIssuerRows(app)},
         acs |-> {r.id : r \in ToSet(SamlAcsRows(app))},
         mappings |-> {r.id : r \in SamlClaimMappingRows(app)},
         diagnostics |-> SamlRoutesOf(app).diagnostics]}

-----------------------------------------------------------------------------
(* The users that Okta has linked to an IdP. *)

\* _idp_user_value; the values are sets of at most one.  The two templates with
\* the qualifier of the subject are left out: they choose a value as these do.
IdpUserValue(user) ==
  CASE user.template = <<"idpuser", "email">> -> user.email
    [] user.template = <<"idpuser", "subjectNameId">> -> user.subject
    [] OTHER -> {}

\* saml_idp_user_identity_evidence
IdpUserEvidence(user) ==
  LET match == UNION {IdpUserValue(user), user.externalId, user.msObjectId}
      emails == IF user.template = <<"idpuser", "email">>
                  THEN Canonical("email", IdpUserValue(user)) ELSE {}
      objectIds == IF user.microsoft THEN Canonical("entra", user.msObjectId) ELSE {}
  IN [match |-> Exact(match),
      fields |-> [email |-> emails, upn |-> {}, entra |-> objectIds,
                  scoped |-> Exact({v \in match : v.folded \notin emails \cup objectIds})]]
=============================================================================
