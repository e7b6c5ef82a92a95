----------------------------- MODULE SamlRoutes -----------------------------
(***************************************************************************)
(* What the settings of a SAML application say about itself: who issues its *)
(* assertions, and to which assertion consumer services of which service    *)
(* provider they go (models/saml.py).  There are several settings for the   *)
(* same thing; where they contradict each other nothing is said.            *)
(***************************************************************************)
EXTENDS OinRoutes

IsSamlApplication(app) == app.mode = "SAML_2_0"

FirstGiven(texts) ==
  IF \E i \in DOMAIN texts : Given(texts[i])
    THEN texts[CHOOSE i \in DOMAIN texts :
                 Given(texts[i]) /\ \A j \in 1 .. i - 1 : ~Given(texts[j])]
    ELSE NoText

\* The elements in the order of their first places.
Distinct(s) ==
  LET seen[n \in 0 .. Len(s)] ==
        IF n = 0 THEN <<>>
        ELSE IF Contains(seen[n - 1], s[n]) THEN seen[n - 1]
        ELSE Append(seen[n - 1], s[n])
  IN seen[Len(s)]

\* The endpoints that have a URL.
WithUrls(endpoints) ==
  LET kept[n \in 0 .. Len(endpoints)] ==
        IF n = 0 THEN <<>>
        ELSE IF Given(endpoints[n].url) THEN Append(kept[n - 1], endpoints[n])
        ELSE kept[n - 1]
  IN kept[Len(endpoints)]

\* The ids of the nodes.
SamlProviderId(app) == <<"provider", app>>
SamlIssuerId(app) == <<"issuer", app>>
SamlAcsId(app, index) == <<"acs", app, index>>

-----------------------------------------------------------------------------
(* The issuer. *)

\* A configured issuer may be an expression that only Okta can resolve.
IsExpression(issuer) == Contains(issuer, "${org.externalKey}")
Concrete(issuer) == IF IsExpression(issuer) THEN NoText ELSE issuer

\* _idp_issuer_resolution: the metadata of the app, unless the settings
\* contradict it.
IdpIssuer(app) ==
  LET issuers == <<Concrete(app.metadata), Concrete(app.signOn.idpIssuer)>>
  IN IF Given(issuers[1]) /\ Given(issuers[2]) /\ issuers[1] # issuers[2]
       THEN NoText ELSE FirstGiven(issuers)

-----------------------------------------------------------------------------
(* The routes that the settings state. *)

\* audienceOverride is the entity; else the others must agree.
SpFields == <<"spIssuer", "audience", "sloSpIssuer">>
SpCandidates(signOn) ==
  {text \in {signOn[SpFields[i]] : i \in DOMAIN SpFields} : Given(text)}

\* Wrong: the first of the fields counts, whatever the others say
\* (RoutesAreProven).
SpNeverConflicts(signOn) == FALSE

SpConflict(signOn) ==
  ~Given(signOn.audienceOverride) /\ Cardinality(SpCandidates(signOn)) > 1

ExplicitSpEntity(signOn) ==
  IF Given(signOn.audienceOverride)
    THEN signOn.audienceOverride
    ELSE FirstGiven([i \in DOMAIN SpFields |-> signOn[SpFields[i]]])

AcsFields ==
  <<"ssoAcsUrlOverride", "ssoAcsUrl", "recipientOverride", "destinationOverride",
    "recipient", "destination">>

PrimaryAcs(signOn) == FirstGiven([i \in DOMAIN AcsFields |-> signOn[AcsFields[i]]])

\* The primary one comes first, then the endpoints, the encrypted ones last.
AcsCandidates(signOn) ==
  WithUrls(<<[url |-> PrimaryAcs(signOn), index |-> 0, binding |-> NoText,
              default |-> "yes"]>> \o signOn.endpoints \o signOn.encrypted)

ExplicitAcsUrls(signOn) ==
  {endpoint.url : endpoint \in ToSet(AcsCandidates(signOn))}

ExplicitRoutes(signOn) ==
  LET endpoints == AcsCandidates(signOn)
      sp == ExplicitSpEntity(signOn)
  IN IF SpConflict(signOn) \/ ~Given(sp)
       THEN <<>>
       ELSE Distinct([i \in DOMAIN endpoints |->
                        Route(endpoints[i].url, sp, endpoints[i].index,
                              endpoints[i].binding, endpoints[i].default, "settings")])

-----------------------------------------------------------------------------
(* Both kinds of evidence together. *)

Keys(routes) == {<<r.url, r.sp>> : r \in ToSet(routes)}

Marked(routes) == [i \in DOMAIN routes |-> [routes[i] EXCEPT !.conflict = TRUE]]

\* Settings that state only one half of a route, and the routes of the
\* catalogue: these count only if the half is not there at all.
PartialDiagnostics(signOn, oin) ==
  (IF ExplicitAcsUrls(signOn) = {} THEN {}
   ELSE IF \E r \in ToSet(oin) : r.url \notin ExplicitAcsUrls(signOn)
     THEN {"partial_explicit_acs_conflicts_with_oin_route"}
     ELSE {"missing_authoritative_sp_entity_evidence"})
  \cup
  (IF ~Given(ExplicitSpEntity(signOn)) THEN {}
   ELSE IF \E r \in ToSet(oin) : r.sp # ExplicitSpEntity(signOn)
     THEN {"partial_explicit_sp_entity_conflicts_with_oin_route"}
     ELSE {"missing_authoritative_acs_evidence"})

MissingDiagnostics(signOn) ==
  IF ExplicitAcsUrls(signOn) # {} THEN {"missing_authoritative_sp_entity_evidence"}
  ELSE IF Given(ExplicitSpEntity(signOn)) THEN {"missing_authoritative_acs_evidence"}
  ELSE {"missing_authoritative_acs_and_sp_entity_evidence"}

\* _saml_routes
SamlRoutesOf(app) ==
  LET explicit == ExplicitRoutes(app.signOn)
      oin == ResolveOinRoutes(app)
      partial == PartialDiagnostics(app.signOn, oin.routes)
  IN IF ~IsSamlApplication(app) THEN Resolution(<<>>, {})
     ELSE IF SpConflict(app.signOn)
       THEN Resolution(<<>>, {"conflicting_explicit_sp_entity_fields"})
     ELSE IF explicit # <<>>
       THEN IF Keys(oin.routes) \subseteq Keys(explicit)
              THEN Resolution(explicit, {})
              ELSE Resolution(Marked(explicit),
                     {"explicit_generic_route_overrides_conflicting_oin_route"})
     ELSE IF oin.routes # <<>>
       THEN IF partial = {} THEN oin ELSE Resolution(<<>>, partial)
     ELSE IF oin.diagnostics # {}
       THEN oin
       ELSE Resolution(<<>>, MissingDiagnostics(app.signOn))

-----------------------------------------------------------------------------
(* Their rows. *)

\* The first index from the preferred one on that no row has.
FreeIndex(preferred, used) ==
  CHOOSE i \in preferred .. preferred + Cardinality(used) :
    i \notin used /\ preferred .. i - 1 \subseteq used

AddRow(app, rows, route) ==
  LET preferred == IF route.index # NoIndex THEN route.index ELSE Len(rows)
      index == FreeIndex(preferred, {r.id[3] : r \in ToSet(rows)})
  IN Append(rows, [id |-> SamlAcsId(app.id, index), app |-> app.id,
                   route |-> [route EXCEPT !.index = IF @ # NoIndex THEN @ ELSE index]])

\* _saml_acs_rows: the index of the settings names the row, if it is free.
SamlAcsRows(app) ==
  LET routes == SamlRoutesOf(app).routes
      rows[n \in 0 .. Len(routes)] ==
        IF n = 0 THEN <<>> ELSE AddRow(app, rows[n - 1], routes[n])
  IN rows[Len(routes)]

\* saml_issuer_row
SamlIssuerRows(app) ==
  IF IsSamlApplication(app) /\ Given(IdpIssuer(app))
    THEN {[id |-> SamlIssuerId(app.id), entity |-> IdpIssuer(app)]} ELSE {}
=============================================================================
