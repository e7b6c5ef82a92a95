------------------------------ MODULE OinRoutes ------------------------------
(***************************************************************************)
(* The routes of the SAML applications of Okta's integration network        *)
(* (oin_routes/): a catalogue tells the assertion consumer service (ACS)    *)
(* and the entity of the service provider (SP) from the settings of an app. *)
(*                                                                         *)
(* A text of the configuration is the sequence of the parts that matter, so *)
(* that a URL made from a template equals the same URL written out.  It is  *)
(* NoText if it is None.  The settings of an app are a function from the    *)
(* names that it has to their values, which may also be null, an empty or a *)
(* blank text; of the other settings a text is what _clean leaves of it.    *)
(***************************************************************************)
EXTENDS SequencesExt

NoText == <<>>
EmptyText == <<"">>
Blank == <<" ">>
Given(text) == text # NoText

\* _clean, present_string: not None, and not empty without the blanks around.
IsPresent(text) == text \notin {NoText, EmptyText, Blank}

\* The first part of a text that no validator but present_string accepts.
Malformed == "malformed"
IsValid(text) == IsPresent(text) /\ Head(text) # Malformed

\* settings.get(field)
Setting(settings, field) ==
  IF field \in DOMAIN settings THEN settings[field] ELSE NoText

NoIndex == -1

\* One way of an assertion to a service provider.
Route(url, sp, index, binding, default, source) ==
  [url |-> url, sp |-> sp, index |-> index, binding |-> binding, default |-> default,
   source |-> source, conflict |-> FALSE]

Resolution(routes, diagnostics) == [routes |-> routes, diagnostics |-> diagnostics]

OinRoute(url, sp, source) ==
  Resolution(<<Route(url, sp, 0, NoText, "yes", source)>>, {})

-----------------------------------------------------------------------------
(* The catalogue: templates, in which a part that names a field stands for  *)
(* the setting.                                                             *)

Profile(fields, anyText, acs, sp) ==
  [fields |-> fields, anyText |-> anyText, acs |-> acs, sp |-> sp]

Catalog ==
  [asana
     |-> Profile({}, FALSE, <<"app.asana.com/-/saml/consume">>, <<"app.asana.com">>),
   okta_org2org
     |-> Profile({"acsUrl", "audRestriction"}, TRUE, <<"acsUrl">>, <<"audRestriction">>),
   jamfsoftwareserver
     |-> Profile({"domain"}, FALSE, <<"domain", "/saml/SSO">>,
                 <<"domain", "/saml/metadata">>),
   githubenterprisemanageduser
     |-> Profile({"enterpriseName"}, FALSE,
                 <<"github.com/enterprises/", "enterpriseName", "/saml/consume">>,
                 <<"github.com/enterprises/", "enterpriseName">>),
   panw_globalprotect
     |-> Profile({"baseURL"}, FALSE, <<"baseURL", "/SAML20/SP/ACS">>,
                 <<"baseURL", "/SAML20/SP">>),
   slack
     |-> Profile({"domain"}, FALSE, <<"domain", ".slack.com/sso/saml">>, <<"slack.com">>),
   zoomus
     |-> Profile({"subDomain"}, FALSE, <<"subDomain", ".zoom.us/saml/SSO">>,
                 <<"subDomain", ".zoom.us">>)]

\* RouteProfile.__post_init__: no template names a field that the profile does
\* not declare, and none is declared in vain.
ASSUME CatalogAssumption ==
  \A name \in DOMAIN Catalog :
    Catalog[name].fields \subseteq ToSet(Catalog[name].acs \o Catalog[name].sp)

\* https_origin drops the slash after the origin; the others change nothing.
Validated(field, text) == IF field = "baseURL" THEN <<Head(text)>> ELSE text

\* The template with the settings in their places.
Format(template, fields, settings) ==
  FlattenSeq([i \in DOMAIN template |->
                IF template[i] \in fields
                  THEN Validated(template[i], Setting(settings, template[i]))
                  ELSE <<template[i]>>])

ResolveProfile(profile, settings) ==
  LET isRefused(field) ==
        IF profile.anyText THEN ~IsPresent(Setting(settings, field))
                           ELSE ~IsValid(Setting(settings, field))
      refused == {field \in profile.fields : isRefused(field)}
  IN IF refused # {}
       THEN Resolution(<<>>, {"missing_or_malformed_setting"})
       ELSE OinRoute(Format(profile.acs, profile.fields, settings),
                     Format(profile.sp, profile.fields, settings), "profile")

-----------------------------------------------------------------------------
(* The two applications with resolvers of their own. *)

\* githubOrg counts if it is true to Python, as a blank is, and then orgName
\* does not.
ResolveGithub(settings) ==
  LET field == IF Setting(settings, "githubOrg") \in {NoText, EmptyText}
                 THEN "orgName" ELSE "githubOrg"
      org == Setting(settings, field)
  IN IF IsValid(org)
       THEN OinRoute(<<"github.com/orgs/">> \o org \o <<"/saml/consume">>,
                     <<"github.com/orgs/">> \o org, "profile")
       ELSE Resolution(<<>>, {"missing_or_malformed_setting"})

\* Two settings that are there and null mean Miro's own route.
ResolveMiro(settings) ==
  LET acs == Setting(settings, "customAcsUrl")
      sp == Setting(settings, "customEntityId")
  IN CASE {"customAcsUrl", "customEntityId"} \subseteq DOMAIN settings
            /\ ~Given(acs) /\ ~Given(sp)
            -> OinRoute(<<"miro.com/sso/saml">>, <<"miro.com/">>, "profile")
       [] IsValid(acs) /\ IsValid(sp) -> OinRoute(acs, sp, "profile")
       [] OTHER -> Resolution(<<>>, {"missing_or_malformed_setting"})

\* resolve_oin_routes
ResolveOinRoutes(app) ==
  CASE app.name = "githubcloud" -> ResolveGithub(app.settings)
    [] app.name = "realtime_board" -> ResolveMiro(app.settings)
    [] app.name \in DOMAIN Catalog -> ResolveProfile(Catalog[app.name], app.settings)
    [] OTHER -> Resolution(<<>>, {})
=============================================================================
