----------------------------- MODULE SamlClaims -----------------------------
(***************************************************************************)
(* What a SAML application asserts of its users: the claim mappings of the  *)
(* app, and what the collected profiles of a user tell about the values     *)
(* (models/saml.py).  Those that cannot be told are marked incomplete.      *)
(*                                                                         *)
(* An expression is the text <<namespace, attribute>> if it is a direct     *)
(* reference, and a longer or shorter text otherwise.  A profile is a       *)
(* function from its attributes to the sets of their values; of a value it  *)
(* counts what it is exactly, folded, as a UUID, and if it is an address.   *)
(***************************************************************************)
EXTENDS SamlRoutes

ClaimMappingId(app, index) == <<"claim", app, index>>

\* _statement_expression: a statement without values stands for itself, but if
\* there is nothing at all in it.
StatementExpression(statement) ==
  IF Given(statement.expression) THEN statement.expression
  ELSE IF statement.empty THEN NoText
  ELSE <<"statement">>

Mapping(type, origin, name, format, expression) ==
  [type |-> type, origin |-> origin, name |-> name, format |-> format,
   expression |-> expression]

\* The template of the subject, else that of the user names.
NameIdMappings(app) ==
  LET subject == app.signOn.subjectTemplate
  IN IF ~Given(FirstGiven(<<subject, app.userNameTemplate>>))
       THEN <<>>
       ELSE <<Mapping("name_id",
                      IF Given(subject) THEN "subject_name_id"
                                        ELSE "application_user_name",
                      <<"NameID">>, app.signOn.subjectFormat,
                      FirstGiven(<<subject, app.userNameTemplate>>))>>

StatementMappings(app) ==
  LET statements ==
        SelectSeq(app.signOn.statements \o app.signOn.configuredStatements,
                  LAMBDA s : Given(StatementExpression(s)) \/ Given(s.name))
  IN [i \in DOMAIN statements |->
        Mapping("attribute", "attribute_statement",
                FirstGiven(<<statements[i].name, <<"attribute">>>>), "",
                StatementExpression(statements[i]))]

\* saml_claim_mapping_rows
SamlClaimMappingRows(app) ==
  LET mappings == NameIdMappings(app) \o StatementMappings(app)
  IN IF IsSamlApplication(app) /\ app.signOn.present
       THEN {[id |-> ClaimMappingId(app.id, i - 1), app |-> app.id,
              mapping |-> mappings[i]] : i \in DOMAIN mappings}
       ELSE {}

-----------------------------------------------------------------------------
(* The fields of an assertion that the graph compares. *)

CommonFields == {"email", "upn", "entra", "scoped"}

ClaimNames ==
  [email |-> {<<"email">>, <<"mail">>, <<"claims/emailaddress">>},
   upn |-> {<<"upn">>, <<"userprincipalname">>, <<"claims/upn">>},
   entra |-> {<<"claims/objectidentifier">>}, scoped |-> {}]

IsDirect(expression) ==
  Len(expression) = 2 /\ expression[1] \in {"source", "user", "appuser"}

NameIdFamily(m) ==
  IF m.format = "transient" THEN "transient"
  ELSE IF m.format = "email" THEN "email"
  ELSE IF m.format = "persistent" \/ m.origin = "application_user_name" THEN "scoped"
  ELSE IF ~IsDirect(m.expression) THEN "raw_name_id"
  ELSE IF m.expression[2] \in {"email", "mail"} THEN "email"
  ELSE IF m.expression[2] \in {"upn", "userprincipalname"} THEN "upn"
  ELSE "raw_name_id"

AttributeFamily(m) ==
  IF \E f \in CommonFields : m.name \in ClaimNames[f]
    THEN CHOOSE f \in CommonFields : m.name \in ClaimNames[f]
    ELSE "exceptional"

\* _claim_family
ClaimFamily(m) == IF m.type = "name_id" THEN NameIdFamily(m) ELSE AttributeFamily(m)

-----------------------------------------------------------------------------
(* The values. *)

Attribute(profile, attribute) ==
  IF attribute \in DOMAIN profile THEN profile[attribute] ELSE {}

\* _application_user_direct_values, with the profile of the source user.
DirectValues(expression, appUser, source) ==
  IF ~IsDirect(expression) THEN {}
  ELSE IF expression = <<"appuser", "username">> THEN appUser.username
  ELSE IF expression[1] = "appuser" THEN Attribute(appUser.profile, expression[2])
  ELSE Attribute(source, expression[2])

\* The forms in which values are compared; a value may have none.
Canonical(family, values) ==
  CASE family \in {"email", "upn"} -> {v.folded : v \in values}
    [] family = "entra" -> {v.uuid : v \in {w \in values : w.uuid # ""}}
    [] family = "scoped" -> {v.exact : v \in values}
    [] OTHER -> {}

\* Wrong: a value that has no canonical form is passed over in silence
\* (AssertionsAreHonest).
IsIncompleteIfEmpty(m, values) == ~IsDirect(m.expression) \/ values = {}

\* A field is incomplete if a mapping to it tells nothing, or not everything.
IsIncomplete(m, values) ==
  \/ ~IsDirect(m.expression) \/ values = {}
  \/ ClaimFamily(m) = "entra" /\ \E v \in values : v.uuid = ""

\* _source_login_email_values: the login in a NameID, if it is an address.
LoginAddresses(m, values) ==
  IF m.type = "name_id" /\ ClaimFamily(m) # "transient"
       /\ m.expression = <<"source", "login">>
    THEN {v.folded : v \in {w \in values : w.address}} ELSE {}

Exact(values) == {v.exact : v \in values}

\* What the graph does not compare, by the mapping.
ClaimValue(row, values) ==
  LET safe == ClaimFamily(row.mapping) # "transient"
  IN [mapping |-> row.id, values |-> Exact(values),
      canonical |-> IF safe THEN Exact(values) ELSE {},
      unsafe |-> IF safe THEN {} ELSE Exact(values),
      incomplete |-> ~IsDirect(row.mapping.expression) \/ values = {}]

\* saml_application_assertion_evidence; no mapping at all means that they are
\* not known, as every SAML application has one.
AssertionEvidence(appUser, rows, source) ==
  LET values(row) == DirectValues(row.mapping.expression, appUser, source)
      family(row) == ClaimFamily(row.mapping)
      common == {row \in rows : family(row) \in CommonFields}
      raw == {row \in rows : family(row) = "raw_name_id" /\ values(row) # {}}
      told(f) == {row \in common : family(row) = f}
      addresses ==
        UNION {LoginAddresses(row.mapping, values(row)) : row \in common \cup raw}
  IN [fields |->
        [f \in CommonFields |->
           (IF f = "email" THEN addresses ELSE {})
             \cup UNION {Canonical(f, values(row)) : row \in told(f)}],
      match |-> UNION {Exact(values(row)) : row \in common \cup raw},
      incomplete |->
        IF rows = {}
          THEN CommonFields
          ELSE {f \in CommonFields :
                  \E row \in told(f) : IsIncomplete(row.mapping, values(row))},
      claims |-> {ClaimValue(row, values(row)) : row \in rows \ (common \cup raw)}]
=============================================================================
