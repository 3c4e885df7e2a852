----------------------------- MODULE ApiDiscovery -----------------------------
(***************************************************************************)
(* run_api_discovery of discovery/src/api.rs: the endpoints that OpenAPI     *)
(* documents describe and the GraphQL endpoints that answer.                *)
(*                                                                         *)
(* A document is its paths: [template, placeholders, inherited, methods];  *)
(* a parameter is [name, in, type].  An endpoint is its template with the  *)
(* placeholders that are left and the values of its query.                 *)
(***************************************************************************)
EXTENDS Integers, Sequences, FiniteSets, SequencesExt

CONSTANTS
  ApiSites,    \* [documents, graphql]: what the well-known paths of a site answer
  NoSpec       \* the request failed, its status is an error or it has no such document

ASSUME ApiAssumption ==
  \A s \in ApiSites :
     /\ s.documents \in Seq({s.documents[d] : d \in DOMAIN s.documents})
     /\ s.graphql \in Seq({s.graphql[g] : g \in DOMAIN s.graphql})
     /\ \A d \in DOMAIN s.documents : s.documents[d] # NoSpec =>
          \A i \in DOMAIN s.documents[d] :
            LET path == s.documents[d][i]
            IN  /\ path.inherited \in Seq({path.inherited[k] : k \in DOMAIN path.inherited})
                /\ \A m \in DOMAIN path.methods :
                     path.methods[m] \in Seq({path.methods[m][k] : k \in DOMAIN path.methods[m]})

VARIABLES
  site,
  specsRead,     \* how many specification paths have answered
  operations,    \* of the document, [path, method], without an endpoint so far
  building,      \* the endpoint in the making: [path, method, used, url], of its first
                 \* `used` parameters
  apiAssets,
  graphqlRead    \* how many GraphQL paths have answered

apiVars == <<site, specsRead, operations, building, apiAssets, graphqlRead>>

-----------------------------------------------------------------------------

\* benign_value_for_parameter
BenignValue(parameter) ==
  CASE parameter.type \in {"integer", "number"} -> "1"
    [] parameter.type = "boolean"               -> "false"
    [] OTHER                                    -> "temu"

\* Faulty variant of Filled: an earlier parameter of the same name prevails.
FilledFirstWins(url, p) ==
  IF p.in = "path" THEN [url EXCEPT !.left = @ \ {p.name}]
  ELSE IF p.in = "query" /\ p.name \notin DOMAIN url.query
  THEN [url EXCEPT !.query =
          [n \in DOMAIN @ \cup {p.name} |-> IF n = p.name THEN BenignValue(p) ELSE @[n]]]
  ELSE url

\* One parameter of endpoint_url_from_operation: a later one of the same name replaces
\* the value of an earlier one.
Filled(url, p) ==
  IF p.in = "path" THEN [url EXCEPT !.left = @ \ {p.name}]
  ELSE IF p.in = "query"
  THEN [url EXCEPT !.query =
          [n \in DOMAIN @ \cup {p.name} |-> IF n = p.name THEN BenignValue(p) ELSE @[n]]]
  ELSE url

\* The parameters of the path come before those of the operation.
ParametersOf(path, method) == path.inherited \o path.methods[method]

\* detect_graphql: `page` is what a GET brings, `reply` what the introspection
\* query brings.
GraphqlSource(page, reply) ==
  IF page = "graphql" THEN "graphql"
  ELSE IF reply = NoSpec THEN NoSpec
  ELSE IF reply = "schema" THEN "graphql_introspection_exposed"
  ELSE IF reply = "errors" THEN "graphql_verbose_errors"
  ELSE "graphql"

\* record_asset: once for each URL and source.
RecordAsset(asset) ==
  apiAssets' = IF asset \in ToSet(apiAssets) THEN apiAssets ELSE Append(apiAssets, asset)

OperationsOf(spec) ==
  UNION {{[path |-> spec[i], method |-> m] : m \in DOMAIN spec[i].methods} : i \in DOMAIN spec}

-----------------------------------------------------------------------------

ApiInit ==
  /\ site \in ApiSites
  /\ specsRead = 0 /\ graphqlRead = 0
  /\ operations = {} /\ building = {} /\ apiAssets = <<>>

ReadSpec ==
  /\ operations = {} /\ building = {}
  /\ specsRead < Len(site.documents) /\ specsRead' = specsRead + 1
  /\ LET spec == site.documents[specsRead + 1]
     IN  IF spec = NoSpec THEN UNCHANGED <<operations, apiAssets>>
         ELSE /\ RecordAsset([source |-> "openapi_spec", url |-> [document |-> specsRead + 1]])
              /\ operations' = OperationsOf(spec)
  /\ UNCHANGED <<site, building, graphqlRead>>

\* endpoints_from_openapi: one endpoint for each operation.
StartEndpoint ==
  /\ building = {}
  /\ \E o \in operations :
       /\ operations' = operations \ {o}
       /\ building' = {[path |-> o.path, method |-> o.method, used |-> 0,
                        url |-> [template |-> o.path.template, left |-> o.path.placeholders,
                                 query |-> <<>>]]}
  /\ UNCHANGED <<site, specsRead, apiAssets, graphqlRead>>

UseParameter ==
  /\ \E b \in building :
       LET declared == ParametersOf(b.path, b.method)
       IN  /\ b.used < Len(declared)
           /\ building' = {[path |-> b.path, method |-> b.method, used |-> b.used + 1,
                            url |-> Filled(b.url, declared[b.used + 1])]}
  /\ UNCHANGED <<site, specsRead, operations, apiAssets, graphqlRead>>

RecordEndpoint ==
  /\ \E b \in building :
       /\ b.used = Len(ParametersOf(b.path, b.method))
       /\ RecordAsset([source |-> "openapi", url |-> b.url])
  /\ building' = {}
  /\ UNCHANGED <<site, specsRead, operations, graphqlRead>>

DetectGraphql ==
  /\ operations = {} /\ building = {}
  /\ specsRead = Len(site.documents)
  /\ graphqlRead < Len(site.graphql) /\ graphqlRead' = graphqlRead + 1
  /\ LET at == site.graphql[graphqlRead + 1]
         source == GraphqlSource(at.page, at.reply)
     IN  IF source = NoSpec THEN UNCHANGED apiAssets
         ELSE RecordAsset([source |-> source, url |-> [graphql |-> graphqlRead + 1]])
  /\ UNCHANGED <<site, specsRead, operations, building>>

ApiNext == ReadSpec \/ StartEndpoint \/ UseParameter \/ RecordEndpoint \/ DetectGraphql

ApiSpec == ApiInit /\ [][ApiNext]_apiVars

ApiDone ==
  /\ operations = {} /\ building = {}
  /\ specsRead = Len(site.documents) /\ graphqlRead = Len(site.graphql)

-----------------------------------------------------------------------------

Declared(parameters, place) ==
  {parameters[k].name : k \in {j \in DOMAIN parameters : parameters[j].in = place}}

\* The value of the last of the parameters that has this name.
IsLatest(value, parameters, n) ==
  LET at == {k \in DOMAIN parameters : parameters[k].in = "query" /\ parameters[k].name = n}
  IN  \E k \in at : value = BenignValue(parameters[k]) /\ \A j \in at : j <= k

\* No declared placeholder is left in the URL, and its query has each declared name,
\* with a value of the type that the operation itself declares and else the type of
\* its path.
Described(path, own, url) ==
  /\ url.template = path.template
  /\ url.left = path.placeholders \ (Declared(path.inherited, "path") \cup Declared(own, "path"))
  /\ DOMAIN url.query = Declared(path.inherited, "query") \cup Declared(own, "query")
  /\ \A n \in DOMAIN url.query :
       IsLatest(url.query[n], IF n \in Declared(own, "query") THEN own ELSE path.inherited, n)

\* What an operation declares, of a specification that was read.
ReadOperations ==
  UNION {OperationsOf(site.documents[d]) : d \in {k \in 1 .. specsRead : site.documents[k] # NoSpec}}

Endpoints == {a.url : a \in {b \in ToSet(apiAssets) : b.source = "openapi"}}

\* Every operation of every document becomes an endpoint that is as it declares, and
\* nothing else does; two documents that describe the same operation give one asset;
\* and a GraphQL path is reported once (run_api_discovery).
ApiExact ==
  /\ \A i, j \in DOMAIN apiAssets : apiAssets[i] = apiAssets[j] => i = j
  /\ operations = {} /\ building = {} =>
       \A o \in ReadOperations :
         \E url \in Endpoints : Described(o.path, o.path.methods[o.method], url)
  /\ \A url \in Endpoints :
       \E o \in ReadOperations : Described(o.path, o.path.methods[o.method], url)
  /\ \A a, b \in ToSet(apiAssets) :
       {a.source, b.source} \cap {"openapi", "openapi_spec"} = {} /\ a.url = b.url => a = b

=============================================================================
