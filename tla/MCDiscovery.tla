----------------------------- MODULE MCDiscovery -----------------------------
(***************************************************************************)
(* The parts of a scan that look at the target, each on a small instance:   *)
(* the port scan, the requests of a fuzzing run, the crawl, the discovery   *)
(* of names, the path fuzzing, and the evaluation of answers.  In the scan  *)
(* they run one after the other and share nothing; a behaviour here takes   *)
(* one of them, named in Parts.                                             *)
(***************************************************************************)
EXTENDS PortScan, ResilientRequests, PathFuzzing, BrowserCrawl, Discovery, ServiceProfile,
        Fingerprint, ApiDiscovery, SequencesExt

CONSTANTS
  Parts,             \* the parts to check
  web, ftp, other    \* ports

\* The default protocol of each port.
MCServiceOf == [p \in Ports |-> CASE p = web -> "plain"
                                  [] p = ftp -> "ftp"
                                  [] OTHER   -> "none"]

VARIABLE part

-----------------------------------------------------------------------------
(* The crawl: three pages, one that logs out, a script and a style sheet.   *)

Url(o, p) == [origin |-> o, path |-> p, query |-> FALSE, fragment |-> FALSE]
Relative(p)    == [form |-> "relative", url |-> Url("here", p)]
Route(p)       == [form |-> "route", url |-> [Url("elsewhere", p) EXCEPT !.fragment = TRUE]]
Absolute(o, p) == [form |-> "absolute", url |-> [Url(o, p) EXCEPT !.fragment = TRUE]]
Ignored(p)     == [form |-> "ignored", url |-> Url("here", p)]
Page(l, s, f, n) == [links |-> l, strings |-> s, forms |-> f, network |-> n]

MCBase == Url("here", "home")

MCPathKind == [p \in {"home", "a", "b", "logout", "app", "css"} |->
                 CASE p = "app" -> "script" [] p = "css" -> "media" [] OTHER -> "page"]

MCDocuments == {
  Page(<<Relative("a"), Relative("b"), Relative("logout")>>, <<>>, <<>>,
       <<Url("elsewhere", "a"), Url("here", "b")>>),
  Page(<<Relative("app"), Absolute("here", "b"), Relative("css")>>, <<>>, <<>>, <<>>),
  Page(<<Relative("app"), Absolute("elsewhere", "b")>>, <<Route("a")>>, <<>>, <<>>),
  Page(<<Ignored("a")>>, <<>>,
       <<[action |-> Relative("a"), csrf |-> TRUE],
         [action |-> Relative("b"), csrf |-> FALSE]>>, <<>>)}

MCScripts == {<<Route("b"), Relative("home")>>, <<Relative("app"), Absolute("here", "a")>>}

MCCrawlConfigs ==
  {[max_pages |-> m, max_depth |-> d, render |-> TRUE, session |-> s] :
     <<m, d, s>> \in {<<0, 2, FALSE>>, <<2, 2, TRUE>>, <<9, 0, FALSE>>, <<9, 1, FALSE>>,
                      <<9, 2, TRUE>>}}

-----------------------------------------------------------------------------
(* Names: two in the domain and one that is not; a wildcard.                *)

Host(l) == [label |-> l, under |-> 1]
Listed(l, i) == [host |-> Host(l), inside |-> i]

MCCertLists == {{Listed("www", TRUE), Listed("alien", FALSE)}, {Listed("api", TRUE)}}

MCZoneRecords == {{}, {Listed("dev", TRUE), Listed("alien", FALSE)}}

MCAddresses ==
  [n \in {[Host(l) EXCEPT !.under = 2] : l \in {"www", "api"}} |->
     IF n.label = "www" THEN {"1.1.1.1"} ELSE {"1.1.1.1", "9.9.9.9"}]

\* Its own page, that of the login host, and a Location that is not followed.
MCProbeAnswers ==
  {[landing |-> NoLocation, location |-> NoLocation], [landing |-> Host("login"), location |-> NoLocation],
   [landing |-> NoLocation, location |-> "login"]}

-----------------------------------------------------------------------------
(* Path fuzzing: /admin, /admin/, "/" and admin, which without its slash is *)
(* /admin again; and six kinds of directories.                              *)

Says(s, n) == [status |-> s, length |-> n, reflected |-> FALSE]
Word(r, n, s) == [rooted |-> r, segments |-> n, slash |-> s]

MCStartUrl == [segments |-> <<>>, slash |-> TRUE]

MCWordlist == <<Word(TRUE, <<"admin">>, FALSE), Word(TRUE, <<"admin">>, TRUE), Word(TRUE, <<>>, TRUE),
                Word(FALSE, <<"admin">>, FALSE)>>

MCRounds ==
  {[baseline |-> r[1], answers |-> <<r[2], r[3], r[4], r[5]>>] : r \in {
     <<NoAnswer, Says(200, 1000), NoAnswer, NoAnswer, NoAnswer>>,
     <<Says(404, 100), Says(404, 100), Says(403, 0), Says(200, 0), Says(401, 0)>>,
     <<Says(404, 100), Says(301, 0), Says(500, 0), Says(404, 0), Says(301, 0)>>,
     <<Says(404, 100), Says(200, 1000), Says(204, 0), Says(200, 0), Says(500, 0)>>,
     <<Says(200, 1000), Says(200, 1000), Says(200, 1000), Says(200, 1000), Says(200, 1000)>>,
     <<Says(200, 1000), Says(200, 1099), Says(200, 1101), Says(200, 1000), Says(200, 900)>>}}

MCParamRounds ==
  {[baseline |-> Says(200, 100), answers |-> "id" :> a] :
     a \in {NoAnswer, Says(200, 110), Says(200, 111),
            [Says(200, 100) EXCEPT !.reflected = TRUE]}}
  \cup {[baseline |-> NoAnswer, answers |-> "id" :> Says(200, 1)]}

-----------------------------------------------------------------------------
(* API documents, services and technologies.                                 *)

Param(n, i, t) == [name |-> n, in |-> i, type |-> t]

Operations == {<<>>, <<Param("id", "path", "integer")>>,
               <<Param("q", "query", "string"), Param("q", "query", "integer")>>,
               <<Param("id", "path", "string"), Param("q", "header", "string"),
                 Param("on", "query", "boolean")>>}

Paths == {[template |-> t, placeholders |-> {"id"}, inherited |-> h, methods |-> <<m, n>>] :
            t \in {"users", "items"},
            h \in {<<>>, <<Param("q", "query", "boolean")>>, <<Param("id", "path", "string")>>},
            m \in Operations, n \in {<<>>, <<Param("on", "query", "number")>>}}

Graphql(shown, reply) == <<[page |-> shown, reply |-> reply], [page |-> "html", reply |-> reply]>>

\* One document; or two that describe one path, and another of the first.
MCApiSites ==
  {[documents |-> <<NoSpec, <<p>>>>, graphql |-> Graphql("html", "errors")] : p \in Paths}
  \cup {[documents |-> <<<<p, q>>, <<p>>>>, graphql |-> Graphql("graphql", r)] :
          p \in {s \in Paths : s.template = "users" /\ Len(s.methods[1]) = 2 /\ s.methods[2] # <<>>},
          q \in {s \in Paths : Len(s.methods[1]) = 1 /\ s.methods[2] = <<>> /\ s.inherited = <<>>},
          r \in {NoSpec, "schema"}}

ASite == CHOOSE s \in MCApiSites : s.documents[1] = NoSpec

MCServiceOfPort ==
  [p \in {22, 443, 3306, 9200, 15672, 27017} |->
     CASE p = 22 -> "ssh" [] p = 443 -> "https" [] p = 3306 -> "mysql"
       [] p = 9200 -> "elasticsearch" [] p = 27017 -> "mongodb" [] OTHER -> NoProtocol]

MCListeners ==
  {[port |-> p, host |-> IF k THEN <<"www", "org">> ELSE NoName, passive |-> v, risky |-> k,
    public |-> k] : p \in DOMAIN MCServiceOfPort, v \in BOOLEAN, k \in BOOLEAN}

AListener == CHOOSE l \in MCListeners : l.passive

MCGreetings == {
  {}, {"ssh-"}, {"220", "ftp"}, {"220", "smtp"}, {"+pong"}, {"noauth"}, {"+pong", "noauth"},
  {"redis"}, {"version"}, {"mysql greeting", "tls capability"}, {"mysql greeting"},
  {"S"}, {"N"}, {"E"}, {"connack", "accepted"}, {"connack", "refused"}, {"connack"},
  {"tpkt", "nla"}, {"tpkt", "no nla"}, {"SMB", "signing"}, {"SMB", "no signing"},
  {"prelogin", "no tls capability"}, {"opcode"}, {"http/", "200 ok"}, {"http/", "management"},
  {"http/", "elastic", "200 ok"}, {"http/", "elastic", "401"}, {"http/", "401", "200 ok"}}

Certificate(w, labels) ==
  [self_signed |-> w, weak |-> w, expired |-> ~w, names |-> {[wildcard |-> w, labels |-> labels]}]

MCCertificates == {Certificate(TRUE, <<"org">>), Certificate(FALSE, <<"www", "org">>),
                   Certificate(FALSE, <<"org">>)}

MCReplies == {{}, {"R"}, {"error", "pg_hba"}, {"relay", "starttls"}, {"230"}, {"databases"},
              {"databases", "unauthorized"}, {"unauthorized"}}

Pattern(t, ok, v) == [text |-> t, valid |-> ok, version |-> v]

Rule(n, c, i, h, b, m, k) ==
  [name |-> n, confidence |-> c, implies |-> i, headers |-> h, body |-> b, meta |-> m,
   cookies |-> k]

FingerRules == {
  Rule("php", 90, <<>>, {Pattern("x-powered", TRUE, "8"), Pattern("server", TRUE, "7")}, <<>>, {}, {}),
  Rule("php", 50, <<"linux">>, {}, <<>>, {Pattern("generator", TRUE, "9")},
       {Pattern("phpsessid", TRUE, "9")}),
  Rule("wp", 80, <<"php", "mysql">>, {}, <<Pattern("wp-content", TRUE, "6")>>,
       {Pattern("generator", FALSE, "6")}, {}),
  Rule("wp", 80, <<>>, {Pattern("x-powered", FALSE, "1")}, <<Pattern("wp-content", TRUE, "1")>>, {}, {}),
  Rule("mysql", 90, <<>>, {}, <<Pattern("(my", FALSE, "5"), Pattern("wp-content", TRUE, "4")>>, {}, {})}

MCRulesets == {<<>>} \cup {<<a, b, c>> : a, b, c \in FingerRules}

MCResponses == {{}, {"server"}, {"x-powered", "server"}, {"phpsessid"}, {"generator", "phpsessid"},
                {"wp-content"}, {"wp-content", "phpsessid"}, {"wp-content", "(my"}, {"(my", "x-powered"},
                {"x-powered", "wp-content", "phpsessid", "(my"}}

-----------------------------------------------------------------------------
(* A part that is not chosen stays in one fixed state.                      *)

MCInit ==
  /\ part \in Parts
  /\ Init /\ RequestsInit
  /\ part # "ports" => passive = FALSE
  /\ CrawlInit
  /\ part # "crawl" => crawl.max_pages = 0
  /\ NamesInit
  /\ part # "names" => mode = "Hybrid"
  /\ FuzzInit
  /\ part # "paths" => maxDepth = 0
  /\ ServiceInit
  /\ part # "service" => listener = AListener
  /\ FingerInit
  /\ part # "technologies" => ruleset = <<>> /\ fetched = {}
  /\ ApiInit
  /\ part # "api" => site = ASite

PortsPart    == part = "ports" /\ Next
                /\ UNCHANGED <<part, requestVars, crawlVars, namingVars, fuzzVars, serviceVars, fingerVars, apiVars>>
RequestsPart == part = "requests" /\ RequestsNext
                /\ UNCHANGED <<part, vars, crawlVars, namingVars, fuzzVars, serviceVars, fingerVars, apiVars>>
CrawlPart    == part = "crawl" /\ CrawlNext
                /\ UNCHANGED <<part, vars, requestVars, namingVars, fuzzVars, serviceVars, fingerVars, apiVars>>
NamesPart    == part = "names" /\ NamesNext
                /\ UNCHANGED <<part, vars, requestVars, crawlVars, fuzzVars, serviceVars, fingerVars, apiVars>>
PathsPart    == part = "paths" /\ FuzzNext
                /\ UNCHANGED <<part, vars, requestVars, crawlVars, namingVars, serviceVars, fingerVars, apiVars>>

ServicePart  == part = "service" /\ ServiceNext
                /\ UNCHANGED <<part, vars, requestVars, crawlVars, namingVars, fuzzVars, fingerVars, apiVars>>
TechPart     == part = "technologies" /\ FingerNext
                /\ UNCHANGED <<part, vars, requestVars, crawlVars, namingVars, fuzzVars, serviceVars, apiVars>>

ApiPart      == part = "api" /\ ApiNext
                /\ UNCHANGED <<part, vars, requestVars, crawlVars, namingVars, fuzzVars, serviceVars, fingerVars>>

MCNext == PortsPart \/ RequestsPart \/ CrawlPart \/ NamesPart \/ PathsPart \/ ServicePart \/ TechPart
          \/ ApiPart

allVars == <<part, vars, requestVars, crawlVars, namingVars, fuzzVars, serviceVars, fingerVars, apiVars>>

\* Each part with the fairness of its own module; the crawl and the path fuzzing
\* are loops of one task whose requests all have a timeout, and so is a scan of
\* names, but for being killed.
MCSpec ==
  /\ MCInit /\ [][MCNext]_allVars
  /\ \A p \in Ports : WF_allVars(part = "ports" /\ PortStep(p)
                                   /\ UNCHANGED <<part, requestVars, crawlVars, namingVars, fuzzVars, serviceVars, fingerVars, apiVars>>)
  /\ WF_allVars(part = "requests" /\ Tick
                  /\ UNCHANGED <<part, vars, crawlVars, namingVars, fuzzVars, serviceVars, fingerVars, apiVars>>)
  /\ \A p \in Probes :
       WF_allVars(part = "requests" /\ ProbeStep(p)
                    /\ UNCHANGED <<part, vars, crawlVars, namingVars, fuzzVars, serviceVars, fingerVars, apiVars>>)
  /\ WF_allVars(CrawlPart) /\ WF_allVars(PathsPart) /\ WF_allVars(ServicePart)
  /\ WF_allVars(TechPart) /\ WF_allVars(ApiPart)
  /\ WF_allVars(part = "names" /\ NamesStep
                  /\ UNCHANGED <<part, vars, requestVars, crawlVars, fuzzVars, serviceVars, fingerVars, apiVars>>)

-----------------------------------------------------------------------------

\* Type invariants of the five machines.
StagesTypeOK ==
  CASE part = "ports"    -> TypeOK
    [] part = "requests" -> RequestsTypeOK
    [] part = "crawl"    -> CrawlTypeOK
    [] part = "names"    -> NamesTypeOK
    [] part = "paths"    -> FuzzTypeOK
    [] OTHER             -> TRUE

\* Every part comes to an end, whatever the target answers: each port has a
\* result, every word is probed, the crawl stops however the pages link to each
\* other, the recursion into directories stops, and so does a scan of names.
EveryPartEnds ==
  <>(CASE part = "ports"    -> \A p \in Ports : pc[p] = "done"
       [] part = "requests" -> \A p \in Probes : probePc[p] = "done"
       [] part = "crawl"    -> stop # "no"
       [] part = "names"    -> stages = {}
       [] part = "paths"    -> "done" \in params
       [] part = "service"  -> probing = "done"
       [] part = "technologies" -> matching = "done"
       [] part = "api"      -> ApiDone)

=============================================================================
