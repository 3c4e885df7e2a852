---------------------------- MODULE ServiceProfile ----------------------------
(***************************************************************************)
(* What scan_one_port of discovery/src/port_scan.rs makes of the answers of  *)
(* one open port: the protocol, whether it asks for credentials, and the    *)
(* signals that the network rules and the exposure findings are built on.   *)
(* One action is one group of connections and what is made of the answers;  *)
(* how many connections are made is the subject of PortScan.                *)
(*                                                                         *)
(* An answer is the set of the marks that the code looks for in it.         *)
(***************************************************************************)
EXTENDS Naturals, Sequences, FiniteSets, SequencesExt

CONSTANTS
  Listeners,      \* [port, host, passive, risky, public]
  Greetings,      \* what is read at first, and in answer to the generic probes
  Certificates,   \* [self_signed, weak, expired, names]
  Replies,        \* what the connection of enrich_service_profile brings
  ServiceOfPort,  \* service_from_port: port -> protocol or NoProtocol
  LikelyTlsPorts, \* likely_tls_port
  NoProtocol,
  NotKnown,       \* auth_required is None
  NoName,         \* no host name is expected
  NoTls,          \* no TLS evidence
  NoCertificate

\* What stands for None is no protocol, no answer and no evidence.
ASSUME ServiceAssumption ==
  /\ NoProtocol \notin {"postgresql", "mysql", "mssql", "mongodb", "redis", "memcached", "mqtt",
                        "rdp", "smb", "http", "https", "elasticsearch", "ftp", "smtp"}
  /\ NotKnown \notin BOOLEAN
  /\ NoTls \notin [legacy : BOOLEAN, certificate : Certificates \cup {NoCertificate}]
  /\ \A l \in Listeners : l.passive \in BOOLEAN /\ l.risky \in BOOLEAN /\ l.public \in BOOLEAN

VARIABLES
  listener,   \* the open port, and how it is scanned
  probing,    \* where scan_one_port is
  service,    \* its ServiceProfile
  evidence    \* its TlsEvidence: [legacy, certificate] or NoTls

serviceVars == <<listener, probing, service, evidence>>

-----------------------------------------------------------------------------
(* parse_service_profile.                                                  *)

\* The protocols in the order of the code, each with the sets of marks of which
\* one must be present.
Recognised == <<
  [protocol |-> "ssh",        marks |-> {{"ssh-"}}],
  [protocol |-> "ftp",        marks |-> {{"220", "ftp"}}],
  [protocol |-> "smtp",       marks |-> {{"220", "smtp"}}],
  [protocol |-> "pop3",       marks |-> {{"+ok"}, {"pop3"}}],
  [protocol |-> "imap",       marks |-> {{"* ok"}, {"imap"}}],
  [protocol |-> "redis",      marks |-> {{"+pong"}, {"noauth"}, {"redis"}}],
  [protocol |-> "memcached",  marks |-> {{"version"}, {"memcached"}}],
  [protocol |-> "mysql",      marks |-> {{"mysql greeting", "port 3306"}}],
  [protocol |-> "postgresql", marks |-> {{"S"}, {"N"}, {"E"}}],
  [protocol |-> "amqp",       marks |-> {{"AMQP"}, {"rabbitmq"}}],
  [protocol |-> "mqtt",       marks |-> {{"connack"}}],
  [protocol |-> "rdp",        marks |-> {{"tpkt"}}],
  [protocol |-> "smb",        marks |-> {{"SMB"}}],
  [protocol |-> "mssql",      marks |-> {{"prelogin"}}],
  [protocol |-> "mongodb",    marks |-> {{"opcode"}}],
  [protocol |-> "http",       marks |-> {{"http/"}}] >>

ProtocolOf(answer) ==
  LET Fits(i)  == \E m \in Recognised[i].marks : m \subseteq answer
      fitting  == {i \in DOMAIN Recognised : Fits(i)}
      first    == Recognised[CHOOSE i \in fitting : \A j \in fitting : i <= j].protocol
  IN  IF fitting = {} THEN NoProtocol
      ELSE IF first = "http" /\ {"port 9200", "elastic"} \subseteq answer THEN "elasticsearch"
      ELSE first

\* One of the two signals, or, where the code cannot tell, none.
Either(yes, signal, no, other) == IF yes THEN {signal} ELSE IF no THEN {other} ELSE {}

\* auth_required after parsing.
AuthOf(protocol, answer) ==
  CASE protocol = "redis"                -> "noauth" \in answer
    [] protocol \in {"mysql", "mssql"}   -> TRUE
    [] protocol = "mqtt" /\ answer \cap {"accepted", "refused"} # {} -> "refused" \in answer
    [] protocol \in {"http", "elasticsearch"} /\ "port 9200" \in answer
         /\ answer \cap {"200 ok", "401"} # {} -> "200 ok" \notin answer
    [] OTHER                             -> NotKnown

SignalsOf(protocol, answer) ==
  CASE protocol = "redis" ->
         Either("+pong" \in answer, "unauthenticated_command_accepted",
                "noauth" \in answer, "auth_required")
    [] protocol = "memcached" -> {"unauthenticated_command_accepted"}
    [] protocol \in {"mysql", "mssql"} ->
         {"auth_exchange_available"} \cup
         Either("tls capability" \in answer, "tls_supported",
                protocol = "mysql" \/ "no tls capability" \in answer, "tls_not_supported")
    [] protocol = "postgresql" ->
         IF "S" \in answer THEN {"tls_supported"}
         ELSE Either("N" \in answer, "tls_not_supported", TRUE, "startup_rejected")
    [] protocol = "mqtt" ->
         Either("refused" \notin answer /\ "accepted" \in answer, "anonymous_connection_accepted",
                FALSE, "")
    [] protocol = "rdp" ->
         Either("nla" \in answer, "nla_required", "no nla" \in answer, "nla_not_required")
    [] protocol = "smb" ->
         Either("signing" \in answer, "smb_signing_required",
                "no signing" \in answer, "smb_signing_not_required")
    [] protocol \in {"http", "elasticsearch"} /\ "port 9200" \in answer ->
         Either("200 ok" \in answer, "unauthenticated_api_response",
                "401" \in answer, "auth_required")
    [] OTHER -> {}

\* What is read on a port whose number the code looks at.
Heard(port, bytes) ==
  bytes \cup (CASE port = 3306  -> {"port 3306"}
                [] port = 9200  -> {"port 9200"}
                [] port = 15672 -> {"port 15672"}
                [] OTHER        -> {})

Parse(answer) ==
  LET protocol == ProtocolOf(answer)
  IN  [protocol |-> protocol, auth |-> AuthOf(protocol, answer),
       signals |-> SignalsOf(protocol, answer), handshake |-> answer]

-----------------------------------------------------------------------------
(* TLS evidence.                                                           *)

\* hostname_matches: names are sequences of labels, the certificate's with or
\* without "*." before them; trim_end_matches takes the suffix off repeatedly.
HostMatches(host, name) ==
  \/ ~name.wildcard /\ host = name.labels
  \/ /\ name.wildcard
     /\ \E copies \in 1 .. Len(host) : \E label \in ToSet(host) :
          host = <<label>> \o FlattenSeq([i \in 1 .. copies |-> name.labels])

\* What probe_tls_certificate and the clock say of a certificate.
CertificateSignals(certificate, host) ==
  IF certificate = NoCertificate THEN {}
  ELSE Either(certificate.self_signed, "tls_self_signed", FALSE, "")
       \cup Either(host # NoName /\ \A n \in certificate.names : ~HostMatches(host, n),
                   "tls_hostname_mismatch", FALSE, "")
       \cup Either(certificate.weak, "tls_weak_signature", FALSE, "")
       \cup Either(certificate.expired, "tls_certificate_expired", FALSE, "")

TlsSignals(tls, host) ==
  {"tls_detected"} \cup Either(tls.legacy, "legacy_tls_accepted", FALSE, "")
                   \cup CertificateSignals(tls.certificate, host)

AfterTls(profile, tls, host) ==
  IF tls = NoTls THEN profile
  ELSE [profile EXCEPT !.protocol = IF @ \in {NoProtocol, "http"} THEN "https" ELSE @,
                       !.signals  = @ \cup TlsSignals(tls, host)]

-----------------------------------------------------------------------------
(* enrich_service_profile; `reply` is what the extra connection brings, {}  *)
(* if it fails, and `reserved` whether the budget allowed it.               *)

\* Faulty variant of Enriched: any answer that names databases is a listing.
EnrichedOptimistic(profile, reserved, reply, risky) ==
  IF profile.protocol = "mongodb" /\ reserved
  THEN [profile EXCEPT !.auth = FALSE,
          !.signals = @ \cup {"unauthenticated_database_listing"}
                        \cup (IF "unauthorized" \in reply THEN {"auth_required"} ELSE {})]
  ELSE profile

Enriched(profile, reserved, reply, risky) ==
  CASE profile.protocol = "postgresql" /\ reserved ->
         [profile EXCEPT
            !.auth    = IF "R" \in reply THEN TRUE ELSE @,
            !.signals = @ \cup
              (IF "R" \in reply THEN {"auth_exchange_available"}
               ELSE IF "error" \notin reply THEN {}
               ELSE Either("pg_hba" \in reply, "pg_hba_rejected", TRUE, "startup_rejected"))]
    [] profile.protocol = "smtp" /\ reserved ->
         [profile EXCEPT !.signals = @ \cup {"smtp_banner_exposed"} \cup
            IF reply = {} THEN {}
            ELSE Either("starttls" \in reply, "starttls_supported", TRUE, "starttls_not_advertised")
                 \cup Either("relay" \in reply, "open_relay_no_delivery_accepted", FALSE, "")]
    [] profile.protocol = "ftp" /\ risky /\ reserved ->
         [profile EXCEPT !.signals = @ \cup
            Either("230" \in reply, "anonymous_login_accepted", FALSE, "")]
    [] profile.protocol = "elasticsearch" /\ "200 ok" \in profile.handshake ->
         [profile EXCEPT !.auth = FALSE, !.signals = @ \cup {"unauthenticated_api_response"}]
    [] profile.protocol = "mongodb" /\ reserved ->
         [profile EXCEPT
            !.auth    = IF "databases" \in reply /\ "unauthorized" \notin reply THEN FALSE
                        ELSE IF "unauthorized" \in reply THEN TRUE ELSE @,
            !.signals = @ \cup
              Either("databases" \in reply /\ "unauthorized" \notin reply,
                     "unauthenticated_database_listing",
                     "unauthorized" \in reply, "auth_required")]
    [] profile.protocol = "http" /\ "port 15672" \in profile.handshake ->
         [profile EXCEPT !.signals = @ \cup {"management_interface_exposed"}]
    [] OTHER -> profile

\* add_service_category_signals; the product of the port 15672 is a management.
Category(profile) ==
  CASE profile.protocol \in {"postgresql", "mysql", "mssql", "mongodb", "redis", "memcached"}
         -> {"database_or_cache_service"}
    [] profile.protocol \in {"mqtt", "amqp"} -> {"message_broker_service"}
    [] profile.protocol \in {"rdp", "smb", "ssh", "telnet", "vnc"} -> {"remote_management_service"}
    [] profile.protocol = "http" /\ profile.handshake \cap {"management", "port 15672"} # {}
         -> {"administrative_interface"}
    [] OTHER -> {}

-----------------------------------------------------------------------------
(* scan_one_port, once it is connected.                                    *)

Blank == [protocol |-> NoProtocol, auth |-> NotKnown, signals |-> {}, handshake |-> {}]

ServiceInit ==
  /\ listener \in Listeners
  /\ probing = "greeting"
  /\ service = Blank
  /\ evidence = NoTls

MoveOn(from, to) == probing = from /\ probing' = to

\* passive_greeting or profile_response.
ReadGreeting ==
  /\ MoveOn("greeting", IF listener.passive THEN "default" ELSE "hello")
  /\ \E bytes \in Greetings : service' = Parse(Heard(listener.port, bytes))
  /\ UNCHANGED <<listener, evidence>>

\* probe_tls; it fails, or shows one version.
ProbeHello ==
  /\ MoveOn("hello", "certificate")
  /\ evidence' \in {NoTls} \cup [legacy : BOOLEAN, certificate : {NoCertificate}]
  /\ UNCHANGED <<listener, service>>

\* probe_tls_certificate: a certificate replaces what the bare ClientHello showed.
ReadCertificate ==
  /\ MoveOn("certificate", "versions")
  /\ \/ /\ evidence # NoTls \/ listener.port \in LikelyTlsPorts
        /\ evidence' \in [legacy : {FALSE}, certificate : Certificates]
     \/ UNCHANGED evidence
  /\ UNCHANGED <<listener, service>>

\* probe_tls_version, for each of the versions: those that are accepted are added.
ProbeVersions ==
  /\ MoveOn("versions", IF service.protocol = NoProtocol /\ evidence = NoTls
                        THEN "generic" ELSE "default")
  /\ \/ UNCHANGED evidence
     \/ evidence # NoTls /\ evidence' = [evidence EXCEPT !.legacy = TRUE]
  /\ service' = AfterTls(service, evidence', listener.host)
  /\ UNCHANGED listener

\* probe_unknown_service: the first answer to a generic probe that is understood
\* replaces the profile; there is none, or the budget is spent.
IdentifyGeneric ==
  /\ MoveOn("generic", "default")
  /\ \/ \E bytes \in Greetings :
          /\ Parse(Heard(listener.port, bytes)).protocol # NoProtocol
          /\ service' = Parse(Heard(listener.port, bytes))
     \/ UNCHANGED service
  /\ UNCHANGED <<listener, evidence>>

\* Nothing understood: what usually runs on the port.
AssumeDefault ==
  /\ MoveOn("default", "enrich")
  /\ service' = [service EXCEPT !.protocol =
                   IF @ = NoProtocol THEN ServiceOfPort[listener.port] ELSE @]
  /\ UNCHANGED <<listener, evidence>>

EnrichService ==
  /\ MoveOn("enrich", "categories")
  /\ IF listener.passive
     THEN service' = [service EXCEPT !.signals = @ \cup {"passive_banner_only"}]
     ELSE \E reserved \in BOOLEAN, reply \in Replies :
            service' = Enriched(service, reserved, reply, listener.risky)
  /\ UNCHANGED <<listener, evidence>>

Categorise ==
  /\ MoveOn("categories", "done")
  /\ service' = [service EXCEPT !.signals = @ \cup Category(service)
                   \cup {IF listener.public THEN "publicly_routable" ELSE "private_or_local"}]
  /\ UNCHANGED <<listener, evidence>>

ServiceNext ==
  \/ ReadGreeting \/ ProbeHello \/ ReadCertificate \/ ProbeVersions \/ IdentifyGeneric
  \/ AssumeDefault \/ EnrichService \/ Categorise

ServiceSpec == ServiceInit /\ [][ServiceNext]_serviceVars

-----------------------------------------------------------------------------

Opposites == {
  {"tls_supported", "tls_not_supported"}, {"nla_required", "nla_not_required"},
  {"smb_signing_required", "smb_signing_not_required"},
  {"starttls_supported", "starttls_not_advertised"},
  {"publicly_routable", "private_or_local"},
  {"auth_required", "unauthenticated_command_accepted"},
  {"auth_required", "unauthenticated_api_response"},
  {"auth_required", "unauthenticated_database_listing"},
  {"passive_banner_only", "unauthenticated_database_listing"},
  {"passive_banner_only", "tls_detected"} }

\* The evidence of a port does not contradict itself, whatever the service
\* answers to the first read, the TLS probes, the generic probes and the extra
\* connection, one after the other: no two opposite signals, no signal of an open
\* access where credentials are known to be required, none of a refused one
\* where they are known not to be, nothing of TLS without the evidence of it.
EvidenceConsistent ==
  LET signals == service.signals
  IN  /\ \A pair \in Opposites : ~(pair \subseteq signals)
      /\ service.auth = TRUE  => signals \cap {"unauthenticated_api_response",
                             "unauthenticated_database_listing", "anonymous_connection_accepted"} = {}
      /\ service.auth = FALSE => "auth_required" \notin signals
      /\ "anonymous_login_accepted" \in signals => listener.risky /\ ~listener.passive
      /\ "tls_detected" \in signals => evidence # NoTls
      /\ "tls_hostname_mismatch" \in signals =>
           \A n \in evidence.certificate.names : n.wildcard \/ n.labels # listener.host

=============================================================================
