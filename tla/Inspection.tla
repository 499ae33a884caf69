----------------------------- MODULE Inspection -----------------------------
(***************************************************************************)
(* The life of one request in the middleware (internal/handler/handler.go, *)
(* ServeHTTP, with body.go) and in the fail-open policy it asks for a      *)
(* verdict (internal/app/policy.go): loading and provisioning a            *)
(* configuration, buffering the body, sending the transaction to the       *)
(* engine, waiting for the verdict while the engine comes and goes,        *)
(* enforcing the verdict, and forwarding to the origin.  What crosses the  *)
(* wire is encoded and parsed (Frames).                                    *)
(*                                                                         *)
(* Pool, session and transport are the subject of ConnPool and             *)
(* VerdictFlow, the response that comes back of ResponseWriter.            *)
(***************************************************************************)
EXTENDS Configuration, Frames

CONSTANTS Sources,      \* the configurations an operator may write
          Requests,     \* the requests a client may send
          BodyErrors,   \* whether reading the body may fail: subset of BOOLEAN
          Verdicts,     \* the verdicts the engine may give
          MaxOutages    \* bound: how often the engine goes down

(* A request as net/http hands it over: an address is split into the text  *)
(* before and the number after its port's colon, and where both ends of    *)
(* the connection have a port they have a host.                            *)
IsAddress(a) ==
  /\ a.text \in Text /\ a.host \in Text /\ Len(a.host) <= Len(a.text) /\ a.port \in 0 .. Max16

IsRequest(r) ==
  /\ \A s \in {r.proto, r.method, r.uri, r.parsedURI, r.body} : s \in Text
  /\ IsAddress(r.host) /\ IsAddress(r.local) /\ IsAddress(r.remote)
  /\ \A a \in {r.local, r.remote} : a.form # "noport" => a.host # << >>
  /\ IsFiniteSet(r.header)
  /\ \A h \in r.header : h.key \in Text /\ h.values \in Seq(Text)

(* A line that is accepted has the Go type of its option.                  *)
IsSource(s) ==
  /\ Len(s.lines) \in Nat /\ DOMAIN s.lines = 1 .. Len(s.lines)
  /\ \A i \in DOMAIN s.lines : ~LineFails(s, s.lines[i]) =>
       /\ s.lines[i].option \in Ints => ValueOf(s, s.lines[i]) \in Int
       /\ s.lines[i].option = "family_name" => ValueOf(s, s.lines[i]) \in Text

ASSUME InspectionAssumption ==
  /\ \A s \in Sources : IsSource(s)
  /\ \A r \in Requests : IsRequest(r)
  /\ BodyErrors \subseteq BOOLEAN /\ MaxOutages \in Nat
  /\ \A v \in Verdicts : IsVerdict(v)

VARIABLES source,    \* the configuration as written
          config,    \* the handler's fields
          wired,     \* Provision has set the acquirer
          pc,        \* where the handler stands
          request,   \* what the client sends
          broken,    \* reading its body ends in an error
          body,      \* r.Body: what a later reader of the request gets
          headers,   \* headers added to the request
          seen,      \* the transaction as the engine has parsed it
          said,      \* the verdict the engine gave
          verdict,   \* what AcquireVerdict returned
          origin,    \* what the origin received, or Nothing
          client,    \* the response the client got
          engineUp, outages

loading == <<source, config, wired>>
exchange == <<seen, said, verdict>>
engine == <<engineUp, outages>>
vars == <<loading, pc, request, broken, body, headers, exchange, origin, client, engine>>

Nothing == [body |-> << >>, headers |-> << >>, length |-> -1]
NoAnswer == [by |-> "nobody"]
NoVerdict == [kind |-> -1]
NotSeen == [ended |-> FALSE]
failOpenVerdict == [kind |-> Kind("Accept")]

Sid == 3   \* the session id; VerdictFlow tells sessions apart

-----------------------------------------------------------------------------
(* What the handler tells the engine.  An address is a text with the parts *)
(* net.SplitHostPort finds in it: "hostport", "badport" when the port is   *)
(* no uint16, "noport" when the text cannot be split.                      *)
Colon == 10
Underscore == 11
HostKey == <<8, 9>>
Loopback == <<1, 2, 7>>
AnyAddress == <<0>>

splitHostPort(a) ==
  [host |-> IF a.form = "noport" THEN a.text ELSE a.host,
   port |-> IF a.form = "hostport" THEN a.port ELSE 0]

remoteIP(r) ==
  IF r.remote.form = "noport" /\ r.remote.text = << >>
  THEN Loopback ELSE splitHostPort(r.remote).host
remotePort(r) == splitHostPort(r.remote).port

localIPOrNothing(r) == r.local.host   \* mutant: no fallback

localIP(r) ==
  IF r.local.form # "noport" THEN r.local.host
  ELSE IF remoteIP(r) # << >> THEN remoteIP(r) ELSE AnyAddress

requestStart(r) ==
  [type |-> DataType("RequestStart"), sid |-> Sid, proto |-> r.proto, method |-> r.method,
   host |-> splitHostPort(r.host).host, listeningIP |-> localIP(r),
   listeningPort |-> splitHostPort(r.host).port, uri |-> r.uri,
   clientIP |-> remoteIP(r), clientPort |-> remotePort(r),
   parsedHost |-> splitHostPort(r.host).host, parsedURI |-> r.parsedURI, wafTag |-> << >>]

(* Host first, then the header map in an order Go does not fix.            *)
requestHeaders(r, order) ==
  (IF r.host.text = << >> THEN << >> ELSE <<[key |-> HostKey, value |-> r.host.text]>>)
  \o FlattenSeq([i \in DOMAIN order |->
                   [j \in DOMAIN order[i].values |->
                      [key |-> order[i].key, value |-> order[i].values[j]]]])

Orders(r) == SetToSeqs(r.header)

(* The headers and the body each go out in one part.                       *)
headerBulk(hs) ==
  [type |-> DataType("RequestHeader"), sid |-> Sid, last |-> TRUE, part |-> 0, headers |-> hs]
bodyChunk(data) ==
  [type |-> DataType("RequestBody"), sid |-> Sid, last |-> TRUE, part |-> 0, data |-> data]

(* SendRequest.                                                            *)
Transaction(r, hs) ==
  <<Encode(RequestStart, requestStart(r))>>
  \o (IF hs = << >> THEN << >> ELSE <<EncodeHeaderBulk(headerBulk(hs))>>)
  \o (IF r.body = << >> THEN << >> ELSE <<Encode(BodyChunk, bodyChunk(r.body))>>)
  \o <<Encode(Session, [type |-> DataType("RequestEnd"), sid |-> Sid])>>

SharedMemory(c) == c["transport"] \in {"", "shm"}
MaxWriteSize == Base * Base - 4

TooLarge(frames) == SharedMemory(config) /\ \E i \in DOMAIN frames : Len(frames[i]) > MaxWriteSize

(* The engine's end: the frames it takes for request frames, parsed.       *)
Kept(frames, parsed) ==
  FlattenSeq([i \in DOMAIN frames |->
                IF classify(frames[i], 2) = "request" /\ parsed[i].ok
                THEN <<parsed[i].msg>> ELSE << >>])

Heard(frames) ==
  LET bulks  == Kept(frames, [i \in DOMAIN frames |-> ParseHeaderBulk(frames[i])])
      chunks == Kept(frames, [i \in DOMAIN frames |-> ParseBodyChunk(frames[i])])
  IN  [start   |-> Kept(frames, [i \in DOMAIN frames |-> ParseRequestStart(frames[i])]),
       headers |-> FlattenSeq([i \in DOMAIN bulks |-> bulks[i].headers]),
       body    |-> FlattenSeq([i \in DOMAIN chunks |-> chunks[i].data]),
       ended   |-> Kept(frames, [i \in DOMAIN frames |-> ParseRequestEnd(frames[i])]) # << >>]

-----------------------------------------------------------------------------
(* The registration.  A worker presents itself by family and index; the    *)
(* engine makes the unique id from the first frame and hangs up when the   *)
(* second one brings another (shared memory only, the mock engine takes    *)
(* any).                                                                   *)
Decimal(n) == IF n < 10 THEN <<n>> ELSE <<n \div 10, n % 10>>   \* bound: ids below 100

Prefix(family) == IF family = << >> THEN << >> ELSE family \o <<Underscore>>

UniqueIDFromZero(family, worker) == Prefix(family) \o Decimal(worker)   \* mutant
UniqueID(family, worker) == Prefix(family) \o Decimal(worker + 1)

registrationFrame(c) ==
  Encode(Registration, [attachmentType |-> 0, worker |-> c["worker_id"] + 1,
                        workers |-> c["workers"], family |-> c["family_name"]])

commFrame(c) ==
  Encode(CommData, [uid |-> UniqueID(c["family_name"], c["worker_id"]),
                    user |-> 0, group |-> 0, core |-> -1])

Registers(c) ==
  LET reg  == Parse(Registration, registrationFrame(c))
      comm == Parse(CommData, commFrame(c))
  IN  /\ reg.ok /\ comm.ok
      /\ comm.msg.uid = Prefix(reg.msg.family) \o Decimal(reg.msg.worker)

Reachable(c) == engineUp /\ (SharedMemory(c) => Registers(c))

-----------------------------------------------------------------------------
(* Caddy adapts and unmarshals the configuration.                          *)
Load ==
  /\ pc = "load"
  /\ IF ParseFails(source)
     THEN pc' = "rejected" /\ UNCHANGED config
     ELSE /\ pc' = "loaded"
          /\ config' = IF source.json THEN Parsed(source) ELSE SetDefaults(Parsed(source))
  /\ UNCHANGED <<source, wired, request, broken, body, headers, exchange, origin, client,
                 engine>>

(* Provision holds a pool reference for the handler; an unreachable engine *)
(* makes it fail only when the handler fails closed.                       *)
Provision ==
  /\ pc = "loaded" /\ ~wired
  /\ config' = SetDefaults(config) /\ wired' = TRUE
  /\ pc' = IF ~Reachable(SetDefaults(config)) /\ failClosed(config)
           THEN "rejected" ELSE "provisioned"
  /\ UNCHANGED <<source, request, broken, body, headers, exchange, origin, client, engine>>

(* Caddy validates what it has provisioned.                                *)
Validate ==
  /\ pc = "provisioned"
  /\ pc' = IF Valid(config) THEN "boot" ELSE "rejected"
  /\ UNCHANGED <<loading, request, broken, body, headers, exchange, origin, client, engine>>

(* Mutant: a handler that was never provisioned always forwards.           *)
ArriveUnwired ==
  /\ pc \in {"loaded", "boot"}
  /\ \E r \in Requests, e \in BodyErrors : request' = r /\ body' = r.body /\ broken' = e
  /\ pc' = IF wired THEN "read" ELSE "forward"
  /\ UNCHANGED <<loading, headers, exchange, origin, client, engine>>

(* A request arrives: also at a handler that was never provisioned, which  *)
(* answers or forwards at once.                                            *)
Arrive ==
  /\ pc \in {"loaded", "boot"}
  /\ \E r \in Requests, e \in BodyErrors : request' = r /\ body' = r.body /\ broken' = e
  /\ pc' = IF wired THEN "read" ELSE IF failClosed(config) THEN "unavailable" ELSE "forward"
  /\ UNCHANGED <<loading, headers, exchange, origin, client, engine>>

(* readRequestBody consumes and closes r.Body; ServeHTTP restores it, but  *)
(* not after an error.                                                     *)
ReadBody ==
  /\ pc = "read"
  /\ body' = IF broken THEN << >> ELSE request.body
  /\ pc' = IF broken THEN "forward" ELSE "acquire"
  /\ UNCHANGED <<loading, request, broken, headers, exchange, origin, client, engine>>

(* AcquireVerdict up to the end of SendRequest.                            *)
OpenSession ==
  /\ pc = "acquire" /\ Reachable(config)
  /\ \E order \in Orders(request) :
       LET frames == Transaction(request, requestHeaders(request, order))
       IN  ~TooLarge(frames) /\ seen' = Heard(frames)
  /\ pc' = "await"
  /\ UNCHANGED <<loading, request, broken, body, headers, said, verdict, origin, client,
                 engine>>

CannotSend ==
  \/ ~Reachable(config)
  \/ \A order \in Orders(request) :
       TooLarge(Transaction(request, requestHeaders(request, order)))

(* The engine is unreachable, a frame exceeds the ring, the engine dies    *)
(* with the session open, or is silent past the verdict budget.  The       *)
(* policy turns the error into ACCEPT when it fails open; otherwise the    *)
(* handler's own switch decides.                                           *)
EngineFails ==
  /\ (pc = "acquire" /\ CannotSend) \/ pc = "await"
  /\ verdict' = IF failOpenEnabled(config) THEN failOpenVerdict ELSE verdict
  /\ pc' = IF failOpenEnabled(config) THEN "enforce"
           ELSE IF failClosed(config) THEN "unavailable" ELSE "forward"
  /\ UNCHANGED <<loading, request, broken, body, headers, seen, said, origin, client, engine>>

(* One round of await: a frame that is no verdict, or INSPECT, is skipped; *)
(* every other verdict is final.                                           *)
EngineAnswers ==
  /\ pc = "await" /\ engineUp
  /\ \E v \in Verdicts :
       LET p == ParseVerdict(EncodeVerdict(v))
       IN  /\ said' = v
           /\ IF p.ok /\ p.msg.sid = Sid /\ p.msg.kind # Kind("Inspect")
              THEN verdict' = p.msg /\ pc' = "enforce"
              ELSE UNCHANGED <<verdict, pc>>
  /\ UNCHANGED <<loading, request, broken, body, headers, seen, origin, client, engine>>

-----------------------------------------------------------------------------
(* applyInjections: what is added to the request, in the verdict's order.  *)
(* A header injection without a colon is skipped.                          *)
Injected(is) == FlattenSeq([i \in DOMAIN is |-> IF is[i].header THEN << >> ELSE is[i].data])

Cut(data) ==
  LET at == Min({i \in DOMAIN data : data[i] = Colon})
  IN  [key |-> Trim(SubSeq(data, 1, at - 1)),
       value |-> Trim(SubSeq(data, at + 1, Len(data)))]

InjectedHeaders(is) ==
  FlattenSeq([i \in DOMAIN is |->
                IF is[i].header /\ Colon \in Range(is[i].data)
                THEN <<Cut(is[i].data)>> ELSE << >>])

(* Mutant: the injected bytes go in front.                                 *)
PrependInjections ==
  /\ body' = Injected(verdict.injections) \o request.body
  /\ headers' = headers \o InjectedHeaders(verdict.injections)

applyInjections ==
  /\ body' = request.body \o Injected(verdict.injections)
  /\ headers' = headers \o InjectedHeaders(verdict.injections)

BlockingDrop == {Kind("Drop")}   \* mutant: a custom response is not a block
Blocking == {Kind("Drop"), Kind("CustomResponse")}

(* The switch on verdict.Kind.                                             *)
Enforce ==
  /\ pc = "enforce"
  /\ IF verdict.kind = Kind("Inject") THEN applyInjections ELSE UNCHANGED <<body, headers>>
  /\ pc' = IF verdict.kind \in Blocking /\ config["mode"] # "learn"
           THEN "block" ELSE "forward"
  /\ UNCHANGED <<loading, request, broken, exchange, origin, client, engine>>

(* The engine's page if the verdict brings one, the configured one for     *)
(* what it leaves out.                                                     *)
PageOf(v) ==
  LET custom == v.web = WebResponse("Custom")
      pick(own, theirs, none) == IF custom /\ theirs # none THEN theirs ELSE own
  IN  [by |-> "block", status |-> pick(config["block_status_code"], v.status, 0),
       title |-> pick(config["block_page_title"], v.title, << >>),
       page |-> pick(config["block_page_body"], v.body, << >>)]

writeBlock ==
  /\ pc = "block"
  /\ client' = PageOf(verdict) /\ pc' = "done"
  /\ UNCHANGED <<loading, request, broken, body, headers, exchange, origin, engine>>

writeUnavailable ==
  /\ pc = "unavailable"
  /\ client' = [by |-> "badGateway"] /\ pc' = "done"
  /\ UNCHANGED <<loading, request, broken, body, headers, exchange, origin, engine>>

(* forward: the next handler gets the request as it now is.  Its           *)
(* Content-Length is still the client's.                                   *)
Forward ==
  /\ pc = "forward"
  /\ origin' = [body |-> body, headers |-> headers, length |-> Len(request.body)]
  /\ pc' = "origin"
  /\ UNCHANGED <<loading, request, broken, body, headers, exchange, client, engine>>

(* The next handler returns: its response is finalized, or its error is    *)
(* passed up the chain.                                                    *)
OriginReturns ==
  /\ pc = "origin"
  /\ client' \in {[by |-> "origin"], [by |-> "error"]} /\ pc' = "done"
  /\ UNCHANGED <<loading, request, broken, body, headers, exchange, origin, engine>>

EngineGoesDown ==
  /\ engineUp /\ outages < MaxOutages
  /\ engineUp' = FALSE /\ outages' = outages + 1
  /\ UNCHANGED <<loading, pc, request, broken, body, headers, exchange, origin, client>>

EngineComesUp ==
  /\ ~engineUp /\ engineUp' = TRUE
  /\ UNCHANGED <<loading, pc, request, broken, body, headers, exchange, origin, client,
                 outages>>

-----------------------------------------------------------------------------
Init ==
  /\ source \in Sources /\ config = Zero /\ wired = FALSE
  /\ pc = "load"
  /\ request = NoAnswer /\ broken = FALSE /\ body = << >> /\ headers = << >>
  /\ seen = NotSeen /\ said = NoVerdict /\ verdict = NoVerdict
  /\ origin = Nothing /\ client = NoAnswer
  /\ engineUp = TRUE /\ outages = 0

ServeHTTP == \/ Arrive \/ ReadBody \/ OpenSession \/ EngineFails \/ EngineAnswers
             \/ Enforce \/ writeBlock \/ writeUnavailable \/ Forward \/ OriginReturns

Next == \/ Load \/ Provision \/ Validate \/ ServeHTTP
        \/ EngineGoesDown \/ EngineComesUp

Spec == Init /\ [][Next]_vars

-----------------------------------------------------------------------------
Reached == origin # Nothing

(* A verdict whose sizes fit their fields, and one await understands.      *)
VerdictFits(v) ==
  IF v.kind = Kind("Inject")
  THEN /\ Len(v.injections) < Base
       /\ \A i \in DOMAIN v.injections : Len(v.injections[i].data) <= Max16
  ELSE v.kind = Kind("Drop") => \A s \in {v.title, v.body, v.uuid} : Len(s) < Base

Judged ==
  /\ said.kind \notin {NoVerdict.kind, Kind("Inspect")} /\ said.sid = Sid
  /\ ParseVerdict(EncodeVerdict(said)).ok

(* In prevent mode a request the engine condemned, with DROP or with a     *)
(* custom response, never reaches the origin; and a DROP whose texts fit   *)
(* the one-byte sizes of the verdict is answered with the page the engine  *)
(* sent, and the configured one for what that leaves out (handler.go,      *)
(* ServeHTTP and writeBlock; verdict_parse.go).  What the client of a      *)
(* custom response gets is left open: the code sends it the configured     *)
(* page, verdict.go:14-17 says the verdict's own body.                     *)
CondemnedIsBlocked ==
  config["mode"] = "prevent" /\ Judged /\ said.kind \in {Kind("Drop"), Kind("CustomResponse")} =>
    /\ ~Reached /\ client.by \in {"nobody", "block"}
    /\ client.by = "block" /\ said.kind = Kind("Drop") /\ VerdictFits(said) /\ said.web \in Pages =>
         client = PageOf(said)

(* The exact posture: a request reaches the origin without a verdict only  *)
(* if one of the two switches lets it, or if its body could not be read    *)
(* (handler.go, ServeHTTP; policy.go, AcquireVerdict).                     *)
UninspectedOnlyIfOpen ==
  Reached /\ ~Judged => failOpenEnabled(config) \/ ~failClosed(config) \/ broken

(* In learn mode the code applies injections; the comment on Mode says     *)
(* that verdicts are only logged (handler.go:37-38).                       *)
InjectedInLearnMode == config["mode"] = "learn" /\ Judged /\ said.kind = Kind("Inject")

(* What the origin reads is the client's body, followed in prevent mode by *)
(* the bytes the engine injected, in its order, and nothing is lost or     *)
(* invented between the engine's verdict and the origin (handler.go: "The  *)
(* origin must receive the ORIGINAL bytes"; body.go, applyInjections).     *)
OriginalBytes ==
  Reached /\ ~broken /\ VerdictFits(said) /\ ~InjectedInLearnMode =>
    IF Judged /\ said.kind = Kind("Inject")
    THEN /\ origin.body = request.body \o Injected(said.injections)
         /\ origin.headers = InjectedHeaders(said.injections)
    ELSE origin.body = request.body /\ origin.headers = << >>

(* A verdict is about the request the client sent: the engine has parsed   *)
(* the same start line, addresses, headers and body, up to the order of    *)
(* the headers, and the addresses it insists on are not empty.  Every text *)
(* must fit its two-byte length (frame.go, str); through the ring a longer *)
(* one never gets that far (ring.go, push).                                *)
RequestFits(r) ==
  /\ \A s \in {r.proto, r.method, r.uri, r.parsedURI, r.host.text, localIP(r), remoteIP(r)} :
       Len(s) <= Max16
  /\ \A h \in r.header : Len(h.key) <= Max16 /\ \A v \in Range(h.values) : Len(v) <= Max16

InspectedIsSent ==
  Judged /\ (SharedMemory(config) \/ RequestFits(request)) =>
    /\ seen.start = <<requestStart(request)>>
    /\ seen.start[1].clientIP # << >> /\ seen.start[1].listeningIP # << >>
    /\ \E order \in Orders(request) : seen.headers = requestHeaders(request, order)
    /\ seen.body = request.body /\ seen.ended

(* A request is answered only under a configuration that passes Validate,  *)
(* in which every option has the value of its last line, or the default    *)
(* when that is missing or zero, and whose names the engine recognises on  *)
(* the shared-memory transport as long as they fit their one-byte fields   *)
(* (caddyfile.go, SetDefaults, Validate; handshake.go).                    *)
ServesWhatIsConfigured ==
  wired /\ pc \notin {"provisioned", "rejected"} =>
    /\ Valid(config)
    /\ \A o \in Options : \A i \in Lines(source, o) :
         LET last == ValueOf(source, source.lines[i])
         IN  (\A j \in Lines(source, o) : j <= i) /\ last # Zero[o] => config[o] = last
    /\ (/\ Len(UniqueID(config["family_name"], config["worker_id"])) < Base
        /\ config["worker_id"] + 1 < Base) => Registers(config)

(* "Set it explicitly to false to fail closed when the engine is           *)
(* unavailable" (handler.go, Handler.FailOpen): with the handler's switch  *)
(* off, no request whose body is readable is forwarded without a verdict.  *)
FailClosedHolds == failClosed(config) /\ Reached /\ ~broken => Judged
=============================================================================
