------------------------------- MODULE Frames -------------------------------
(***************************************************************************)
(* The frames of the attachment protocol (internal/protocol: request.go,   *)
(* simple.go, verdict.go, verdict_parse.go, handshake.go), each as the     *)
(* layout that its Encode writes and its Parse reads, and the order in     *)
(* which the mock engine tries the parsers (internal/mock/frame.go).       *)
(***************************************************************************)
EXTENDS Wire

(* The iota constants of const.go.                                         *)
DataTypes == <<"RequestStart", "RequestHeader", "RequestBody", "RequestEnd",
               "ResponseCode", "ResponseHeader", "ResponseBody", "ResponseEnd",
               "ContentLength", "MetricDataFromPlugin", "RequestDelayedVerdict">>
VerdictKinds == <<"Inspect", "Accept", "Drop", "Inject", "Irrelevant", "Reconf", "Delayed",
                  "LimitResponseHeaders", "CustomResponse">>
WebResponseTypes == <<"Custom", "BlockPage", "CodeOnly", "Redirect", "WithHeaders", "None">>

Iota(names, name) == (CHOOSE i \in DOMAIN names : names[i] = name) - 1
DataType(name) == Iota(DataTypes, name)
Kind(name) == Iota(VerdictKinds, name)
WebResponse(name) == Iota(WebResponseTypes, name)

-----------------------------------------------------------------------------
Session == <<U16("type"), U32("sid")>>

RequestStart ==
  Session \o <<Str("proto"), Str("method"), Str("host"), Str("listeningIP"),
               Field("listeningPort", "port"), Str("uri"), Str("clientIP"),
               Field("clientPort", "port"), Str("parsedHost"), Str("parsedURI"),
               Str("wafTag")>>

Part == Session \o <<Field("last", "flag"), U8("part")>>
Header == <<Str("key"), Str("value")>>
BodyChunk == Part \o <<Rest("data")>>
ResponseCode == Session \o <<U16("code")>>
ContentLength == Session \o <<Field("length", "u64")>>

Name8(name) == Field(name, "str8")
KeepAlive == <<U8("worker"), Name8("family")>>
Registration == <<U8("attachmentType"), U8("worker"), U8("workers"), Name8("family")>>
CommData == <<Name8("uid"), U32("user"), U32("group"), Field("core", "i32")>>

EncodeHeaderBulk(m) == Encode(Part, m) \o EncodeAll(Header, m.headers)

(* The parsers that check the data type.                                   *)
Typed(r, types) ==
  IF r.ok /\ r.msg.type \notin {DataType(t) : t \in types} THEN Stop(r) ELSE r

Parse(layout, b) == Read(layout, b, Start)
ParseRequestStart(b) == Typed(Parse(RequestStart, b), {"RequestStart"})
ParseRequestEnd(b) == Typed(Parse(Session, b), {"RequestEnd", "ResponseEnd"})
ParseResponseCode(b) == Typed(Parse(ResponseCode, b), {"ResponseCode"})
ParseContentLength(b) == Typed(Parse(ContentLength, b), {"ContentLength"})
ParseDelayedVerdict(b) == Typed(Parse(Session, b), {"RequestDelayedVerdict"})
ParseBodyChunk(b) == Typed(Parse(BodyChunk, b), {"RequestBody", "ResponseBody"})
ParseHeaderBulk(b) ==
  ReadMany(Header, b, Typed(Parse(Part, b), {"RequestHeader", "ResponseHeader"}),
           "headers", ToEnd)

-----------------------------------------------------------------------------
(* HttpReplyFromService.                                                   *)
VerdictHead == <<U16("kind"), U32("sid"), U8("count")>>
InjectData == <<Field("pos", "i64"), U32("mod"), SizeIn("u16", "size", "data"),
                Field("header", "flag"), U8("index"), Bytes("data", "size")>>
WebHead == <<U8("web"), SizeIn("u8", "uuidSize", "uuid")>>
Page == <<U16("status"), SizeIn("u8", "titleSize", "title"), SizeIn("u8", "bodySize", "body"),
          Bytes("title", "titleSize"), Bytes("body", "bodySize"), Bytes("uuid", "uuidSize")>>
Redirect == <<U8("dummy"), U8("event"), SizeIn("u16", "locationSize", "location"),
              Bytes("location", "locationSize"), Bytes("uuid", "uuidSize")>>
CustomHead == <<U16("status"), SizeIn("u16", "bodySize", "body"),
                SizeIn("u8", "headerCount", "headers")>>
SizedHeader == <<SizeIn("u16", "keySize", "key"), SizeIn("u16", "valueSize", "value"),
                 Bytes("key", "keySize"), Bytes("value", "valueSize")>>
CustomBody == <<Bytes("body", "bodySize")>>

(* What a Verdict holds, by the types of its Go fields.                    *)
Text == Seq(0 .. Max8)
Injections ==
  Seq([pos : Int, mod : 0 .. Max8, header : BOOLEAN, index : 0 .. Max8, data : Text])

IsVerdict(v) ==
  /\ v.kind \in 0 .. Max16 /\ v.sid \in 0 .. Max32
  /\ v.kind = Kind("Inject") => v.injections \in Injections
  /\ v.kind = Kind("Drop") =>
       /\ v.web \in 0 .. Max8 /\ v.status \in 0 .. Max16
       /\ v.title \in Text /\ v.body \in Text /\ v.uuid \in Text /\ v.location \in Text
       /\ v.dummy = 0 /\ v.event = 0
  /\ v.kind = Kind("CustomResponse") =>
       /\ v.status \in 0 .. Max16 /\ v.body \in Text
       /\ v.headers \in Seq([key : Text, value : Text])

Pages == {WebResponse("Custom"), WebResponse("BlockPage"), WebResponse("CodeOnly")}

EncodeWebResponse(v) ==
  Encode(WebHead, v) \o (IF v.web \in Pages THEN Encode(Page, v)
                         ELSE IF v.web = WebResponse("Redirect") THEN Encode(Redirect, v)
                         ELSE << >>)

EncodeCustomResponse(v) ==
  Encode(CustomHead, v) \o EncodeAll(SizedHeader, v.headers) \o Encode(CustomBody, v)

EncodeHead(v, n) == Encode(VerdictHead, [kind |-> v.kind, sid |-> v.sid, count |-> n])

EncodeVerdict(v) ==
  CASE v.kind = Kind("Inject") ->
         EncodeHead(v, Len(v.injections)) \o EncodeAll(InjectData, v.injections)
    [] v.kind = Kind("Drop")           -> EncodeHead(v, 1) \o EncodeWebResponse(v)
    [] v.kind = Kind("CustomResponse") -> EncodeHead(v, 1) \o EncodeCustomResponse(v)
    [] OTHER                           -> EncodeHead(v, 0)

ParseWebResponse(b, r) ==
  LET w == Read(WebHead, b, r)
  IN  IF ~w.ok THEN w
      ELSE CASE w.msg.web \in Pages                 -> Read(Page, b, w)
             [] w.msg.web = WebResponse("Redirect") -> Read(Redirect, b, w)
             [] OTHER                               -> Stop(w)

(* The verdict's WebResponse is of type WithHeaders.                       *)
ParseCustomResponse(b, r) ==
  LET h == Read(CustomHead, b, With(r, "web", WebResponse("WithHeaders")))
  IN  IF ~h.ok THEN h
      ELSE Read(CustomBody, b, ReadMany(SizedHeader, b, h, "headers", h.msg.headerCount))

ParseVerdict(b) ==
  LET v == Parse(VerdictHead, b)
  IN  IF ~v.ok THEN v
      ELSE CASE v.msg.kind = Kind("Inject") ->
                  ReadMany(InjectData, b, v, "injections", v.msg.count)
             [] v.msg.kind = Kind("Drop") -> ParseWebResponse(b, v)
             [] v.msg.kind = Kind("CustomResponse") -> ParseCustomResponse(b, v)
             [] OTHER -> v

-----------------------------------------------------------------------------
(* The mock engine.                                                        *)
parseRequest(b) ==
  \/ ParseRequestStart(b).ok \/ ParseRequestEnd(b).ok \/ ParseResponseCode(b).ok
  \/ ParseContentLength(b).ok \/ ParseDelayedVerdict(b).ok
  \/ ParseHeaderBulk(b).ok \/ ParseBodyChunk(b).ok

isResponseFrame(b) ==
  Number(SubSeq(b, 1, 2)) \in {DataType("ResponseCode"), DataType("ResponseHeader"),
                               DataType("ResponseBody"), DataType("ResponseEnd"),
                               DataType("ContentLength")}

(* A request or response frame is recognised by a data type below Base.    *)
classify(b, phase) ==
  IF Len(b) >= 2 /\ b[2] = 0 /\ parseRequest(b)
  THEN IF isResponseFrame(b) THEN "response" ELSE "request"
  ELSE IF phase = 0 /\ Parse(Registration, b).ok THEN "registration"
  ELSE IF Parse(CommData, b).ok THEN "comm"
  ELSE IF Parse(KeepAlive, b).ok THEN "keepAlive"
  ELSE "unknown"
=============================================================================
