---------------------------- MODULE MCInspection ----------------------------
(***************************************************************************)
(* Instances of Inspection with bytes of 12 values: a text of 144 bytes    *)
(* does not fit a two-byte length, one of 12 bytes not a one-byte length,  *)
(* and a frame of more than 140 bytes not the ring.                        *)
(***************************************************************************)
EXTENDS Inspection

Long(n) == [i \in 1 .. n |-> 1 + (i % 9)]

(* Requests: addresses in every form, no, several and overlong headers,    *)
(* no, a short and an overlong body.                                       *)
HostPort(host, port) ==
  [form |-> "hostport", text |-> host \o <<Colon, 8>>, host |-> host, port |-> port]
BadPort(host) == [form |-> "badport", text |-> host \o <<Colon>>, host |-> host, port |-> 0]
NoPort(text) == [form |-> "noport", text |-> text, host |-> << >>, port |-> 0]

Request(host, local, remote, header, b) ==
  [proto |-> <<1>>, method |-> <<2>>, uri |-> <<3, 4>>, parsedURI |-> <<3>>,
   host |-> host, local |-> local, remote |-> remote, header |-> header, body |-> b]

H(key, values) == [key |-> key, values |-> values]

MCRequests ==
  {Request(NoPort(<< >>), NoPort(<< >>), NoPort(<< >>), {}, << >>),
   Request(HostPort(<<5>>, 80), HostPort(<<6>>, 100), HostPort(<<7>>, 13),
           {H(<<1>>, <<<<2>>, << >>>>), H(<<3>>, <<<<4, 4>>>>)}, <<0, 0, 11>>),
   Request(BadPort(<<5>>), NoPort(<< >>), NoPort(<<9>>), {H(<<1>>, <<Long(144)>>)}, <<5>>),
   Request(NoPort(<<5, 5>>), BadPort(<<6>>), BadPort(<<7>>), {H(<<1>>, <<<<2>>>>)}, Long(140))}

(* Verdicts: every kind, every web response, sizes at and over the limit.  *)
V(name) == [kind |-> Kind(name), sid |-> Sid]
Drop(web, status, title, b) ==
  V("Drop") @@ [web |-> WebResponse(web), status |-> status, title |-> title, body |-> b,
                uuid |-> <<3>>, dummy |-> 0, event |-> 0, location |-> <<4, 5>>]
Inj(header, data) ==
  [pos |-> -1, mod |-> 1, header |-> header, index |-> 0, data |-> data]
Inject(is) == V("Inject") @@ [injections |-> is]

MCVerdicts ==
  {V(name) : name \in {"Inspect", "Accept", "Irrelevant", "Reconf", "Delayed",
                       "LimitResponseHeaders"}} \cup
  {Drop("Custom", 40, <<1>>, Long(11)), Drop("Custom", 0, Long(12), << >>),
   Drop("BlockPage", 41, <<1>>, <<2>>), Drop("Redirect", 0, << >>, << >>),
   Drop("None", 0, << >>, << >>),
   [Drop("Custom", 43, <<1>>, <<2>>) EXCEPT !.sid = Sid + 2],
   V("CustomResponse") @@ [status |-> 42, headers |-> <<[key |-> <<1>>, value |-> <<2>>]>>,
                           body |-> <<9>>],
   Inject(<<Inj(TRUE, <<Space, 1, Colon, 2, Space>>)>>),
   Inject(<<Inj(FALSE, <<1>>), Inj(TRUE, <<7>>), Inj(TRUE, <<1, Colon>>), Inj(FALSE, <<2, 3>>)>>),
   Inject(<<Inj(FALSE, Long(144)), Inj(FALSE, <<1>>)>>)}

-----------------------------------------------------------------------------
(* Configurations.                                                         *)
Line(block, option, v) ==
  [engine |-> block = "engine", option |-> option, arg |-> "value", v |-> v]
NoArg(option) == [engine |-> FALSE, option |-> option, arg |-> "missing"]
Size(n, unit) == [n |-> n, unit |-> unit]
Family == Line("engine", "family_name", <<5, 5>>)
FailOpen(v) == Line("handler", "fail_open", v)
EngineFailOpen(v) == Line("engine", "engine_fail_open", v)
Transport(v) == Line("engine", "transport", v)
Caddyfile(lines) == [json |-> FALSE, lines |-> lines]
JSON(lines) == [json |-> TRUE, lines |-> lines]

MCServed ==
  {Caddyfile(<<Family>>),
   Caddyfile(<<Family, FailOpen("true"), FailOpen("false")>>),
   Caddyfile(<<Family, Transport("socket"), FailOpen("false"),
               Line("handler", "body_buffer_limit", Size(8, "kib"))>>),
   Caddyfile(<<Family, Line("handler", "mode", "learn"),
               Line("handler", "response_buffer_limit", Size(1, "gb")),
               Line("handler", "block_status_code", 0)>>),
   JSON(<<Family, EngineFailOpen("false"),
          Line("engine", "is_brotli_inspection_enabled", "true")>>),
   JSON(<<Family, EngineFailOpen("false"), FailOpen("false"),
          Line("handler", "block_page_body", <<6>>)>>),
   JSON(<<Family, EngineFailOpen("false"), FailOpen("false"), Transport("memory")>>),
   Caddyfile(<<Family, Line("engine", "worker_id", 10)>>),
   Caddyfile(<<Family, Line("engine", "worker_id", 11)>>),
   Caddyfile(<<Line("engine", "family_name", Long(12))>>)}

MCRejected ==
  {Caddyfile(<<Family, Line("engine", "fail_open", "false")>>),
   Caddyfile(<<Family, NoArg("mode")>>),
   Caddyfile(<<Family, Line("handler", "body_buffer_limit", Size(2, "gib"))>>),
   Caddyfile(<<Family, Line("handler", "body_buffer_limit", Size(-1, ""))>>),
   Caddyfile(<<Line("handler", "mode", "prevent")>>),
   Caddyfile(<<Family, Line("handler", "mode", "detect")>>),
   Caddyfile(<<Family, Line("engine", "reconnect_backoff_min_ms", 6000)>>),
   JSON(<<Family, Line("engine", "max_retries_for_verdict", 2)>>)}

MCSources == MCServed \cup MCRejected
MCFailClosed == {Caddyfile(<<Family, FailOpen("false")>>)}
=============================================================================
