--------------------------- MODULE Configuration ----------------------------
(***************************************************************************)
(* The options of the openappsec handler: a Caddyfile block or the JSON    *)
(* form (internal/handler/caddyfile.go), the defaults and the validation   *)
(* (handler.go, internal/config).  A source is [json, lines]; a line is an *)
(* option with an argument, which is missing, rejected by strconv ("bad")  *)
(* or a value v; lines of the engine block have engine set.  A             *)
(* configuration maps every option to its value, the option's zero value   *)
(* when it is not set.                                                     *)
(***************************************************************************)
EXTENDS Integers, Sequences, FiniteSetsExt, TLC

CONSTANT MaxInt   \* the largest int of the build

ASSUME MaxIntAssumption == MaxInt \in Nat

BoolOptions == {"fail_open", "skip_compressed_body_inspection"}
SizeOptions == {"body_buffer_limit", "response_buffer_limit"}
TextOptions == {"mode", "block_page_title", "block_page_body", "custom_headers"}
EngineInts == {"worker_id", "workers", "keep_alive_interval_ms", "registration_timeout_ms",
               "reconnect_backoff_min_ms", "reconnect_backoff_max_ms",
               "fail_open_timeout_ms", "req_max_processing_ms", "res_max_processing_ms"}
EngineTexts == {"registration_socket", "keep_alive_path", "verdict_signal_path",
                "transport", "family_name", "attachment_type", "log_level"}
CaddyfileOptions == BoolOptions \cup SizeOptions \cup TextOptions \cup EngineInts
                    \cup EngineTexts \cup {"block_status_code"}

(* What only the JSON form can set.                                        *)
JSONInts == {"fail_open_hold_timeout_ms", "min_retries_for_verdict",
             "max_retries_for_verdict", "hold_verdict_retries", "hold_verdict_polling_ms",
             "body_size_trigger", "decompression_pool_size", "recompression_pool_size"}

Ints == EngineInts \cup JSONInts \cup SizeOptions \cup {"block_status_code"}
JSONSwitches == {"engine_fail_open", "is_brotli_inspection_enabled"}
Options == CaddyfileOptions \cup JSONInts \cup JSONSwitches

(* Texts that reach the wire or the client are sequences of bytes; the     *)
(* switches are tri-state, or false when they are not set.                 *)
ByteTexts == {"family_name", "block_page_title", "block_page_body"}

Zero == [o \in Options |->
           IF o \in Ints THEN 0
           ELSE IF o \in {"fail_open", "engine_fail_open"} THEN "unset"
           ELSE IF o \in BoolOptions \cup JSONSwitches THEN "false"
           ELSE IF o \in ByteTexts THEN << >> ELSE ""]

(* strings.TrimSpace on a text of bytes.                                   *)
Space == 9
Trim(text) ==
  LET ink == {i \in DOMAIN text : text[i] # Space}
  IN  IF ink = {} THEN << >> ELSE SubSeq(text, Min(ink), Max(ink))

-----------------------------------------------------------------------------
(* parseSize: the first suffix of the table that the text ends with; what  *)
(* is left must be a number.  A size is [n, unit], unit in lower case, ""  *)
(* for none.                                                               *)
SizeSuffixes == <<"gib", "gb", "mib", "mb", "kib", "kb", "b">>
Factor == [gib |-> 2 ^ 30, gb |-> 2 ^ 30, mib |-> 2 ^ 20, mb |-> 2 ^ 20,
           kib |-> 2 ^ 10, kb |-> 2 ^ 10, b |-> 1]
EndsWith(unit, suffix) == unit = suffix \/ (unit # "" /\ suffix = "b")

SizeFactor(unit) ==
  IF unit = "" THEN 1
  ELSE Factor[SizeSuffixes[Min({i \in DOMAIN SizeSuffixes : EndsWith(unit, SizeSuffixes[i])})]]

SizeFails(size) ==
  \/ size.unit # "" /\ size.unit # SizeSuffixes[Min({i \in DOMAIN SizeSuffixes :
                                                   EndsWith(size.unit, SizeSuffixes[i])})]
  \/ size.n < 0 \/ size.n > MaxInt \div SizeFactor(size.unit)

(* parseCaddyfile, parseEngineBlock.                                       *)
LineFails(source, line) ==
  IF source.json THEN line.option \notin Options
  ELSE \/ line.option \notin CaddyfileOptions
       \/ line.engine # (line.option \in EngineInts \cup EngineTexts)
       \/ line.arg \in {"missing", "bad"}
       \/ line.option \in SizeOptions /\ SizeFails(line.v)

ValueOf(source, line) ==
  IF line.option \in SizeOptions /\ ~source.json
  THEN line.v.n * SizeFactor(line.v.unit) ELSE line.v

ParseFails(source) == \E i \in DOMAIN source.lines : LineFails(source, source.lines[i])

(* The last line of an option counts.                                      *)
Lines(source, o) == {i \in DOMAIN source.lines : source.lines[i].option = o}

Parsed(source) ==
  [o \in Options |-> IF Lines(source, o) = {} THEN Zero[o]
                     ELSE ValueOf(source, source.lines[Max(Lines(source, o))])]

-----------------------------------------------------------------------------
(* Handler.SetDefaults and EngineConfig.SetDefaults; the paths and the     *)
(* block page stand for the texts of config.go and handler.go.  worker_id, *)
(* transport and family_name have no default, and the handler's fail_open  *)
(* stays unset.                                                            *)
Given ==
  [mode |-> "prevent", body_buffer_limit |-> 10 * 2 ^ 20, response_buffer_limit |-> 4 * 2 ^ 20,
   block_status_code |-> 403, block_page_title |-> <<7, 7>>, block_page_body |-> <<8, 8>>,
   registration_socket |-> "default registration", keep_alive_path |-> "default keep-alive",
   verdict_signal_path |-> "default signal", workers |-> 1, attachment_type |-> "nginx",
   keep_alive_interval_ms |-> 300000, registration_timeout_ms |-> 100,
   reconnect_backoff_min_ms |-> 100, reconnect_backoff_max_ms |-> 5000,
   engine_fail_open |-> "true", fail_open_timeout_ms |-> 50,
   fail_open_hold_timeout_ms |-> 150, req_max_processing_ms |-> 3000,
   res_max_processing_ms |-> 3000, min_retries_for_verdict |-> 3,
   max_retries_for_verdict |-> 15, hold_verdict_retries |-> 3, hold_verdict_polling_ms |-> 1,
   body_size_trigger |-> 200000, decompression_pool_size |-> 262144,
   recompression_pool_size |-> 16384, log_level |-> "info"]

Default == [o \in Options |-> IF o \in DOMAIN Given THEN Given[o] ELSE Zero[o]]

SetDefaults(c) == [o \in Options |-> IF c[o] = Zero[o] THEN Default[o] ELSE c[o]]

(* Handler.Validate and EngineConfig.Validate.                             *)
Valid(c) ==
  /\ Trim(c["family_name"]) # << >> /\ c["attachment_type"] = "nginx"
  /\ c["transport"] \in {"", "memory", "socket", "shm"}
  /\ c["worker_id"] >= 0
  /\ \A o \in Ints \ {"worker_id"} : c[o] > 0
  /\ c["reconnect_backoff_min_ms"] <= c["reconnect_backoff_max_ms"]
  /\ c["min_retries_for_verdict"] <= c["max_retries_for_verdict"]
  /\ c["mode"] \in {"prevent", "learn"}
  /\ c["block_status_code"] \in 400 .. 599

(* The tri-state switches: the handler fails closed on an explicit false,  *)
(* the policy fails open unless its own is false.                          *)
failClosed(c) == c["fail_open"] = "false"
failOpenEnabled(c) == c["engine_fail_open"] # "false"
=============================================================================
