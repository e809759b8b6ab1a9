------------------------------- MODULE Schema -------------------------------
(***************************************************************************)
(* The schema of events: what the fields of the protocol hold, whether     *)
(* they are personal data, which limits they declare, and how a processor  *)
(* that walks an event from its root hands these attributes down           *)
(* (relay-general: protocol, processor/attrs.rs, the derive macros).       *)
(*                                                                         *)
(* Text is what matters: numbers, flags, times and values that are parsed  *)
(* into a form of bounded length are scalars. Types with text that no      *)
(* processor looks into are opaque. Only redaction looks into paths.       *)
(***************************************************************************)
EXTENDS Integers, Sequences, TLC

-----------------------------------------------------------------------------
(* Attributes of fields. A type is a sequence: containers, then an element. *)

Of(ty) == [ty |-> ty, pii |-> {}, max_chars |-> {}, bag_size |-> {}, retain |-> FALSE]

Text == Of(<<"String">>)
Scalar == Of(<<"Scalar">>)
Opaque == Of(<<"Opaque">>)
Path == Of(<<"NativeImagePath">>)
Free == Of(<<"Value">>)
Bag == Of(<<"Object", "Value">>)

Pii(a) == [a EXCEPT !.pii = {"True"}]
Maybe(a) == [a EXCEPT !.pii = {"Maybe"}]
NoPii(a) == [a EXCEPT !.pii = {"False"}]
Chars(a, limit) == [a EXCEPT !.max_chars = {limit}]
Size(a, limit) == [a EXCEPT !.bag_size = {limit}]
Retain(a) == [a EXCEPT !.retain = TRUE]

Fields(names, a) == [n \in names |-> a]
Other(a) == [other |-> a]
Newtype(a) == [inner |-> a]

-----------------------------------------------------------------------------
(* The event.                                                              *)

EventAttributes ==
  Fields({"event_id", "level", "type", "time_spent"}, Scalar)
    @@ [version |-> Text, fingerprint |-> Opaque, culprit |-> Maybe(Chars(Text, "culprit")),
        transaction |-> Chars(Text, "culprit"), logentry |-> Of(<<"LogEntry">>), logger |-> Chars(Text, "logger"),
        modules |-> Size(Of(<<"Object", "String">>), "large")]

EventRelease ==
  Fields({"timestamp", "start_timestamp", "received"}, Scalar)
    @@ [platform |-> Text, server_name |-> Pii(Chars(Text, "symbol")),
        release |-> Chars(Of(<<"LenientString">>), "tag_value"), dist |-> Chars(Text, "tag_value"),
        environment |-> Chars(Text, "environment"), site |-> Chars(Text, "symbol")]

EventInterfaces ==
  [user |-> Of(<<"User">>), request |-> Of(<<"Request">>), contexts |-> Of(<<"Contexts">>),
   breadcrumbs |-> Of(<<"Values", "Breadcrumb">>), exception |-> Of(<<"Values", "Exception">>),
   stacktrace |-> Of(<<"Stacktrace">>), template |-> Of(<<"TemplateInfo">>),
   threads |-> Of(<<"Values", "Thread">>), tags |-> Maybe(Of(<<"Tags">>)),
   extra |-> Pii(Size(Of(<<"Object", "ExtraValue">>), "massive")),
   debug_meta |-> Of(<<"DebugMeta">>), sdk |-> Of(<<"ClientSdkInfo">>)]

EventInternals ==
  Fields({"key_id"}, Text) @@ Fields({"project"}, Scalar)
    @@ [errors |-> Of(<<"Array", "EventProcessingError">>), grouping_config |-> Bag,
        checksum |-> Chars(Text, "hash"), csp |-> Of(<<"Csp">>), hpkp |-> Pii(Of(<<"Hpkp">>)),
        expectct |-> Pii(Of(<<"ExpectCt">>)), expectstaple |-> Pii(Of(<<"ExpectStaple">>)),
        spans |-> Of(<<"Array", "Span">>), measurements |-> Of(<<"Object", "Scalar">>),
        breakdowns |-> Of(<<"Object", "Object", "Scalar">>), _metrics |-> Opaque]
    @@ Other(Pii(Bag))

ExtraValue == Newtype(Size(Free, "larger"))

EventProcessingError == Fields({"type", "name"}, Text) @@ [value |-> Free] @@ Other(Maybe(Bag))

LogEntry ==
  [message |-> Chars(Of(<<"Message">>), "message"), formatted |-> Pii(Chars(Of(<<"Message">>), "message")),
   params |-> Size(Free, "medium")] @@ Other(Pii(Bag))

Breadcrumb ==
  Fields({"timestamp", "level", "event_id"}, Scalar) @@ Fields({"type", "category"}, Chars(Text, "enumlike"))
    @@ [message |-> Pii(Chars(Text, "message")), data |-> Pii(Size(Bag, "medium"))] @@ Other(Bag)

ClientSdkPackage == Fields({"name", "version"}, Text)

ClientSdkInfo ==
  Fields({"name", "version"}, Chars(Text, "symbol"))
    @@ [integrations |-> Of(<<"Array", "String">>), packages |-> Of(<<"Array", "ClientSdkPackage">>),
        client_ip |-> Pii(Scalar)] @@ Other(Bag)

Geo == Fields({"country_code", "city", "region"}, Pii(Chars(Text, "summary"))) @@ Other(Bag)

User ==
  [id |-> Pii(Chars(Of(<<"LenientString">>), "enumlike")), email |-> Pii(Chars(Text, "email")),
   ip_address |-> Pii(Scalar), geo |-> Of(<<"Geo">>), segment |-> Text, data |-> Pii(Bag)]
    @@ Fields({"username", "name"}, Pii(Chars(Text, "enumlike"))) @@ Other(Pii(Bag))

TemplateInfo ==
  [filename |-> Pii(Chars(Text, "short_path")), abs_path |-> Pii(Chars(Text, "path")), context_line |-> Text]
    @@ Fields({"lineno", "colno"}, Scalar)
    @@ Fields({"pre_context", "post_context"}, Of(<<"Array", "String">>)) @@ Other(Bag)

Request ==
  [url |-> Maybe(Chars(Text, "path")), data |-> Pii(Size(Free, "large")),
   query_string |-> Pii(Size(Of(<<"Query">>), "small")), fragment |-> Pii(Chars(Text, "summary")),
   cookies |-> Pii(Size(Of(<<"Cookies">>), "medium")), headers |-> Pii(Size(Of(<<"Headers">>), "large")),
   env |-> Pii(Size(Bag, "large"))]
    @@ Fields({"method", "inferred_content_type"}, Text) @@ Other(Pii(Bag))

LenientString_Opaque == Newtype(Opaque)
LenientString == Newtype(Text)
Message == Newtype(Text)

(* Lists of pairs: a pair is an array of two for a processor.              *)
Cookies == Newtype(Of(<<"Array", "Array", "String">>))
Headers == Newtype(Of(<<"Array", "Array", "LenientString">>))
Query == Newtype(Of(<<"Array", "Array", "LenientString">>))
Tags == Newtype(Of(<<"Array", "TagEntry">>))
TagEntry == [key |-> Chars(Text, "tag_key"), value |-> Chars(Text, "tag_value")]

-----------------------------------------------------------------------------
(* Exceptions, threads and stacktraces.                                    *)

Exception ==
  [value |-> Pii(Chars(Of(<<"LenientString">>), "message")), stacktrace |-> Of(<<"Stacktrace">>),
   raw_stacktrace |-> Of(<<"RawStacktrace">>), thread_id |-> Chars(Opaque, "enumlike"), mechanism |-> Of(<<"Mechanism">>)]
    @@ Fields({"type", "module"}, Chars(Text, "symbol")) @@ Other(Bag)

Thread ==
  [id |-> Chars(Opaque, "symbol"), name |-> Chars(Text, "summary"), stacktrace |-> Of(<<"Stacktrace">>),
   raw_stacktrace |-> Of(<<"RawStacktrace">>)] @@ Fields({"crashed", "current"}, Scalar) @@ Other(Bag)

Stacktrace == Newtype(Of(<<"RawStacktrace">>))

RawStacktrace ==
  [frames |-> Of(<<"Array", "Frame">>), registers |-> Of(<<"Object", "Scalar">>), lang |-> Chars(Text, "enumlike"),
   snapshot |-> Scalar] @@ Other(Bag)

Frame ==
  Fields({"function", "raw_function", "symbol"}, Chars(Text, "symbol")) @@ Fields({"trust", "lang"}, Chars(Text, "enumlike"))
    @@ Fields({"package", "platform", "context_line", "addr_mode"}, Text) @@ [module |-> Maybe(Text)]
    @@ Fields({"filename", "abs_path"}, Maybe(Chars(Path, "path")))
    @@ Fields({"pre_context", "post_context"}, Of(<<"Array", "String">>))
    @@ Fields({"lineno", "colno", "in_app", "image_addr", "instruction_addr", "symbol_addr", "stack_start"}, Scalar)
    @@ [vars |-> Pii(Size(Of(<<"FrameVars">>), "medium")), data |-> Of(<<"FrameData">>)] @@ Other(Bag)

FrameVars == Newtype(Bag)

FrameData ==
  Fields({"sourcemap", "orig_filename"}, Chars(Text, "path")) @@ [orig_function |-> Chars(Text, "symbol")]
    @@ Fields({"orig_lineno", "orig_colno", "orig_in_app"}, Scalar) @@ Other(Bag)

Mechanism ==
  [type |-> Chars(Text, "enumlike"), description |-> Pii(Chars(Text, "message")), help_link |-> Chars(Text, "path"),
   data |-> Pii(Size(Bag, "medium")), meta |-> Of(<<"MechanismMeta">>)]
    @@ Fields({"synthetic", "handled"}, Scalar) @@ Other(Bag)

MechanismMeta ==
  [errno |-> Of(<<"CError">>), signal |-> Of(<<"PosixSignal">>), mach_exception |-> Of(<<"MachException">>),
   ns_error |-> Of(<<"NsError">>)] @@ Other(Bag)

CError == [number |-> Scalar, name |-> Text]
MachException == Fields({"exception", "code", "subcode"}, Scalar) @@ [name |-> Text]
NsError == [code |-> Scalar, domain |-> Text]
PosixSignal == Fields({"number", "code"}, Scalar) @@ Fields({"name", "code_name"}, Text)

-----------------------------------------------------------------------------
(* Contexts. Each is a databag of its own.                                 *)

Contexts == Newtype(Of(<<"Object", "ContextInner">>))
ContextInner_Small == Newtype(Of(<<"Context">>))
ContextInner == Newtype(Size(Of(<<"Context">>), "large"))

Context ==
  [n \in {"DeviceContext", "OsContext", "RuntimeContext", "AppContext", "BrowserContext", "GpuContext",
          "TraceContext", "MonitorContext", "ReprocessingContext"} |-> Of(<<n>>)]
    @@ Other(Pii(Bag))

Named(n) == Fields({"name", "version"}, n) @@ Other(Retain(Maybe(Bag)))

DeviceContext ==
  Fields({"family", "model", "model_id", "arch", "orientation", "manufacturer", "brand"}, Text)
    @@ Fields({"name", "screen_resolution", "boot_time", "timezone"}, Maybe(Text))
    @@ Fields({"battery_level", "online", "charging", "low_memory", "simulator"}, Scalar)
    @@ Fields({"screen_density", "screen_dpi", "memory_size", "free_memory", "usable_memory", "storage_size",
               "free_storage", "external_storage_size", "external_free_storage"}, Maybe(Scalar))
    @@ Other(Retain(Maybe(Bag)))

OsContext ==
  Fields({"build", "kernel_version", "raw_description"}, Maybe(Text)) @@ [rooted |-> Scalar] @@ Named(Text)

RuntimeContext == Fields({"build", "raw_description"}, Maybe(Text)) @@ Named(Text)

AppContext ==
  Fields({"app_start_time", "device_app_hash"}, Maybe(Text))
    @@ Fields({"build_type", "app_identifier", "app_name", "app_version", "app_build"}, Text)
    @@ Other(Retain(Maybe(Bag)))

BrowserContext == Named(Text)

GpuContext ==
  Fields({"vendor_id", "vendor_name", "api_type", "npot_support"}, Maybe(Text)) @@ [id |-> Maybe(Free)]
    @@ Fields({"memory_size", "multi_threaded_rendering"}, Maybe(Scalar)) @@ Named(Maybe(Text))

MonitorContext == Newtype(Maybe(Bag))

TraceContext ==
  Fields({"trace_id", "span_id", "parent_span_id", "status"}, Scalar) @@ [op |-> Chars(Text, "enumlike")]
    @@ Other(Retain(Maybe(Bag)))

ReprocessingContext ==
  [original_issue_id |-> NoPii(Scalar), original_primary_hash |-> NoPii(Text)] @@ Other(Retain(NoPii(Bag)))

-----------------------------------------------------------------------------
(* Spans, debug images and security reports.                               *)

Span ==
  Fields({"timestamp", "start_timestamp", "span_id", "parent_span_id", "trace_id", "status"}, Scalar)
    @@ [description |-> Maybe(Text), op |-> Chars(Text, "enumlike"),
        tags |-> Maybe(Of(<<"Object", "LenientString">>)), data |-> Maybe(Bag)] @@ Other(Retain(Maybe(Bag)))

DebugMeta == [sdk_info |-> Of(<<"SystemSdkInfo">>), images |-> Of(<<"Array", "DebugImage">>)] @@ Other(Bag)

SystemSdkInfo ==
  [sdk_name |-> Text] @@ Fields({"version_major", "version_minor", "version_patchlevel"}, Scalar) @@ Other(Bag)

DebugImage ==
  [n \in {"AppleDebugImage", "NativeDebugImage", "ProguardDebugImage"} |-> Of(<<n>>)] @@ Other(Bag)

AppleDebugImage ==
  Fields({"name", "arch"}, Text)
    @@ Fields({"cpu_type", "cpu_subtype", "image_addr", "image_size", "image_vmaddr", "uuid"}, Scalar) @@ Other(Bag)

NativeDebugImage ==
  Fields({"code_file", "debug_file"}, Maybe(Path)) @@ [arch |-> Text, code_id |-> Opaque]
    @@ Fields({"debug_id", "image_addr", "image_size", "image_vmaddr"}, Scalar) @@ Other(Bag)

ProguardDebugImage == [uuid |-> Scalar] @@ Other(Bag)

Certificates ==
  Fields({"date_time", "hostname", "effective_expiration_date"}, Text) @@ [port |-> Scalar]
    @@ Fields({"served_certificate_chain", "validated_certificate_chain"}, Of(<<"Array", "String">>))

Csp ==
  Fields({"effective_directive", "blocked_uri", "document_uri", "referrer"}, Pii(Text))
    @@ Fields({"original_policy", "violated_directive", "source_file", "script_sample", "disposition"}, Text)
    @@ Fields({"status_code", "line_number", "column_number"}, Scalar) @@ Other(Pii(Bag))

SingleCertificateTimestamp == Fields({"status", "source", "serialized_sct"}, Text) @@ [version |-> Scalar]

ExpectCt ==
  Fields({"scheme", "failure_mode"}, Text) @@ [test_report |-> Scalar]
    @@ [scts |-> Of(<<"Array", "SingleCertificateTimestamp">>)] @@ Certificates

Hpkp ==
  [include_subdomains |-> Scalar, noted_hostname |-> Text, known_pins |-> Of(<<"Array", "String">>)]
    @@ Certificates @@ Other(Pii(Bag))

ExpectStaple == Fields({"response_status", "cert_status"}, Text) @@ [ocsp_response |-> Free] @@ Certificates

-----------------------------------------------------------------------------
(* The protocol, by name. A list of values is a structure of its own.      *)

Structs ==
  [Event |-> EventAttributes @@ EventRelease @@ EventInterfaces @@ EventInternals,
   EventProcessingError |-> EventProcessingError, LogEntry |-> LogEntry, Breadcrumb |-> Breadcrumb,
   ClientSdkPackage |-> ClientSdkPackage, ClientSdkInfo |-> ClientSdkInfo, Geo |-> Geo, User |-> User,
   TemplateInfo |-> TemplateInfo, Request |-> Request, TagEntry |-> TagEntry, Exception |-> Exception,
   Thread |-> Thread, RawStacktrace |-> RawStacktrace, Frame |-> Frame, FrameData |-> FrameData,
   Mechanism |-> Mechanism, MechanismMeta |-> MechanismMeta, CError |-> CError, MachException |-> MachException,
   NsError |-> NsError, PosixSignal |-> PosixSignal, DeviceContext |-> DeviceContext, OsContext |-> OsContext,
   RuntimeContext |-> RuntimeContext, AppContext |-> AppContext, BrowserContext |-> BrowserContext,
   GpuContext |-> GpuContext, TraceContext |-> TraceContext, ReprocessingContext |-> ReprocessingContext,
   Span |-> Span, DebugMeta |-> DebugMeta, SystemSdkInfo |-> SystemSdkInfo, AppleDebugImage |-> AppleDebugImage,
   NativeDebugImage |-> NativeDebugImage, ProguardDebugImage |-> ProguardDebugImage, Csp |-> Csp,
   SingleCertificateTimestamp |-> SingleCertificateTimestamp, ExpectCt |-> ExpectCt, Hpkp |-> Hpkp,
   ExpectStaple |-> ExpectStaple]

(* Newtypes and the variants of enums, which hand their attributes down.   *)
Wrapped ==
  [ExtraValue |-> ExtraValue, Cookies |-> Cookies, Headers |-> Headers, Query |-> Query, Tags |-> Tags,
   Stacktrace |-> Stacktrace, FrameVars |-> FrameVars, Contexts |-> Contexts, ContextInner |-> ContextInner,
   MonitorContext |-> MonitorContext, Context |-> Context, DebugImage |-> DebugImage,
   LenientString |-> LenientString, Message |-> Message,
   Value |-> [string |-> Text, array |-> Of(<<"Array", "Value">>), object |-> Bag]]

ValuesOf(item) == [values |-> Of(<<"Array">> \o item)] @@ Other(Bag)

-----------------------------------------------------------------------------
(* Processing states. bagged says that the state is in a databag, at which *)
(* field of the protocol it was entered last.                              *)

Root == [ty |-> <<"Event">>, pii |-> "False", max_chars |-> {}, bagged |-> FALSE, bag_size |-> {}, at |-> <<"Event", "root">>]

Default(s, default) == IF s = {} THEN default ELSE CHOOSE x \in s : TRUE

(* ProcessingState::enter_static with the attributes of a field.           *)
EnterField(state, a, at) ==
  [ty |-> a.ty, pii |-> Default(a.pii, "False"), max_chars |-> a.max_chars, bag_size |-> a.bag_size,
   bagged |-> state.bagged \/ a.bag_size # {}, at |-> at]

EnterNothing_Own(state, a) == EnterField(state, a, state.at)

(* FieldAttrs::as_tokens of a newtype: what it does not say comes from the  *)
(* parent (ProcessingState::enter_nothing).                                 *)
EnterNothing(state, a) ==
  [state EXCEPT !.ty = a.ty, !.pii = Default(a.pii, @),
                !.max_chars = IF a.max_chars = {} THEN @ ELSE a.max_chars,
                !.bag_size = IF a.bag_size = {} THEN @ ELSE a.bag_size,
                !.bagged = @ \/ a.bag_size # {}]

(* ProcessingState::inner_attrs: an item inherits nothing but pii.         *)
EnterItem(state, ty) == [state EXCEPT !.ty = ty, !.max_chars = {}, !.bag_size = {}]

(* Processor::process_other after RemoveOtherProcessor::process_other: only *)
(* what is retained has items.                                              *)
Others(state, a, at) ==
  IF a.retain THEN {EnterItem(EnterField(state, a, at), <<"Value">>)} ELSE {}

(* The states of the children (ProcessValue::process_child_values).        *)
Children(state) ==
  LET name == Head(state.ty)
      fields == IF name = "Values" THEN ValuesOf(Tail(state.ty)) ELSE Structs[name]
  IN  IF name \in {"Array", "Object"} THEN {EnterItem(state, Tail(state.ty))}
      ELSE IF name \in DOMAIN Wrapped THEN {EnterNothing(state, Wrapped[name][v]) : v \in DOMAIN Wrapped[name]}
      ELSE IF name = "Values" \/ name \in DOMAIN Structs THEN
        {EnterField(state, fields[f], <<name, f>>) : f \in DOMAIN fields \ {"other"}}
          \cup UNION {Others(state, fields[f], <<name, f>>) : f \in DOMAIN fields \cap {"other"}}
      ELSE {}

(* The values that TrimmingProcessor::process_string cuts, and that         *)
(* PiiProcessor redacts (process_string, process_native_image_path).        *)
IsTrimmed(state) == state.ty = <<"String">>
IsRedacted(state) == state.ty \in {<<"String">>, <<"NativeImagePath">>}

=============================================================================
