-------------------------------- MODULE Wire --------------------------------
(***************************************************************************)
(* What one request to DSM comes back as, of src/src/api.rs: the address   *)
(* it goes to, the answer's decoding into data or an error, and what is    *)
(* recorded of it.                                                         *)
(*                                                                         *)
(* An address is a record of its parts; an answer is                       *)
(*   [reached, status, length, form, code, data, headers]                  *)
(* where `form` is the shape of the body.  A result is [k, code, v]: data  *)
(* v, or an error of kind k.                                               *)
(***************************************************************************)
EXTENDS Naturals, Sequences, FiniteSets, SequencesExt

CONSTANTS Bits  \* the width of a network address

ASSUME WireAssumption == Bits \in Nat

Good(v) == [k |-> "ok", code |-> 0, v |-> v]
Fail(k, code) == [k |-> k, code |-> code, v |-> "none"]
IsGood(r) == r.k = "ok"
ApiCode(r) == IF r.k = "api" THEN r.code ELSE 0

(***************************************************************************)
(* The address.                                                            *)
(***************************************************************************)
normalize_base_url(url, allow_http) ==
    CASE ~ url.parses -> Fail("url", 0)
      [] url.scheme # "https" /\ ~ (allow_http /\ url.scheme = "http") -> Fail("https-required", 0)
      [] url.host = "" \/ url.credentials \/ url.query -> Fail("url", 0)
      [] OTHER -> Good(url)

load_ca_certificate(file) ==
    CASE file = "missing" -> Fail("file", 0)
      [] file = "no-block" -> Fail("message", 0)
      [] file = "malformed" -> Fail("http", 0)
      [] OTHER -> Good(file)

connection_detail(url, options) ==
    [scheme |-> IF url.scheme = "http" THEN "http" ELSE "https", host |-> url.host,
     certificates |-> IF options.accept_invalid THEN "disabled" ELSE IF options.ca # {} THEN "custom" ELSE "enabled"]

\* A bit pattern is in a network when the prefix's leading bits agree; no
\* prefix is longer than the address.
ip_network_contains(network, prefix, address) ==
    prefix <= Bits /\ (network \div 2 ^ (Bits - prefix)) = (address \div 2 ^ (Bits - prefix))

\* An entry of NO_PROXY: everything, an address, a network, or a domain,
\* which covers what is under it.  Domains and hosts are sequences of labels.
no_proxy_excludes(entries, url) ==
    \E e \in entries :
        \/ e.kind = "all"
        \/ url.address # {} /\ e.kind = "address" /\ e.at \in url.address
        \/ url.address # {} /\ e.kind = "network" /\ \E a \in url.address : ip_network_contains(e.at, e.prefix, a)
        \/ url.address = {} /\ e.kind = "domain" /\ IsSuffix(e.labels, url.labels)

redacted_proxy_url(value) == [value EXCEPT !.credentials = FALSE]

\* Of two spellings the one set first counts, and a blank one hides the other.
FirstSet(env, upper, lower) ==
    IF env[upper] # {} THEN {v \in env[upper] : ~ v.blank}
    ELSE {v \in env[lower] : ~ v.blank}

\* A CGI process trusts no proxy variable: its clients choose them.
forward_proxy_from(url, env) ==
    LET specific == IF url.scheme = "http" THEN FirstSet(env, "HTTP_PROXY", "http_proxy")
                    ELSE FirstSet(env, "HTTPS_PROXY", "https_proxy")
        any == IF specific # {} THEN specific ELSE FirstSet(env, "ALL_PROXY", "all_proxy")
    IN IF env["REQUEST_METHOD"] # {} \/ \E v \in FirstSet(env, "NO_PROXY", "no_proxy") : no_proxy_excludes(v.entries, url)
       THEN {} ELSE {redacted_proxy_url(v) : v \in any}

\* A CGI path a server names stays beneath /webapi/ of the same origin.
endpoint_url(path) ==
    IF \/ path.absolute \/ path.marks \/ path.segments = <<>>
       \/ \E i \in DOMAIN path.segments : path.segments[i] \in {"", ".", ".."}
    THEN Fail("invalid", 0)
    ELSE IF path.elsewhere THEN Fail("invalid", 0) ELSE Good(path.segments)

\* The session as headers: the id a cookie value, the token not empty.
request_headers(session) ==
    IF ~ session.sid_plain \/ session.sid_long \/ session.token \cap {"empty", "long", "odd"} # {}
    THEN Fail("invalid", 0) ELSE Good([cookie |-> TRUE, token |-> session.token # {}])

(***************************************************************************)
(* The answer.                                                             *)
(***************************************************************************)
static_status_hint(status) ==
    CASE status \in {301, 302, 303, 307, 308} -> {"redirect-refused"}
      [] status = 413 -> {"body-too-large"}
      [] status = 502 -> {"bad-gateway"}
      [] status = 504 -> {"gateway-timeout"}
      [] OTHER -> {}

\* What of the body an error says: a snippet of it, or nothing.
http_status_hint(answer) ==
    IF static_status_hint(answer.status) # {} THEN static_status_hint(answer.status)
    ELSE IF answer.length = "none" THEN {"empty"} ELSE {"snippet"}

\* Where in the body decoding stopped: a fold over its tokens keeps a stack
\* of the objects (their current key) and arrays (their index) still open.
Token(stack, token) ==
    LET top == Last(stack)
        onTop(frame) == Append(Front(stack), frame)
    IN CASE token.t = "{" -> Append(stack, [object |-> TRUE, at |-> "", expecting |-> TRUE])
         [] token.t = "[" -> Append(stack, [object |-> FALSE, at |-> 0, expecting |-> FALSE])
         [] token.t = "close" -> IF stack = <<>> THEN stack ELSE Front(stack)
         [] token.t = "text" /\ stack # <<>> /\ top.expecting -> onTop([top EXCEPT !.at = token.v, !.expecting = FALSE])
         [] token.t = "," /\ stack # <<>> ->
                onTop(IF top.object THEN [top EXCEPT !.at = "", !.expecting = TRUE] ELSE [top EXCEPT !.at = @ + 1])
         [] OTHER -> stack
Segments(stack) == SelectSeq(stack, LAMBDA f : ~ f.object \/ f.at # "")
json_member_paths(tokens) ==
    LET stack == FoldLeft(Token, <<>>, tokens)
    IN IF stack = <<>> THEN [container |-> <<>>, member |-> <<>>]
       ELSE [container |-> [i \in DOMAIN Segments(Front(stack)) |-> Segments(Front(stack))[i].at],
             member |-> [i \in DOMAIN Segments(stack) |-> Segments(stack)[i].at]]

\* The offset serde reports is just past a bracket it has already read.
decode_target_offset(tokens, at) ==
    LET end == IF at > Len(tokens) THEN Len(tokens) ELSE at
    IN IF end > 0 /\ tokens[end].t \in {"{", "[", "close"} THEN end - 1 ELSE end

classify_decode_message(message) ==
    CASE message \in {"missing", "unknown", "duplicate"} -> message
      [] message \in {"invalid-type", "invalid-value", "invalid-length"} -> "mismatch"
      [] message = "syntax" -> "syntax"
      [] message = "eof" -> "end"
      [] OTHER -> "unspecified"
found_json_kind(message, kind) ==
    IF kind = "missing" THEN "absent" ELSE IF message = "invalid-type" THEN "named" ELSE "unknown"

decode_fault(body) ==
    LET kind == classify_decode_message(body.message)
        path == json_member_paths(SubSeq(body.tokens, 1, decode_target_offset(body.tokens, body.at)))
    IN [kind |-> kind, found |-> found_json_kind(body.message, kind),
        path |-> IF kind \in {"missing", "unknown", "duplicate"} 
                 THEN path.container \o (IF body.field = "" THEN <<>> ELSE <<body.field>>) ELSE path.member]

\* Only what SYNO.API.Info answers, before any login, may be quoted.
withhold_response_body(api) == api # "SYNO.API.Info"

looks_like_html(answer) == answer.form = "html"

\* What the message of an error tells of the answer.
error_message(api, answer) ==
    IF answer.status \notin 200..299
    THEN IF static_status_hint(answer.status) # {} THEN static_status_hint(answer.status)
         ELSE IF withhold_response_body(api) THEN {"withheld"} ELSE http_status_hint(answer)
    ELSE IF answer.form \in {"html", "garbled"}
    THEN {IF withhold_response_body(api) THEN "diagnosis" ELSE "snippet"}
             \cup (IF looks_like_html(answer) THEN {"route-hint"} ELSE {})
    ELSE {}

decode_response_body(answer) ==
    CASE ~ answer.status \in 200..299 -> Fail("status", answer.status)
      [] answer.form \in {"html", "garbled"} -> Fail("invalid", 0)
      [] answer.form \in {"success", "empty"} -> Good(answer.data)   \* "empty": success without data
      [] answer.form = "failure" -> Fail("api", IF answer.code = {} THEN 100 ELSE CHOOSE c \in answer.code : TRUE)

decode_response_observed(answer) ==
    CASE answer.length = "cut" -> Fail("body", 0)
      [] answer.length = "over-limit" -> Fail("invalid", 0)
      [] OTHER -> decode_response_body(answer)

classify_outcome(result) ==
    CASE result.k = "ok" -> "ok"
      [] result.k = "api" -> "dsm-error"
      [] result.k = "status" -> IF result.code \in 300..399 THEN "redirect" ELSE "http-status"
      [] result.k = "invalid" -> "decode"
      [] OTHER -> "transport"

\* One send of one form: an answer that never came is a transport error, and
\* the whole operation's deadline bounds every request of it.
remaining_control_timeout(deadline) == deadline # {0}
send_attempt(answer, deadline) ==
    IF ~ remaining_control_timeout(deadline) THEN Fail("message", 0)
    ELSE IF ~ answer.reached THEN Fail("http", 0) ELSE decode_response_observed(answer)

(***************************************************************************)
(* What is kept of the headers.                                            *)
(***************************************************************************)
DsmCookies == {"id", "smid", "stay_login", "did", "device_id", "sharing_sid"}
set_cookie_names(headers) ==
    [count |-> Len(headers.cookies), names |-> SelectSeq([i \in DOMAIN headers.cookies |-> headers.cookies[i].name], LAMBDA n : n # "")]
describe_set_cookie(cookie) ==
    IF cookie.name = "" THEN {}
    ELSE {[name |-> cookie.name, persistence |->
             IF cookie.max_age = "past" \/ (cookie.empty /\ (cookie.expires \/ cookie.max_age # "none")) THEN "deletion"
             ELSE IF cookie.expires \/ cookie.max_age # "none" THEN "persistent" ELSE "session"]}
cookie_facts(headers) == [i \in DOMAIN headers.cookies |-> describe_set_cookie(headers.cookies[i])]
cdn_marker(headers) ==
    LET Marks == << <<{"cf-ray", "cf-cache-status", "server:cloudflare"}, "cloudflare">>,
                    <<{"x-amz-cf-id", "x-amz-cf-pop", "server:cloudfront"}, "cloudfront">>,
                    <<{"x-served-by", "fastly-io-info", "server:fastly"}, "fastly">>,
                    <<{"x-akamai-transformed", "akamai-grn"}, "akamai">>,
                    <<{"x-varnish", "server:varnish"}, "varnish">>,
                    <<{"x-cache", "x-cache-hits", "x-proxy-cache"}, "other">> >>
        seen == SelectSeq(Marks, LAMBDA m : m[1] \cap headers.names # {})
    IN IF seen = <<>> THEN "none" ELSE Head(seen)[2]
foreign_cookie_count(headers) ==
    Cardinality({i \in DOMAIN headers.cookies : headers.cookies[i].name \notin DsmCookies \cup {""}})
intermediary_facts(headers) ==
    [banners |-> headers.names \cap {"via", "server", "x-powered-by"},
     relayed |-> headers.names \cap {"x-forwarded-for", "forwarded", "x-real-ip", "x-client-ip"} # {},
     cdn |-> cdn_marker(headers), foreign |-> foreign_cookie_count(headers)]
record_response_headers(answer) ==
    [status |-> answer.status, cookies |-> set_cookie_names(answer.headers), facts |-> cookie_facts(answer.headers),
     intermediary |-> intermediary_facts(answer.headers), redirect |-> answer.headers.location]

\* The record of one call: its headers, what came of it, and where decoding
\* stopped, never anything of the body itself but for SYNO.API.Info.
apply_response_facts(api, answer) ==
    IF ~ answer.reached THEN [seen |-> FALSE]
    ELSE [seen |-> TRUE, facts |-> record_response_headers(answer), told |-> error_message(api, answer),
          fault |-> IF answer.status \in 200..299 /\ answer.length = "exact" /\ answer.form \in {"html", "garbled"}
                    THEN {decode_fault(answer.body)} ELSE {}]

(***************************************************************************)
(* What an error means for a path.                                         *)
(***************************************************************************)
is_per_path_refusal_code(code) == code \in {105, 400, 407, 414, 418, 1100, 1101, 1802, 1804}

\* A folder creation failure says inside why; `inner` is that code, if any.
classify_path_refusal(r, inner) ==
    IF r.k = "api" /\ r.code = 1100
    THEN IF inner \cap {411, 415, 416} # {} THEN r
         ELSE IF inner \cap {105, 407, 400, 412, 413, 414, 418} # {} THEN Fail("refused", CHOOSE c \in inner : TRUE)
         ELSE Fail("refused", 1100)
    ELSE IF r.k = "api" /\ is_per_path_refusal_code(r.code) THEN Fail("refused", r.code) ELSE r

\* 105 is about the path only while the session is known to be good.
path_refusal(r, inner, sessionGood) ==
    IF ApiCode(r) = 105 /\ ~ sessionGood THEN r ELSE classify_path_refusal(r, inner)

retryable(r) ==
    \/ r.k \in {"http", "body"}
    \/ r.k = "status" /\ r.code \in {408, 425, 429, 502, 503, 504}
    \/ r.k = "api" /\ r.code \in (109..111) \cup {117, 118, 402}
=============================================================================
