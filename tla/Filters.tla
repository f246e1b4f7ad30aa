-------------------------------- MODULE Filters --------------------------------
(***************************************************************************)
(* What the filters of a rule do to a request: how they get from an         *)
(* HTTPRoute into the configuration (controller/httproute.rs), what the     *)
(* pipeline and the router of the data plane make of them (pipeline.rs,     *)
(* routing.rs), and what the functions of filter.rs make of them, which     *)
(* are the ones that are tested.                                            *)
(*                                                                         *)
(* A path is a sequence of characters as in Routing.  The value of a header *)
(* is a sequence of words: a host is its labels, followed by Port if it has *)
(* a port.  Names that differ in case only are one.  An optional field is a *)
(* set of at most one value.                                                *)
(***************************************************************************)
EXTENDS Integers, Sequences, FiniteSets, SequencesExt

CONSTANTS
    HeaderNames,    \* the headers that requests may have, under one name each
    Unusable        \* values that are not header values, such as one with a newline

ASSUME HeaderNamesAssumption == IsFiniteSet(HeaderNames) /\ "host" \in HeaderNames

Port == ":port"
WithDefault(option, value) == IF option = {} THEN value ELSE CHOOSE x \in option : TRUE

\* The elements of a sequence that are in a set.
Selected(seq, S) ==
    LET upTo[i \in 0 .. Len(seq)] ==
            IF i = 0 THEN <<>>
            ELSE IF seq[i] \in S THEN Append(upTo[i - 1], seq[i]) ELSE upTo[i - 1]
    IN upTo[Len(seq)]
OfType(filters, type) == Selected(filters, {f \in ToSet(filters) : f.type = type})

-----------------------------------------------------------------------------
(* Conversion.                                                             *)

ModifierTypes == {"RequestHeaderModifier", "ResponseHeaderModifier"}
NoModifier == [add |-> {}, set |-> {}, remove |-> {}]

\* convert_filter: a modifier without its content changes nothing, any other filter
\* without its content is dropped, and so is an ExtensionRef.  Numbers are cast to u16.
ConvertFilter(f) ==
    LET content == WithDefault(f.content, NoModifier) IN
    IF f.type \in ModifierTypes
    THEN <<[type |-> f.type, add |-> WithDefault(content.add, <<>>),
            set |-> WithDefault(content.set, <<>>), remove |-> WithDefault(content.remove, <<>>)]>>
    ELSE IF f.type = "ExtensionRef" \/ f.content = {} THEN <<>>
    ELSE CASE f.type = "RequestRedirect" ->
                  <<[type |-> f.type, scheme |-> content.scheme, hostname |-> content.hostname,
                     port |-> {p % 65536 : p \in content.port}, path |-> content.path,
                     status |-> {s % 65536 : s \in content.status}]>>
           [] f.type = "URLRewrite" ->
                  <<[type |-> f.type, hostname |-> content.hostname, path |-> content.path]>>
           [] f.type = "RequestMirror" ->
                  <<[type |-> f.type, percent |-> {},
                     backend |-> [ns |-> WithDefault(content.ns, ""), name |-> content.name,
                                  port |-> WithDefault(content.port, 80) % 65536,
                                  weight |-> 1, protocol |-> "http1"]]>>

ConvertFilters(filters) == FlattenSeq([i \in DOMAIN filters |-> ConvertFilter(filters[i])])

\* parse_duration takes one number and one unit: what is compound, or in milliseconds,
\* is no duration.
Seconds == [s |-> 1, m |-> 60, h |-> 3600]
ParseDuration(d) ==
    IF Len(d) = 1 /\ d[1].unit \in DOMAIN Seconds THEN {d[1].number * Seconds[d[1].unit]} ELSE {}
ConvertTimeouts(t) ==
    [request |-> UNION {ParseDuration(d) : d \in t.request},
     backendRequest |-> UNION {ParseDuration(d) : d \in t.backendRequest}]

-----------------------------------------------------------------------------
(* Paths and redirects, in filter.rs and in routing.rs.                    *)

ReplacePrefix(original, prefix, replacement) ==
    LET remainder == SubSeq(original, Len(prefix) + 1, Len(original))
        closes == replacement # <<>> /\ Last(replacement) = "/"
        opens == remainder # <<>> /\ Head(remainder) = "/"
    IN IF closes /\ opens THEN replacement \o Tail(remainder)
       ELSE IF ~closes /\ ~opens /\ remainder # <<>> THEN replacement \o <<"/">> \o remainder
       ELSE replacement \o remainder

\* The matched prefix is never passed: it is "/".
ModifiedPath(modifier, original) ==
    IF modifier.type = "ReplaceFullPath" THEN modifier.value
    ELSE ReplacePrefix(original, <<"/">>, modifier.value)

\* compute_rewrite of filter.rs, which the pipeline calls as well.
ComputeRewrite(f, path) ==
    [hostname |-> f.hostname, path |-> {ModifiedPath(p, path) : p \in f.path}]

StandardPort(scheme, port) == <<scheme, port>> \in {<<"http", 80>>, <<"https", 443>>}

\* compute_redirect of filter.rs; a location is written without its punctuation.
ComputeRedirect(f, uri, host) ==
    LET scheme == WithDefault(f.scheme, "http") IN
    [status |-> WithDefault(f.status, 302), scheme |-> scheme,
     host |-> WithDefault(f.hostname, host),
     port |-> {p \in f.port : ~StandardPort(scheme, p)},
     path |-> WithDefault({ModifiedPath(p, uri.path) : p \in f.path}, uri.path),
     query |-> uri.query]

\* build_redirect_location: the prefix is not looked at, nor the query.
RedirectTo(f, path, host) ==
    [status |-> WithDefault(f.status, 302), scheme |-> WithDefault(f.scheme, "http"),
     host |-> WithDefault(f.hostname, IF host = <<>> THEN <<"localhost">> ELSE host),
     port |-> f.port,
     path |-> WithDefault({p.value : p \in f.path}, path),
     query |-> ""]

-----------------------------------------------------------------------------
(* Headers.                                                                *)

\* AppliedFilter: what the filters of a rule say, taken together.
Modification(filters, type) ==
    LET modifiers == OfType(filters, type) IN
    [add |-> FlattenSeq([i \in DOMAIN modifiers |-> modifiers[i].add]),
     set |-> FlattenSeq([i \in DOMAIN modifiers |-> modifiers[i].set]),
     remove |-> FlattenSeq([i \in DOMAIN modifiers |-> modifiers[i].remove])]

\* collect_filters computes every rewrite for the empty path first, and replace_prefix
\* slices past its end: the worker panics.
Panics(filters) ==
    \E i \in DOMAIN OfType(filters, "URLRewrite") :
        \E p \in OfType(filters, "URLRewrite")[i].path : p.type = "ReplacePrefixMatch"

\* recompute_rewrite: the last rewrite counts.
Rewrite(filters, path) ==
    LET rewrites == OfType(filters, "URLRewrite") IN
    IF rewrites = <<>> THEN [hostname |-> {}, path |-> {}] ELSE ComputeRewrite(Last(rewrites), path)

\* The http::HeaderMap of the pipeline: for each name the values in their order.
Insert(headers, hv) ==
    IF hv.value \in Unusable THEN headers ELSE [headers EXCEPT ![hv.name] = <<hv.value>>]
AppendValue(headers, hv) ==
    IF hv.value \in Unusable THEN headers ELSE [headers EXCEPT ![hv.name] = Append(@, hv.value)]

Removed(headers, names) ==
    [n \in DOMAIN headers |-> IF n \in ToSet(names) THEN <<>> ELSE headers[n]]
InsertAll(headers, hvs) ==
    LET upTo[i \in 0 .. Len(hvs)] == IF i = 0 THEN headers ELSE Insert(upTo[i - 1], hvs[i])
    IN upTo[Len(hvs)]
AppendAll(headers, hvs) ==
    LET upTo[i \in 0 .. Len(hvs)] == IF i = 0 THEN headers ELSE AppendValue(upTo[i - 1], hvs[i])
    IN upTo[Len(hvs)]

\* Bug: headers are added before others are set.
ModifyHeadersAddFirst(headers, m) ==
    InsertAll(AppendAll(Removed(headers, m.remove), m.add), m.set)

\* Remove, set, add: in build_upstream_request and in apply_response_filters.
ModifyHeaders(headers, m) ==
    AppendAll(InsertAll(Removed(headers, m.remove), m.set), m.add)

\* extract_request_meta: the host without its port.
MetaHost(headers) ==
    LET host == headers["host"][1] IN
    IF headers["host"] = <<>> THEN {}
    ELSE {IF host # <<>> /\ Last(host) = Port THEN Front(host) ELSE host}

\* build_upstream_request: rewrite, modify, and see that there is a host.
UpstreamRequest(filters, request) ==
    LET rewrite == Rewrite(filters, request.path)
        host == [name |-> "host", value |-> WithDefault(rewrite.hostname, <<>>)]
        rewritten == IF rewrite.hostname = {} THEN request.headers ELSE Insert(request.headers, host)
        modified == ModifyHeaders(rewritten, Modification(filters, "RequestHeaderModifier"))
    IN [path |-> WithDefault(rewrite.path, request.path),
        query |-> IF rewrite.path = {} THEN request.query ELSE "",
        headers |-> IF modified["host"] = <<>> /\ MetaHost(request.headers) # {}
                    THEN [modified EXCEPT !["host"] = <<WithDefault(MetaHost(request.headers), <<>>)>>]
                    ELSE modified]

\* apply_header_modifications of filter.rs, on a list of names and values.
SetInList(list, hv) ==
    IF \E i \in DOMAIN list : list[i].name = hv.name
    THEN [i \in DOMAIN list |-> IF list[i].name = hv.name THEN [list[i] EXCEPT !.value = hv.value]
                                                          ELSE list[i]]
    ELSE Append(list, hv)
SetAll(list, hvs) ==
    LET upTo[i \in 0 .. Len(hvs)] == IF i = 0 THEN list ELSE SetInList(upTo[i - 1], hvs[i])
    IN upTo[Len(hvs)]
Retained(list, names) == Selected(list, {h \in ToSet(list) : h.name \notin ToSet(names)})
ModifyList(list, m) == SetAll(Retained(list, m.remove), m.set) \o m.add

=============================================================================
