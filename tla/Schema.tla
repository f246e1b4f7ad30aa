--------------------------------- MODULE Schema ---------------------------------
(***************************************************************************)
(* The configuration on its way through the ConfigMap.  The control plane  *)
(* writes the types of its controller/config.rs as JSON, the data plane    *)
(* reads the JSON as the types of proxy-core's config.rs: two copies of    *)
(* one schema, kept alike by hand.                                         *)
(*                                                                         *)
(* A type is its fields.  The value of an optional field is a set of at    *)
(* most one value, a list is a sequence.  A type is written and read field *)
(* by field, so that a configuration arrives if each of its parts does.    *)
(***************************************************************************)
EXTENDS Integers, Sequences

U16 == 0 .. 65535

\* The fields of a type that are written in any case, the options that are not written
\* without a value, and the lists that are not written when they are empty.
Writes(always, options, lists) == [always |-> always, options |-> options, lists |-> lists]

\* The fields that have to be there, the options, what is taken for others that are
\* missing, and the values that a field can have.
Reads(required, options, defaults, ranges) ==
    [required |-> required, options |-> options, defaults |-> defaults, ranges |-> ranges]
NoDefaults == [f \in {} |-> <<>>]
Anything == [f \in {} |-> {}]

ToJson(type, value) ==
    LET written == type.always \cup {f \in type.options : value[f] # {}}
                               \cup {f \in type.lists : value[f] # <<>>}
    IN [f \in written |-> value[f]]

InRange(type, f, x) == IF f \in type.options THEN x \subseteq type.ranges[f] ELSE x \in type.ranges[f]

\* A field that the type does not have is ignored; {} is an error.
FromJson(type, json) ==
    IF /\ type.required \subseteq DOMAIN json
       /\ \A f \in DOMAIN type.ranges \cap DOMAIN json : InRange(type, f, json[f])
    THEN {[f \in type.required \cup type.options \cup DOMAIN type.defaults |->
              IF f \in DOMAIN json THEN json[f]
              ELSE IF f \in type.options THEN {} ELSE type.defaults[f]]}
    ELSE {}

-----------------------------------------------------------------------------
(* What the control plane writes.  Rust's names are shortened as in the    *)
(* modules that make the values.                                           *)

WriteConfig == Writes({"version", "gateway", "listeners", "routes"}, {}, {})
WriteRef == Writes({"ns", "name"}, {}, {})
WriteListener == Writes({"name", "port", "protocol"}, {"hostname", "tls"}, {})
WriteTls == Writes({"mode", "certificates"}, {}, {"inline"})
WriteInline == Writes({"pem"}, {}, {"hostnames"})
WriteRoute == Writes({"key", "hostnames", "attached", "rules"}, {}, {})
WriteRule == Writes({"matches", "filters", "backends"}, {"name", "timeout"}, {})
WriteMatch == Writes({}, {"path", "method"}, {"headers", "params"})
WritePath == Writes({"type", "value"}, {}, {})
WriteCondition == Writes({"name", "type", "value"}, {}, {})
WriteFilter ==
    LET modifier == Writes({"type", "add", "set", "remove"}, {}, {}) IN
    [RequestHeaderModifier |-> modifier, ResponseHeaderModifier |-> modifier,
     RequestRedirect |-> Writes({"type"}, {"scheme", "hostname", "port", "path", "status"}, {}),
     URLRewrite |-> Writes({"type"}, {"hostname", "path"}, {}),
     RequestMirror |-> Writes({"type", "backend"}, {"percent"}, {})]
WriteHeader == Writes({"name", "value"}, {}, {})
WriteBackend == Writes({"ns", "name", "port", "weight", "protocol"}, {}, {})
WriteTimeout == Writes({}, {"request", "backendRequest"}, {})

-----------------------------------------------------------------------------
(* What the data plane reads.                                              *)

ReadConfig == Reads({"version", "gateway", "listeners", "routes"}, {}, NoDefaults, Anything)
ReadRef == Reads({"ns", "name"}, {}, NoDefaults, Anything)
ReadListener == Reads({"name", "port", "protocol"}, {"hostname", "tls"}, NoDefaults,
                      [port |-> U16, protocol |-> {"HTTP", "HTTPS"}])
ReadTls == Reads({"mode", "certificates"}, {}, [inline |-> <<>>],
                 [mode |-> {"Terminate", "Passthrough"}])
ReadInline == Reads({"pem"}, {}, [hostnames |-> <<>>], Anything)
ReadRoute == Reads({"key", "rules"}, {}, [hostnames |-> {}, attached |-> {}], Anything)
ReadRule == Reads({}, {"name", "timeout"},
                  [matches |-> <<>>, filters |-> <<>>, backends |-> <<>>], Anything)
\* Bug: the list of headers has no default.
ReadMatchNoDefault == Reads({"headers"}, {"path", "method"}, [params |-> <<>>], Anything)

ReadMatch == Reads({}, {"path", "method"}, [headers |-> <<>>, params |-> <<>>], Anything)
ReadPath == Reads({"type", "value"}, {}, NoDefaults, [type |-> {"exact", "prefix", "regex"}])
ReadCondition == Reads({"name", "type", "value"}, {}, NoDefaults, [type |-> {"exact", "regex"}])
ReadFilter ==
    LET modifier == Reads({"type"}, {}, [add |-> <<>>, set |-> <<>>, remove |-> <<>>], Anything) IN
    [RequestHeaderModifier |-> modifier, ResponseHeaderModifier |-> modifier,
     RequestRedirect |-> Reads({"type"}, {"scheme", "hostname", "port", "path", "status"},
                               NoDefaults, [port |-> U16, status |-> U16]),
     URLRewrite |-> Reads({"type"}, {"hostname", "path"}, NoDefaults, Anything),
     RequestMirror |-> Reads({"type", "backend"}, {"percent"}, NoDefaults, Anything)]
ReadPathModifier == Reads({"type", "value"}, {}, NoDefaults,
                          [type |-> {"ReplaceFullPath", "ReplacePrefixMatch"}])
ReadHeader == Reads({"name", "value"}, {}, NoDefaults, Anything)
ReadBackend == Reads({"ns", "name", "port"}, {}, [weight |-> 1, protocol |-> "http1"],
                     [port |-> U16, protocol |-> {"http1", "h2c"}])
ReadTimeout == Reads({}, {"request", "backendRequest"}, NoDefaults, Anything)

-----------------------------------------------------------------------------
(* A value arrives if the data plane has it as the control plane had it.   *)

Arrives(writes, reads, value) == FromJson(reads, ToJson(writes, value)) = {value}
AllArrive(writes, reads, values) == \A i \in DOMAIN values : Arrives(writes, reads, values[i])

FilterArrives(f) ==
    /\ Arrives(WriteFilter[f.type], ReadFilter[f.type], f)
    /\ f.type \in {"RequestHeaderModifier", "ResponseHeaderModifier"} =>
           AllArrive(WriteHeader, ReadHeader, f.add \o f.set)
    /\ f.type \in {"RequestRedirect", "URLRewrite"} =>
           \A p \in f.path : Arrives(WritePath, ReadPathModifier, p)
    /\ f.type = "RequestMirror" => Arrives(WriteBackend, ReadBackend, f.backend)

MatchArrives(m) ==
    /\ Arrives(WriteMatch, ReadMatch, m)
    /\ \A p \in m.path : Arrives(WritePath, ReadPath, p)
    /\ AllArrive(WriteCondition, ReadCondition, m.headers \o m.params)

RuleArrives(rule) ==
    /\ Arrives(WriteRule, ReadRule, rule)
    /\ \A i \in DOMAIN rule.matches : MatchArrives(rule.matches[i])
    /\ \A i \in DOMAIN rule.filters : FilterArrives(rule.filters[i])
    /\ AllArrive(WriteBackend, ReadBackend, rule.backends)
    /\ \A t \in rule.timeout : Arrives(WriteTimeout, ReadTimeout, t)

ListenerArrives(l) ==
    /\ Arrives(WriteListener, ReadListener, l)
    /\ \A tls \in l.tls : /\ Arrives(WriteTls, ReadTls, tls)
                          /\ AllArrive(WriteRef, ReadRef, tls.certificates)
                          /\ AllArrive(WriteInline, ReadInline, tls.inline)

=============================================================================
