------------------------------ MODULE SchemaProofs ------------------------------
(***************************************************************************)
(* When a value of the configuration arrives, type by type: the data plane *)
(* reads what the control plane wrote, whatever the value's fields are.    *)
(***************************************************************************)
EXTENDS Schema, TLAPS

\* A value arrives if the two copies of its type have the same fields, the data plane
\* asks for no more than what is always written, what may be missing is an option or a
\* list there as well, and the fields have values that the data plane takes.
LEMMA ArrivesWhen ==
    ASSUME NEW writes, NEW reads, NEW F, NEW value,
           value = [f \in F |-> value[f]],
           F = writes.always \cup writes.options \cup writes.lists,
           F = reads.required \cup reads.options \cup DOMAIN reads.defaults,
           reads.required \subseteq writes.always,
           writes.options \subseteq reads.options,
           \A f \in writes.lists : f \notin reads.options /\ reads.defaults[f] = <<>>,
           \A f \in DOMAIN reads.ranges : InRange(reads, f, value[f])
    PROVE  Arrives(writes, reads, value)
<1> DEFINE written == writes.always \cup {f \in writes.options : value[f] # {}}
                                    \cup {f \in writes.lists : value[f] # <<>>}
           json == [f \in written |-> value[f]]
           fields == reads.required \cup reads.options \cup DOMAIN reads.defaults
           read == [f \in fields |-> IF f \in DOMAIN json THEN json[f]
                                     ELSE IF f \in reads.options THEN {} ELSE reads.defaults[f]]
<1>1. ToJson(writes, value) = json
  BY DEF ToJson
<1>2. reads.required \subseteq DOMAIN json
  OBVIOUS
<1>3. \A f \in DOMAIN reads.ranges \cap DOMAIN json : InRange(reads, f, json[f])
  OBVIOUS
<1>4. FromJson(reads, json) = {read}
  BY <1>2, <1>3 DEF FromJson
<1>5. ASSUME NEW f \in F PROVE read[f] = value[f]
  <2>1. CASE f \in written
    BY <2>1
  <2>2. CASE f \in writes.options /\ value[f] = {} /\ f \notin written
    BY <2>2
  <2>3. CASE f \in writes.lists /\ value[f] = <<>> /\ f \notin written
    BY <2>3
  <2> QED BY <2>1, <2>2, <2>3
<1>6. read = value
  BY <1>5
<1> QED BY <1>1, <1>4, <1>6 DEF Arrives

-----------------------------------------------------------------------------
(* The types without conditions on their fields.                           *)

LEMMA ConfigArrivesWhole ==
    ASSUME NEW version, NEW gateway, NEW listeners, NEW routes
    PROVE  Arrives(WriteConfig, ReadConfig,
                   [version |-> version, gateway |-> gateway, listeners |-> listeners,
                    routes |-> routes])
<1> DEFINE v == [version |-> version, gateway |-> gateway, listeners |-> listeners, routes |-> routes]
           F == {"version", "gateway", "listeners", "routes"}
<1>1. v = [f \in F |-> v[f]]
  OBVIOUS
<1> HIDE DEF v
<1> QED BY <1>1, ArrivesWhen DEF WriteConfig, ReadConfig, Writes, Reads, NoDefaults, Anything

LEMMA RefArrivesWhole ==
    ASSUME NEW ns, NEW name
    PROVE  Arrives(WriteRef, ReadRef,
                   [ns |-> ns, name |-> name])
<1> DEFINE v == [ns |-> ns, name |-> name]
           F == {"ns", "name"}
<1>1. v = [f \in F |-> v[f]]
  OBVIOUS
<1> HIDE DEF v
<1> QED BY <1>1, ArrivesWhen
       DEF WriteRef, ReadRef, Writes, Reads, NoDefaults, Anything

LEMMA RouteArrivesWhole ==
    ASSUME NEW key, NEW hostnames, NEW attached, NEW rules
    PROVE  Arrives(WriteRoute, ReadRoute,
                   [key |-> key, hostnames |-> hostnames, attached |-> attached, rules |->
                    rules])
<1> DEFINE v == [key |-> key, hostnames |-> hostnames, attached |-> attached, rules |->
                 rules]
           F == {"key", "hostnames", "attached", "rules"}
<1>1. v = [f \in F |-> v[f]]
  OBVIOUS
<1> HIDE DEF v
<1> QED BY <1>1, ArrivesWhen
       DEF WriteRoute, ReadRoute, Writes, Reads, NoDefaults, Anything

LEMMA RuleArrivesWhole ==
    ASSUME NEW name, NEW backends, NEW timeout, NEW filters, NEW matches
    PROVE  Arrives(WriteRule, ReadRule,
                   [name |-> name, backends |-> backends, timeout |-> timeout, filters |->
                    filters, matches |-> matches])
<1> DEFINE v == [name |-> name, backends |-> backends, timeout |-> timeout, filters |->
                 filters, matches |-> matches]
           F == {"name", "backends", "timeout", "filters", "matches"}
<1>1. v = [f \in F |-> v[f]]
  OBVIOUS
<1> HIDE DEF v
<1> QED BY <1>1, ArrivesWhen
       DEF WriteRule, ReadRule, Writes, Reads, NoDefaults, Anything

LEMMA MatchArrivesWhole ==
    ASSUME NEW path, NEW method, NEW headers, NEW params
    PROVE  Arrives(WriteMatch, ReadMatch,
                   [path |-> path, method |-> method, headers |-> headers, params |->
                    params])
<1> DEFINE v == [path |-> path, method |-> method, headers |-> headers, params |-> params]
           F == {"path", "method", "headers", "params"}
<1>1. v = [f \in F |-> v[f]]
  OBVIOUS
<1> HIDE DEF v
<1> QED BY <1>1, ArrivesWhen
       DEF WriteMatch, ReadMatch, Writes, Reads, NoDefaults, Anything

LEMMA TimeoutArrivesWhole ==
    ASSUME NEW request, NEW backendRequest
    PROVE  Arrives(WriteTimeout, ReadTimeout,
                   [request |-> request, backendRequest |-> backendRequest])
<1> DEFINE v == [request |-> request, backendRequest |-> backendRequest]
           F == {"request", "backendRequest"}
<1>1. v = [f \in F |-> v[f]]
  OBVIOUS
<1> HIDE DEF v
<1> QED BY <1>1, ArrivesWhen
       DEF WriteTimeout, ReadTimeout, Writes, Reads, NoDefaults, Anything

LEMMA HeaderArrivesWhole ==
    ASSUME NEW name, NEW value
    PROVE  Arrives(WriteHeader, ReadHeader,
                   [name |-> name, value |-> value])
<1> DEFINE v == [name |-> name, value |-> value]
           F == {"name", "value"}
<1>1. v = [f \in F |-> v[f]]
  OBVIOUS
<1> HIDE DEF v
<1> QED BY <1>1, ArrivesWhen
       DEF WriteHeader, ReadHeader, Writes, Reads, NoDefaults, Anything

LEMMA InlineArrivesWhole ==
    ASSUME NEW pem, NEW hostnames
    PROVE  Arrives(WriteInline, ReadInline,
                   [pem |-> pem, hostnames |-> hostnames])
<1> DEFINE v == [pem |-> pem, hostnames |-> hostnames]
           F == {"pem", "hostnames"}
<1>1. v = [f \in F |-> v[f]]
  OBVIOUS
<1> HIDE DEF v
<1> QED BY <1>1, ArrivesWhen
       DEF WriteInline, ReadInline, Writes, Reads, NoDefaults, Anything

-----------------------------------------------------------------------------
(* The types with conditions.                                              *)

LEMMA ListenerArrivesWhole ==
    ASSUME NEW name, NEW port \in U16, NEW hostname, NEW protocol \in {"HTTP", "HTTPS"},
           NEW tls
    PROVE  Arrives(WriteListener, ReadListener,
                   [name |-> name, port |-> port, hostname |-> hostname, protocol |->
                    protocol, tls |-> tls])
<1> DEFINE v == [name |-> name, port |-> port, hostname |-> hostname, protocol |-> protocol,
                 tls |-> tls]
           F == {"name", "port", "hostname", "protocol", "tls"}
<1>1. v = [f \in F |-> v[f]]
  OBVIOUS
<1>2. v.port = port /\ v.protocol = protocol
  OBVIOUS
<1> HIDE DEF v
<1>3. /\ DOMAIN ReadListener.ranges = {"port", "protocol"}
      /\ ReadListener.ranges["port"] = U16 /\ ReadListener.ranges["protocol"] = {"HTTP", "HTTPS"}
      /\ "port" \notin ReadListener.options /\ "protocol" \notin ReadListener.options
  BY DEF ReadListener, Reads
<1>4. v["port"] = port /\ v["protocol"] = protocol
  BY <1>2
<1>5. InRange(ReadListener, "port", v["port"]) /\ InRange(ReadListener, "protocol", v["protocol"])
  BY <1>3, <1>4 DEF InRange
<1>6. \A f \in DOMAIN ReadListener.ranges : InRange(ReadListener, f, v[f])
  BY <1>3, <1>5
<1>7. /\ F = WriteListener.always \cup WriteListener.options \cup WriteListener.lists
      /\ F = ReadListener.required \cup ReadListener.options \cup DOMAIN ReadListener.defaults
      /\ ReadListener.required \subseteq WriteListener.always
      /\ WriteListener.options \subseteq ReadListener.options
      /\ WriteListener.lists = {}
  BY DEF WriteListener, ReadListener, Writes, Reads, NoDefaults
<1>8. \A f \in WriteListener.lists : f \notin ReadListener.options /\ ReadListener.defaults[f] = <<>>
  BY <1>7
<1> HIDE DEF F
<1>9. Arrives(WriteListener, ReadListener, v)
  BY <1>1, <1>6, <1>7, <1>8, ArrivesWhen
<1> QED BY <1>9 DEF v

LEMMA TlsArrivesWhole ==
    ASSUME NEW mode \in {"Terminate", "Passthrough"}, NEW certificates, NEW inline
    PROVE  Arrives(WriteTls, ReadTls,
                   [mode |-> mode, certificates |-> certificates, inline |-> inline])
<1> DEFINE v == [mode |-> mode, certificates |-> certificates, inline |-> inline]
           F == {"mode", "certificates", "inline"}
<1>1. v = [f \in F |-> v[f]]
  OBVIOUS
<1>2. v.mode = mode
  OBVIOUS
<1> HIDE DEF v
<1> QED BY <1>1, <1>2, ArrivesWhen
       DEF WriteTls, ReadTls, Writes, Reads, NoDefaults, Anything, InRange

LEMMA BackendArrivesWhole ==
    ASSUME NEW ns, NEW name, NEW port \in U16, NEW weight, NEW protocol \in {"http1",
           "h2c"}
    PROVE  Arrives(WriteBackend, ReadBackend,
                   [ns |-> ns, name |-> name, port |-> port, weight |-> weight, protocol
                    |-> protocol])
<1> DEFINE v == [ns |-> ns, name |-> name, port |-> port, weight |-> weight, protocol |->
                 protocol]
           F == {"ns", "name", "port", "weight", "protocol"}
<1>1. v = [f \in F |-> v[f]]
  OBVIOUS
<1>2. v.port = port /\ v.protocol = protocol
  OBVIOUS
<1> HIDE DEF v
<1>3. /\ DOMAIN ReadBackend.ranges = {"port", "protocol"}
      /\ ReadBackend.ranges["port"] = U16 /\ ReadBackend.ranges["protocol"] = {"http1", "h2c"}
      /\ "port" \notin ReadBackend.options /\ "protocol" \notin ReadBackend.options
  BY DEF ReadBackend, Reads
<1>4. v["port"] = port /\ v["protocol"] = protocol
  BY <1>2
<1>5. InRange(ReadBackend, "port", v["port"]) /\ InRange(ReadBackend, "protocol", v["protocol"])
  BY <1>3, <1>4 DEF InRange
<1>6. \A f \in DOMAIN ReadBackend.ranges : InRange(ReadBackend, f, v[f])
  BY <1>3, <1>5
<1>7. /\ F = WriteBackend.always \cup WriteBackend.options \cup WriteBackend.lists
      /\ F = ReadBackend.required \cup ReadBackend.options \cup DOMAIN ReadBackend.defaults
      /\ ReadBackend.required \subseteq WriteBackend.always
      /\ WriteBackend.options \subseteq ReadBackend.options
      /\ WriteBackend.lists = {}
  BY DEF WriteBackend, ReadBackend, Writes, Reads, NoDefaults
<1>8. \A f \in WriteBackend.lists : f \notin ReadBackend.options /\ ReadBackend.defaults[f] = <<>>
  BY <1>7
<1> HIDE DEF F
<1>9. Arrives(WriteBackend, ReadBackend, v)
  BY <1>1, <1>6, <1>7, <1>8, ArrivesWhen
<1> QED BY <1>9 DEF v

LEMMA PathArrivesWhole ==
    ASSUME NEW type \in {"exact", "prefix", "regex"}, NEW value
    PROVE  Arrives(WritePath, ReadPath,
                   [type |-> type, value |-> value])
<1> DEFINE v == [type |-> type, value |-> value]
           F == {"type", "value"}
<1>1. v = [f \in F |-> v[f]]
  OBVIOUS
<1>2. v.type = type
  OBVIOUS
<1> HIDE DEF v
<1> QED BY <1>1, <1>2, ArrivesWhen
       DEF WritePath, ReadPath, Writes, Reads, NoDefaults, Anything, InRange

LEMMA ModifiedPathArrivesWhole ==
    ASSUME NEW type \in {"ReplaceFullPath", "ReplacePrefixMatch"}, NEW value
    PROVE  Arrives(WritePath, ReadPathModifier,
                   [type |-> type, value |-> value])
<1> DEFINE v == [type |-> type, value |-> value]
           F == {"type", "value"}
<1>1. v = [f \in F |-> v[f]]
  OBVIOUS
<1>2. v.type = type
  OBVIOUS
<1> HIDE DEF v
<1> QED BY <1>1, <1>2, ArrivesWhen
       DEF WritePath, ReadPathModifier, Writes, Reads, NoDefaults, Anything, InRange

LEMMA ConditionArrivesWhole ==
    ASSUME NEW name, NEW type \in {"exact", "regex"}, NEW value
    PROVE  Arrives(WriteCondition, ReadCondition,
                   [name |-> name, type |-> type, value |-> value])
<1> DEFINE v == [name |-> name, type |-> type, value |-> value]
           F == {"name", "type", "value"}
<1>1. v = [f \in F |-> v[f]]
  OBVIOUS
<1>2. v.type = type
  OBVIOUS
<1> HIDE DEF v
<1> QED BY <1>1, <1>2, ArrivesWhen
       DEF WriteCondition, ReadCondition, Writes, Reads, NoDefaults, Anything, InRange

-----------------------------------------------------------------------------
(* The filters: each variant is written with its type.                     *)

LEMMA ModifierArrivesWhole ==
    ASSUME NEW type \in {"RequestHeaderModifier", "ResponseHeaderModifier"},
           NEW add, NEW set, NEW remove
    PROVE  Arrives(WriteFilter[type], ReadFilter[type],
                   [type |-> type, add |-> add, set |-> set, remove |-> remove])
<1> DEFINE v == [type |-> type, add |-> add, set |-> set, remove |-> remove]
           F == {"type", "add", "set", "remove"}
           W == Writes({"type", "add", "set", "remove"}, {}, {})
           R == Reads({"type"}, {}, [add |-> <<>>, set |-> <<>>, remove |-> <<>>], Anything)
<1>1. v = [f \in F |-> v[f]]
  OBVIOUS
<1>2. WriteFilter[type] = W /\ ReadFilter[type] = R
  BY DEF WriteFilter, ReadFilter
<1>3. /\ F = W.always \cup W.options \cup W.lists
      /\ F = R.required \cup R.options \cup DOMAIN R.defaults
      /\ R.required \subseteq W.always
      /\ W.options \subseteq R.options
      /\ W.lists = {} /\ DOMAIN R.ranges = {}
  BY DEF Writes, Reads, Anything
<1> HIDE DEF v, F, W, R
<1>4. Arrives(W, R, v)
  BY <1>1, <1>3, ArrivesWhen
<1> QED BY <1>2, <1>4 DEF v

LEMMA RedirectArrivesWhole ==
    ASSUME NEW scheme, NEW hostname, NEW port \in SUBSET U16, NEW path, NEW status \in SUBSET U16
    PROVE  Arrives(WriteFilter["RequestRedirect"], ReadFilter["RequestRedirect"],
                   [type |-> "RequestRedirect", scheme |-> scheme, hostname |-> hostname,
                    port |-> port, path |-> path, status |-> status])
<1> DEFINE v == [type |-> "RequestRedirect", scheme |-> scheme, hostname |-> hostname,
                 port |-> port, path |-> path, status |-> status]
           options == {"scheme", "hostname", "port", "path", "status"}
           F == {"type"} \cup options
           W == Writes({"type"}, options, {})
           R == Reads({"type"}, options, NoDefaults, [port |-> U16, status |-> U16])
<1>1. v = [f \in F |-> v[f]]
  OBVIOUS
<1>2. WriteFilter["RequestRedirect"] = W /\ ReadFilter["RequestRedirect"] = R
  BY DEF WriteFilter, ReadFilter
<1>3. /\ F = W.always \cup W.options \cup W.lists
      /\ F = R.required \cup R.options \cup DOMAIN R.defaults
      /\ R.required \subseteq W.always
      /\ W.options \subseteq R.options
      /\ W.lists = {}
  BY DEF Writes, Reads, NoDefaults
<1>4. /\ DOMAIN R.ranges = {"port", "status"} /\ "port" \in R.options /\ "status" \in R.options
      /\ R.ranges["port"] = U16 /\ R.ranges["status"] = U16
  BY DEF Reads
<1>5. v["port"] = port /\ v["status"] = status
  OBVIOUS
<1> HIDE DEF v, F, W, R
<1>6. InRange(R, "port", v["port"]) /\ InRange(R, "status", v["status"])
  BY <1>4, <1>5 DEF InRange
<1>7. \A f \in DOMAIN R.ranges : InRange(R, f, v[f])
  BY <1>4, <1>6
<1>8. Arrives(W, R, v)
  BY <1>1, <1>3, <1>7, ArrivesWhen
<1> QED BY <1>2, <1>8 DEF v

LEMMA RewriteArrivesWhole ==
    ASSUME NEW hostname, NEW path
    PROVE  Arrives(WriteFilter["URLRewrite"], ReadFilter["URLRewrite"],
                   [type |-> "URLRewrite", hostname |-> hostname, path |-> path])
<1> DEFINE v == [type |-> "URLRewrite", hostname |-> hostname, path |-> path]
           F == {"type", "hostname", "path"}
           W == Writes({"type"}, {"hostname", "path"}, {})
           R == Reads({"type"}, {"hostname", "path"}, NoDefaults, Anything)
<1>1. v = [f \in F |-> v[f]]
  OBVIOUS
<1>2. WriteFilter["URLRewrite"] = W /\ ReadFilter["URLRewrite"] = R
  BY DEF WriteFilter, ReadFilter
<1>3. /\ F = W.always \cup W.options \cup W.lists
      /\ F = R.required \cup R.options \cup DOMAIN R.defaults
      /\ R.required \subseteq W.always
      /\ W.options \subseteq R.options
      /\ W.lists = {} /\ DOMAIN R.ranges = {}
  BY DEF Writes, Reads, NoDefaults, Anything
<1> HIDE DEF v, F, W, R
<1>4. Arrives(W, R, v)
  BY <1>1, <1>3, ArrivesWhen
<1> QED BY <1>2, <1>4 DEF v

LEMMA MirrorArrivesWhole ==
    ASSUME NEW percent, NEW backend
    PROVE  Arrives(WriteFilter["RequestMirror"], ReadFilter["RequestMirror"],
                   [type |-> "RequestMirror", percent |-> percent, backend |-> backend])
<1> DEFINE v == [type |-> "RequestMirror", percent |-> percent, backend |-> backend]
           F == {"type", "backend", "percent"}
           W == Writes({"type", "backend"}, {"percent"}, {})
           R == Reads({"type", "backend"}, {"percent"}, NoDefaults, Anything)
<1>1. v = [f \in F |-> v[f]]
  OBVIOUS
<1>2. WriteFilter["RequestMirror"] = W /\ ReadFilter["RequestMirror"] = R
  BY DEF WriteFilter, ReadFilter
<1>3. /\ F = W.always \cup W.options \cup W.lists
      /\ F = R.required \cup R.options \cup DOMAIN R.defaults
      /\ R.required \subseteq W.always
      /\ W.options \subseteq R.options
      /\ W.lists = {} /\ DOMAIN R.ranges = {}
  BY DEF Writes, Reads, NoDefaults, Anything
<1> HIDE DEF v, F, W, R
<1>4. Arrives(W, R, v)
  BY <1>1, <1>3, ArrivesWhen
<1> QED BY <1>2, <1>4 DEF v
=============================================================================
