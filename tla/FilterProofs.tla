----------------------------- MODULE FilterProofs -----------------------------
(***************************************************************************)
(* Theorems about Filters: that ConvertFilters makes filters of the types  *)
(* of RouteConfig, and FiltersAsTested, for every filter, request and      *)
(* replacement.                                                            *)
(*                                                                         *)
(* The recursive functions of Filters are folds of DataLemmas.  By them    *)
(* both implementations of modified headers have one closed form for each  *)
(* name: the values that are added, after the last that is set or, if none *)
(* is, after what is left.  Paths are compared by how Elements builds them *)
(* up: the elements of a path after another come after that one's.         *)
(***************************************************************************)
EXTENDS RoutingProofs, FiniteSetTheorems

-----------------------------------------------------------------------------
(* What the control plane makes of filters is of the type that is written. *)

\* Lists of lists, one after the other.
LEMMA FlattenIs ==
    ASSUME NEW S, NEW seqs \in Seq(Seq(S))
    PROVE  \E g \in [0 .. Len(seqs) -> Seq(S)] :
               /\ g[0] = <<>> /\ \A n \in 1 .. Len(seqs) : g[n] = g[n - 1] \o seqs[n]
               /\ g[Len(seqs)] = FlattenSeq(seqs)
<1> DEFINE N == Len(seqs)
           V == Seq(S)
           empty == <<>>
           step == [n \in 1 .. N |-> [x \in V |-> x \o seqs[n]]]
           Goes(f) == [i \in 1 .. N |-> IF i = 1 THEN seqs[i] ELSE f[i - 1] \o seqs[i]]
           flatten == CHOOSE f : f = Goes(f)
<1>1. N \in Nat /\ \A n \in 1 .. N : seqs[n] \in V
  BY LenProperties, ElementOfSeq
<1>2. empty \in V /\ \A x \in V : empty \o x = x
  BY EmptySeq, ConcatEmptySeq
<1>3. \A x, y \in V : x \o y \in V
  BY ConcatProperties
<1>4. FlattenSeq(seqs) = IF N = 0 THEN empty ELSE flatten[N]
  <2>1. N = 0 => seqs = <<>>
    OBVIOUS
  <2> QED BY <2>1 DEF FlattenSeq
<1> HIDE DEF N, V, empty, flatten
<1>5. step \in [1 .. N -> [V -> V]]
  BY <1>1, <1>3
<1>6. PICK g \in [0 .. N -> V] : g[0] = empty /\ \A n \in 1 .. N : g[n] = step[n][g[n - 1]]
  <2>0. empty \in V /\ N \in Nat /\ step \in [1 .. N -> [V -> V]]
    BY <1>1, <1>2, <1>5
  <2> HIDE DEF step
  <2>1. \E g \in [0 .. N -> V] : g[0] = empty /\ \A n \in 1 .. N : g[n] = step[n][g[n - 1]]
    BY <2>0, Recursive, SMTT(60)
  <2> QED BY <2>1
<1>7. \A n \in 1 .. N : g[n] = g[n - 1] \o seqs[n]
  <2> SUFFICES ASSUME NEW n \in 1 .. N PROVE g[n] = g[n - 1] \o seqs[n]
    OBVIOUS
  <2>1. g[n - 1] \in V
    BY <1>1
  <2>2. step[n][g[n - 1]] = g[n - 1] \o seqs[n]
    BY <2>1
  <2> HIDE DEF step
  <2> QED BY <1>6, <2>2
<1> DEFINE h == [i \in 1 .. N |-> g[i]]
<1>8. h = Goes(h)
  <2>1. ASSUME NEW i \in 1 .. N PROVE h[i] = Goes(h)[i]
    <3>1. CASE i = 1
      <4>0. 1 \in 1 .. N /\ 1 - 1 = 0
        BY <1>1, <3>1
      <4>1. g[1] = g[1 - 1] \o seqs[1]
        BY <1>7, <4>0
      <4>2. g[1] = empty \o seqs[1] /\ seqs[1] \in V
        BY <1>1, <1>6, <4>0, <4>1
      <4>3. g[1] = seqs[1]
        BY <1>2, <4>2
      <4> QED BY <3>1, <4>3
    <3>2. CASE i # 1
      <4>1. i - 1 \in 1 .. N
        BY <1>1, <3>2
      <4> QED BY <1>7, <3>2, <4>1
    <3> QED BY <3>1, <3>2
  <2>2. h = [i \in 1 .. N |-> h[i]] /\ Goes(h) = [i \in 1 .. N |-> Goes(h)[i]]
    OBVIOUS
  <2> HIDE DEF h, Goes
  <2> QED BY <2>1, <2>2
<1>9. flatten = Goes(flatten)
  <2> HIDE DEF Goes, h
  <2> QED BY <1>8 DEF flatten
<1> DEFINE T == {n \in 0 .. N : n # 0 => flatten[n] = g[n]}
<1>10. 0 \in T
  BY <1>1
<1>11. ASSUME NEW n \in 0 .. N - 1, n \in T PROVE n + 1 \in T
  <2>1. n + 1 \in 1 .. N /\ n + 1 \in 0 .. N /\ n + 1 - 1 = n /\ n \in Nat
    BY <1>1
  <2>2. flatten[n + 1] = IF n + 1 = 1 THEN seqs[n + 1] ELSE flatten[n + 1 - 1] \o seqs[n + 1]
    <3>1. flatten[n + 1] = Goes(flatten)[n + 1]
      BY <1>9
    <3>2. Goes(flatten)[n + 1] = IF n + 1 = 1 THEN seqs[n + 1] ELSE flatten[n + 1 - 1] \o seqs[n + 1]
      BY <2>1
    <3> HIDE DEF Goes
    <3> QED BY <3>1, <3>2
  <2>3. g[n + 1] = IF n + 1 = 1 THEN seqs[n + 1] ELSE g[n + 1 - 1] \o seqs[n + 1]
    <3>1. h[n + 1] = Goes(h)[n + 1]
      BY <1>8
    <3>2. Goes(h)[n + 1] = IF n + 1 = 1 THEN seqs[n + 1] ELSE h[n + 1 - 1] \o seqs[n + 1]
      BY <2>1
    <3>3. h[n + 1] = g[n + 1] /\ (n + 1 # 1 => h[n + 1 - 1] = g[n + 1 - 1])
      <4>1. n + 1 # 1 => n + 1 - 1 \in 1 .. N
        BY <1>1, <2>1
      <4> HIDE DEF Goes
      <4> QED BY <2>1, <4>1
    <3> HIDE DEF Goes, h
    <3> QED BY <3>1, <3>2, <3>3
  <2>4. n + 1 = 1 \/ flatten[n + 1 - 1] = g[n + 1 - 1]
    BY <1>11, <2>1
  <2>5. flatten[n + 1] = g[n + 1]
    <3> HIDE DEF Goes, h
    <3> QED BY <2>2, <2>3, <2>4
  <2> HIDE DEF Goes, h
  <2> QED BY <2>1, <2>5
<1>12. 0 .. N \subseteq T
  <2>1. N \in Nat /\ 0 \in T /\ \A n \in 0 .. N - 1 : n \in T => n + 1 \in T
    BY <1>1, <1>10, <1>11
  <2> HIDE DEF T
  <2> QED BY <2>1, UpTo
<1>13. g[N] = FlattenSeq(seqs)
  <2>1. N \in 0 .. N /\ (N # 0 => flatten[N] = g[N])
    BY <1>1, <1>12
  <2> HIDE DEF Goes, h, T
  <2> QED BY <1>4, <1>6, <2>1
<1> HIDE DEF step
<1> QED BY <1>6, <1>7, <1>13 DEF N, V, empty

LEMMA FlattenType ==
    ASSUME NEW S, NEW seqs \in Seq(Seq(S)) PROVE FlattenSeq(seqs) \in Seq(S)
<1>1. PICK g \in [0 .. Len(seqs) -> Seq(S)] : g[Len(seqs)] = FlattenSeq(seqs)
  BY FlattenIs
<1>2. Len(seqs) \in 0 .. Len(seqs)
  BY LenProperties
<1> QED BY <1>1, <1>2

LEMMA WithDefaultIn ==
    ASSUME NEW S, NEW option \in AtMostOneOf(S), NEW value \in S
    PROVE  WithDefault(option, value) \in S
  BY DEF WithDefault, AtMostOneOf

\* What a cast to u16 leaves.
LEMMA CastInRange == ASSUME NEW n \in Int PROVE n % 65536 \in U16
  BY SMTT(30) DEF U16

LEMMA CastOptions ==
    ASSUME NEW option \in AtMostOneOf(Int)
    PROVE  {n % 65536 : n \in option} \in AtMostOneOf(U16)
<1> DEFINE Cast(n) == n % 65536
<1>1. \A n \in Int : Cast(n) \in U16
  BY CastInRange
<1> HIDE DEF Cast
<1>2. {Cast(n) : n \in option} \in AtMostOneOf(U16)
  BY <1>1 DEF AtMostOneOf
<1> QED BY <1>2 DEF Cast

LEMMA ContentIs ==
    ASSUME NEW S, NEW option \in AtMostOneOf(S), option # {}, NEW value
    PROVE  WithDefault(option, value) \in S
  BY DEF WithDefault, AtMostOneOf

LEMMA ConvertFilterType ==
    ASSUME NEW f \in SpecFilter PROVE ConvertFilter(f) \in Seq(RouteFilter)
<1> DEFINE content == WithDefault(f.content, NoModifier)
           Modifier == [type |-> f.type, add |-> WithDefault(content.add, <<>>),
                        set |-> WithDefault(content.set, <<>>),
                        remove |-> WithDefault(content.remove, <<>>)]
           Redirect == [type |-> f.type, scheme |-> content.scheme, hostname |-> content.hostname,
                        port |-> {p % 65536 : p \in content.port}, path |-> content.path,
                        status |-> {s % 65536 : s \in content.status}]
           URLRewrite == [type |-> f.type, hostname |-> content.hostname, path |-> content.path]
           Mirror == [type |-> f.type, percent |-> {},
                      backend |-> [ns |-> WithDefault(content.ns, ""), name |-> content.name,
                                   port |-> WithDefault(content.port, 80) % 65536,
                                   weight |-> 1, protocol |-> "http1"]]
<1>0. ConvertFilter(f) =
          IF f.type \in ModifierTypes THEN <<Modifier>>
          ELSE IF f.type = "ExtensionRef" \/ f.content = {} THEN <<>>
          ELSE CASE f.type = "RequestRedirect" -> <<Redirect>>
                 [] f.type = "URLRewrite" -> <<URLRewrite>>
                 [] f.type = "RequestMirror" -> <<Mirror>>
  BY DEF ConvertFilter
<1> HIDE DEF Modifier, Redirect, URLRewrite, Mirror
<1>1. CASE f \in [type : ModifierTypes, content : AtMostOneOf(Modifications)]
  <2>1. f.type \in ModifierTypes /\ f.content \in AtMostOneOf(Modifications)
    BY <1>1
  <2>2. NoModifier \in Modifications
    BY DEF NoModifier, Modifications, AtMostOneOf
  <2>3. content \in Modifications
    BY <2>1, <2>2, WithDefaultIn
  <2> HIDE DEF content
  <2> DEFINE add == WithDefault(content.add, <<>>)
             set == WithDefault(content.set, <<>>)
             remove == WithDefault(content.remove, <<>>)
             r == [type |-> f.type, add |-> add, set |-> set, remove |-> remove]
  <2>4. /\ content.add \in AtMostOneOf(Seq(HeaderValue))
        /\ content.set \in AtMostOneOf(Seq(HeaderValue))
        /\ content.remove \in AtMostOneOf(Seq(Texts))
    BY <2>3 DEF Modifications
  <2>5. add \in Seq(HeaderValue) /\ set \in Seq(HeaderValue) /\ remove \in Seq(Texts)
    <3>1. <<>> \in Seq(HeaderValue) /\ <<>> \in Seq(Texts)
      BY EmptySeq
    <3> QED BY <2>4, <3>1, WithDefaultIn
  <2>6. ConvertFilter(f) = <<r>>
    BY <1>0, <2>1 DEF Modifier
  <2> HIDE DEF add, set, remove
  <2>7. r \in RouteFilter
    BY <2>1, <2>5 DEF RouteFilter
  <2> HIDE DEF r
  <2> QED BY <2>6, <2>7
<1>2. CASE f \in [type : {"RequestRedirect"}, content : AtMostOneOf(Redirection)]
  <2>1. f.type = "RequestRedirect" /\ f.content \in AtMostOneOf(Redirection)
    BY <1>2
  <2>2. f.type \notin ModifierTypes /\ f.type # "ExtensionRef"
    BY <2>1 DEF ModifierTypes
  <2>3. CASE f.content = {}
    <3>1. ConvertFilter(f) = <<>>
      BY <1>0, <2>2, <2>3
    <3> QED BY <3>1, EmptySeq
  <2>4. CASE f.content # {}
    <3>1. content \in Redirection
      BY <2>1, <2>4, ContentIs
    <3> HIDE DEF content
    <3> DEFINE port == {p % 65536 : p \in content.port}
               status == {s % 65536 : s \in content.status}
               r == [type |-> "RequestRedirect", scheme |-> content.scheme,
                     hostname |-> content.hostname, port |-> port, path |-> content.path,
                     status |-> status]
    <3>2. ConvertFilter(f) = <<r>>
      <4>1. ConvertFilter(f) = <<Redirect>>
        BY <1>0, <2>1, <2>2, <2>4
      <4>2. Redirect = r
        BY <2>1 DEF Redirect
      <4> QED BY <4>1, <4>2
    <3>3. port \in AtMostOneOf(U16) /\ status \in AtMostOneOf(U16)
      BY <3>1, CastOptions DEF Redirection
    <3> HIDE DEF port, status
    <3>4. r \in RouteFilter
      BY <3>1, <3>3 DEF Redirection, RouteFilter
    <3> HIDE DEF r
    <3> QED BY <3>2, <3>4
  <2> QED BY <2>3, <2>4
<1>3. CASE f \in [type : {"URLRewrite"}, content : AtMostOneOf(Rewriting)]
  <2>1. f.type = "URLRewrite" /\ f.content \in AtMostOneOf(Rewriting)
    BY <1>3
  <2>2. f.type \notin ModifierTypes /\ f.type # "ExtensionRef"
    BY <2>1 DEF ModifierTypes
  <2>3. CASE f.content = {}
    <3>1. ConvertFilter(f) = <<>>
      BY <1>0, <2>2, <2>3
    <3> QED BY <3>1, EmptySeq
  <2>4. CASE f.content # {}
    <3>1. content \in Rewriting
      BY <2>1, <2>4, ContentIs
    <3> HIDE DEF content
    <3> DEFINE r == [type |-> "URLRewrite", hostname |-> content.hostname, path |-> content.path]
    <3>2. ConvertFilter(f) = <<r>>
      <4>1. ConvertFilter(f) = <<URLRewrite>>
        BY <1>0, <2>1, <2>2, <2>4
      <4>2. URLRewrite = r
        BY <2>1 DEF URLRewrite
      <4> QED BY <4>1, <4>2
    <3>3. r \in RouteFilter
      BY <3>1 DEF Rewriting, RouteFilter
    <3> HIDE DEF r
    <3> QED BY <3>2, <3>3
  <2> QED BY <2>3, <2>4
<1>4. CASE f \in [type : {"RequestMirror"}, content : AtMostOneOf(Mirrored)]
  <2>1. f.type = "RequestMirror" /\ f.content \in AtMostOneOf(Mirrored)
    BY <1>4
  <2>2. f.type \notin ModifierTypes /\ f.type # "ExtensionRef"
    BY <2>1 DEF ModifierTypes
  <2>3. CASE f.content = {}
    <3>1. ConvertFilter(f) = <<>>
      BY <1>0, <2>2, <2>3
    <3> QED BY <3>1, EmptySeq
  <2>4. CASE f.content # {}
    <3>1. content \in Mirrored
      BY <2>1, <2>4, ContentIs
    <3> HIDE DEF content
    <3> DEFINE ns == WithDefault(content.ns, "")
               port == WithDefault(content.port, 80) % 65536
               backend == [ns |-> ns, name |-> content.name, port |-> port, weight |-> 1,
                           protocol |-> "http1"]
               r == [type |-> "RequestMirror", percent |-> {}, backend |-> backend]
    <3>2. ConvertFilter(f) = <<r>>
      <4>1. ConvertFilter(f) = <<Mirror>>
        BY <1>0, <2>1, <2>2, <2>4
      <4>2. Mirror = r
        BY <2>1 DEF Mirror
      <4> HIDE DEF r
      <4> QED BY <4>1, <4>2
    <3>3. content.ns \in AtMostOneOf(Texts) /\ content.name \in Texts /\ content.port \in AtMostOneOf(Int)
      BY <3>1 DEF Mirrored
    <3>4. port \in U16
      <4>1. content.port \in AtMostOneOf(Int) /\ 80 \in Int
        BY <3>3
      <4>2. WithDefault(content.port, 80) \in Int
        BY <4>1, WithDefaultIn
      <4> QED BY <4>2, CastInRange
    <3>5. ns \in Texts
      <4>1. "" \in Texts
        BY RouteConfigAssumption
      <4> QED BY <3>3, <4>1, WithDefaultIn
    <3> HIDE DEF port, ns
    <3>6. backend \in BackendRef
      BY <3>3, <3>4, <3>5 DEF BackendRef
    <3>7. {} \in AtMostOneOf(Nat)
      BY DEF AtMostOneOf
    <3> HIDE DEF backend
    <3>8. r \in RouteFilter
      BY <3>6, <3>7 DEF RouteFilter
    <3> HIDE DEF r
    <3> QED BY <3>2, <3>8
  <2> QED BY <2>3, <2>4
<1>5. CASE f \in [type : {"ExtensionRef"}, content : AtMostOneOf(Texts)]
  <2>1. f.type = "ExtensionRef" /\ f.type \notin ModifierTypes
    BY <1>5 DEF ModifierTypes
  <2>2. ConvertFilter(f) = <<>>
    BY <1>0, <2>1
  <2> QED BY <2>2, EmptySeq
<1> QED BY <1>1, <1>2, <1>3, <1>4, <1>5 DEF SpecFilter

\* Whatever filters an HTTPRoute has, and whatever they leave out, ConvertFilters makes
\* filters of them that have the types of the configuration, so that RoutesArrive is
\* about them: no number is too large to be read (httproute.rs 286-424).
THEOREM FiltersAreTyped ==
    ASSUME NEW filters \in Seq(SpecFilter) PROVE ConvertFilters(filters) \in Seq(RouteFilter)
<1> DEFINE converted == [i \in DOMAIN filters |-> ConvertFilter(filters[i])]
<1>1. \A i \in 1 .. Len(filters) : ConvertFilter(filters[i]) \in Seq(RouteFilter)
  BY LenProperties, ElementOfSeq, ConvertFilterType
<1>2. Len(filters) \in Nat /\ DOMAIN filters = 1 .. Len(filters)
  BY LenProperties
<1>3. converted \in [1 .. Len(filters) -> Seq(RouteFilter)]
  BY <1>1, <1>2
<1> HIDE DEF converted
<1>4. converted \in Seq(Seq(RouteFilter))
  BY <1>2, <1>3
<1>5. FlattenSeq(converted) \in Seq(RouteFilter)
  BY <1>4, FlattenType
<1> QED BY <1>5 DEF ConvertFilters, converted

-----------------------------------------------------------------------------
(* What Filters defines by recursion over a list is a fold.                *)

HeaderMap(W) == [HeaderNames -> Seq(W)]
NamedValue(M, W) == [name : M, value : W]

\* What the operators do with an element of the list.
SelectOne(S, chosen) ==
    [list \in Seq(S) |-> [x \in S |-> IF x \in chosen THEN Append(list, x) ELSE list]]
InsertOne(M, W) ==
    [headers \in HeaderMap(W) |-> [hv \in NamedValue(M, W) |-> Insert(headers, hv)]]
AppendOne(M, W) ==
    [headers \in HeaderMap(W) |-> [hv \in NamedValue(M, W) |-> AppendValue(headers, hv)]]
SetOne(M, W) ==
    [list \in Seq(NamedValue(M, W)) |-> [hv \in NamedValue(M, W) |-> SetInList(list, hv)]]

\* Each gives a value of its type.
LEMMA OnesType ==
    ASSUME NEW M, NEW W, NEW hv \in NamedValue(M, W)
    PROVE  /\ \A headers \in HeaderMap(W) :
                  Insert(headers, hv) \in HeaderMap(W) /\ AppendValue(headers, hv) \in HeaderMap(W)
           /\ \A list \in Seq(NamedValue(M, W)) : SetInList(list, hv) \in Seq(NamedValue(M, W))
<1>1. hv.value \in W
  BY DEF NamedValue
<1>2. ASSUME NEW headers \in HeaderMap(W)
      PROVE  Insert(headers, hv) \in HeaderMap(W) /\ AppendValue(headers, hv) \in HeaderMap(W)
  <2> DEFINE n == hv.name
             one == <<hv.value>>
             more == Append(headers[n], hv.value)
  <2>1. one \in Seq(W)
    BY <1>1
  <2>2. n \in HeaderNames => more \in Seq(W)
    BY <1>1, AppendProperties DEF HeaderMap
  <2> HIDE DEF n, one, more
  <2>3. [headers EXCEPT ![n] = one] \in HeaderMap(W) /\ [headers EXCEPT ![n] = more] \in HeaderMap(W)
    BY <2>1, <2>2 DEF HeaderMap
  <2> QED BY <2>3 DEF Insert, AppendValue, n, one, more
<1>3. ASSUME NEW list \in Seq(NamedValue(M, W)) PROVE SetInList(list, hv) \in Seq(NamedValue(M, W))
  <2> DEFINE HV == NamedValue(M, W)
             Other(h) == IF h.name = hv.name THEN [h EXCEPT !.value = hv.value] ELSE h
             set == [i \in DOMAIN list |-> Other(list[i])]
  <2>1. \A h \in HV : Other(h) \in HV
    BY <1>1 DEF NamedValue
  <2>2. set \in Seq(HV)
    <3>1. Len(list) \in Nat /\ DOMAIN list = 1 .. Len(list) /\ \A i \in 1 .. Len(list) : list[i] \in HV
      BY LenProperties, ElementOfSeq
    <3>2. \A i \in DOMAIN list : Other(list[i]) \in HV
      BY <2>1, <3>1
    <3> HIDE DEF Other
    <3>3. set \in [1 .. Len(list) -> HV]
      BY <3>1, <3>2
    <3> HIDE DEF set, HV
    <3> QED BY <3>1, <3>3
  <2>3. Append(list, hv) \in Seq(HV)
    BY AppendProperties
  <2> QED BY <2>2, <2>3 DEF SetInList
<1> QED BY <1>2, <1>3

\* The elements of a list that are in a set.
LEMMA SelectedFolds ==
    ASSUME NEW S, NEW list \in Seq(S), NEW chosen
    PROVE  /\ Selected(list, chosen) = Folded(SelectOne(S, chosen), <<>>, list)
           /\ Operation(SelectOne(S, chosen), Seq(S), S)
<1> DEFINE N == Len(list)
           V == Seq(S)
           start == <<>>
           op == SelectOne(S, chosen)
           One(x, e) == IF e \in chosen THEN Append(x, e) ELSE x
           Goes(g) == [n \in 0 .. N |-> IF n = 0 THEN start ELSE One(g[n - 1], list[n])]
           upTo == CHOOSE g : g = Goes(g)
<1>1. N \in Nat /\ start \in V /\ \A n \in 1 .. N : list[n] \in S
  BY LenProperties, ElementOfSeq, EmptySeq
<1>2. \A x \in V, e \in S : One(x, e) \in V
  BY AppendProperties
<1>3. Selected(list, chosen) = upTo[N]
  BY DEF Selected
<1> HIDE DEF One
<1>4. op = [x \in V |-> [e \in S |-> One(x, e)]]
  BY DEF SelectOne, One
<1> HIDE DEF upTo, start, V, op, N
<1>5. Operation(op, V, S) /\ \A x \in V, e \in S : op[x][e] = One(x, e)
  BY <1>2, <1>4 DEF Operation
<1>6. PICK f : Folds(f, op, start, list, V)
  <2>1. list \in Seq(S)
    OBVIOUS
  <2> QED BY <1>1, <1>5, <2>1, FoldExists
<1>7. /\ f \in [0 .. N -> V] /\ f[0] = start
      /\ \A n \in 1 .. N : f[n] = One(f[n - 1], list[n])
  <2>1. /\ f \in [0 .. N -> V] /\ f[0] = start
        /\ \A n \in 1 .. N : f[n] = op[f[n - 1]][list[n]]
    BY <1>6 DEF Folds, N
  <2>2. \A n \in 1 .. N : n - 1 \in 0 .. N
    BY <1>1
  <2> QED BY <1>1, <1>5, <2>1, <2>2
<1>8. f = Goes(f)
  <2>1. \A n \in 0 .. N : n = 0 \/ n \in 1 .. N
    BY <1>1
  <2>2. \A n \in 0 .. N : f[n] = Goes(f)[n]
    BY <1>7, <2>1
  <2>3. f = [n \in 0 .. N |-> f[n]] /\ Goes(f) = [n \in 0 .. N |-> Goes(f)[n]]
    BY <1>7
  <2> HIDE DEF Goes
  <2> QED BY <2>2, <2>3
<1>9. upTo = Goes(upTo)
  <2> HIDE DEF Goes
  <2> QED BY <1>8 DEF upTo
<1>10. GoAlike(upTo, f, N)
  <2>1. Goes(upTo)[0] = start /\ \A n \in 1 .. N : Goes(upTo)[n] = One(upTo[n - 1], list[n])
    BY <1>1
  <2> HIDE DEF Goes
  <2>2. upTo[0] = start /\ \A n \in 1 .. N : upTo[n] = One(upTo[n - 1], list[n])
    BY <1>9, <2>1
  <2> QED BY <1>7, <2>2 DEF GoAlike
<1>11. upTo[N] = f[N]
  <2>1. \A n \in 0 .. N : upTo[n] = f[n]
    BY <1>1, <1>10, SameRecursion
  <2> QED BY <1>1, <2>1
<1>12. Folded(op, start, list) = f[N]
  <2>1. list \in Seq(S)
    OBVIOUS
  <2>2. Folded(op, start, list) = f[Len(list)]
    BY <1>1, <1>5, <1>6, <2>1, FoldedIs
  <2> QED BY <2>2 DEF N
<1> QED BY <1>3, <1>5, <1>11, <1>12 DEF op, start, V

\* Headers inserted.
LEMMA InsertAllFolds ==
    ASSUME NEW M, NEW W, NEW headers \in HeaderMap(W), NEW hvs \in Seq(NamedValue(M, W))
    PROVE  /\ InsertAll(headers, hvs) = Folded(InsertOne(M, W), headers, hvs)
           /\ Operation(InsertOne(M, W), HeaderMap(W), NamedValue(M, W))
<1> DEFINE N == Len(hvs)
           V == HeaderMap(W)
           start == headers
           op == InsertOne(M, W)
           One(x, e) == Insert(x, e)
           Goes(g) == [n \in 0 .. N |-> IF n = 0 THEN start ELSE One(g[n - 1], hvs[n])]
           upTo == CHOOSE g : g = Goes(g)
<1>1. N \in Nat /\ start \in V /\ \A n \in 1 .. N : hvs[n] \in NamedValue(M, W)
  BY LenProperties, ElementOfSeq, EmptySeq
<1>2. \A x \in V, e \in NamedValue(M, W) : One(x, e) \in V
  BY OnesType
<1>3. InsertAll(headers, hvs) = upTo[N]
  BY DEF InsertAll
<1> HIDE DEF One
<1>4. op = [x \in V |-> [e \in NamedValue(M, W) |-> One(x, e)]]
  BY DEF InsertOne, One
<1> HIDE DEF upTo, start, V, op, N
<1>5. Operation(op, V, NamedValue(M, W)) /\ \A x \in V, e \in NamedValue(M, W) : op[x][e] = One(x, e)
  BY <1>2, <1>4 DEF Operation
<1>6. PICK f : Folds(f, op, start, hvs, V)
  <2>1. hvs \in Seq(NamedValue(M, W))
    OBVIOUS
  <2> QED BY <1>1, <1>5, <2>1, FoldExists
<1>7. /\ f \in [0 .. N -> V] /\ f[0] = start
      /\ \A n \in 1 .. N : f[n] = One(f[n - 1], hvs[n])
  <2>1. /\ f \in [0 .. N -> V] /\ f[0] = start
        /\ \A n \in 1 .. N : f[n] = op[f[n - 1]][hvs[n]]
    BY <1>6 DEF Folds, N
  <2>2. \A n \in 1 .. N : n - 1 \in 0 .. N
    BY <1>1
  <2> QED BY <1>1, <1>5, <2>1, <2>2
<1>8. f = Goes(f)
  <2>1. \A n \in 0 .. N : n = 0 \/ n \in 1 .. N
    BY <1>1
  <2>2. \A n \in 0 .. N : f[n] = Goes(f)[n]
    BY <1>7, <2>1
  <2>3. f = [n \in 0 .. N |-> f[n]] /\ Goes(f) = [n \in 0 .. N |-> Goes(f)[n]]
    BY <1>7
  <2> HIDE DEF Goes
  <2> QED BY <2>2, <2>3
<1>9. upTo = Goes(upTo)
  <2> HIDE DEF Goes
  <2> QED BY <1>8 DEF upTo
<1>10. GoAlike(upTo, f, N)
  <2>1. Goes(upTo)[0] = start /\ \A n \in 1 .. N : Goes(upTo)[n] = One(upTo[n - 1], hvs[n])
    BY <1>1
  <2> HIDE DEF Goes
  <2>2. upTo[0] = start /\ \A n \in 1 .. N : upTo[n] = One(upTo[n - 1], hvs[n])
    BY <1>9, <2>1
  <2> QED BY <1>7, <2>2 DEF GoAlike
<1>11. upTo[N] = f[N]
  <2>1. \A n \in 0 .. N : upTo[n] = f[n]
    BY <1>1, <1>10, SameRecursion
  <2> QED BY <1>1, <2>1
<1>12. Folded(op, start, hvs) = f[N]
  <2>1. hvs \in Seq(NamedValue(M, W))
    OBVIOUS
  <2>2. Folded(op, start, hvs) = f[Len(hvs)]
    BY <1>1, <1>5, <1>6, <2>1, FoldedIs
  <2> QED BY <2>2 DEF N
<1> QED BY <1>3, <1>5, <1>11, <1>12 DEF op, start, V

\* Headers appended.
LEMMA AppendAllFolds ==
    ASSUME NEW M, NEW W, NEW headers \in HeaderMap(W), NEW hvs \in Seq(NamedValue(M, W))
    PROVE  /\ AppendAll(headers, hvs) = Folded(AppendOne(M, W), headers, hvs)
           /\ Operation(AppendOne(M, W), HeaderMap(W), NamedValue(M, W))
<1> DEFINE N == Len(hvs)
           V == HeaderMap(W)
           start == headers
           op == AppendOne(M, W)
           One(x, e) == AppendValue(x, e)
           Goes(g) == [n \in 0 .. N |-> IF n = 0 THEN start ELSE One(g[n - 1], hvs[n])]
           upTo == CHOOSE g : g = Goes(g)
<1>1. N \in Nat /\ start \in V /\ \A n \in 1 .. N : hvs[n] \in NamedValue(M, W)
  BY LenProperties, ElementOfSeq, EmptySeq
<1>2. \A x \in V, e \in NamedValue(M, W) : One(x, e) \in V
  BY OnesType
<1>3. AppendAll(headers, hvs) = upTo[N]
  BY DEF AppendAll
<1> HIDE DEF One
<1>4. op = [x \in V |-> [e \in NamedValue(M, W) |-> One(x, e)]]
  BY DEF AppendOne, One
<1> HIDE DEF upTo, start, V, op, N
<1>5. Operation(op, V, NamedValue(M, W)) /\ \A x \in V, e \in NamedValue(M, W) : op[x][e] = One(x, e)
  BY <1>2, <1>4 DEF Operation
<1>6. PICK f : Folds(f, op, start, hvs, V)
  <2>1. hvs \in Seq(NamedValue(M, W))
    OBVIOUS
  <2> QED BY <1>1, <1>5, <2>1, FoldExists
<1>7. /\ f \in [0 .. N -> V] /\ f[0] = start
      /\ \A n \in 1 .. N : f[n] = One(f[n - 1], hvs[n])
  <2>1. /\ f \in [0 .. N -> V] /\ f[0] = start
        /\ \A n \in 1 .. N : f[n] = op[f[n - 1]][hvs[n]]
    BY <1>6 DEF Folds, N
  <2>2. \A n \in 1 .. N : n - 1 \in 0 .. N
    BY <1>1
  <2> QED BY <1>1, <1>5, <2>1, <2>2
<1>8. f = Goes(f)
  <2>1. \A n \in 0 .. N : n = 0 \/ n \in 1 .. N
    BY <1>1
  <2>2. \A n \in 0 .. N : f[n] = Goes(f)[n]
    BY <1>7, <2>1
  <2>3. f = [n \in 0 .. N |-> f[n]] /\ Goes(f) = [n \in 0 .. N |-> Goes(f)[n]]
    BY <1>7
  <2> HIDE DEF Goes
  <2> QED BY <2>2, <2>3
<1>9. upTo = Goes(upTo)
  <2> HIDE DEF Goes
  <2> QED BY <1>8 DEF upTo
<1>10. GoAlike(upTo, f, N)
  <2>1. Goes(upTo)[0] = start /\ \A n \in 1 .. N : Goes(upTo)[n] = One(upTo[n - 1], hvs[n])
    BY <1>1
  <2> HIDE DEF Goes
  <2>2. upTo[0] = start /\ \A n \in 1 .. N : upTo[n] = One(upTo[n - 1], hvs[n])
    BY <1>9, <2>1
  <2> QED BY <1>7, <2>2 DEF GoAlike
<1>11. upTo[N] = f[N]
  <2>1. \A n \in 0 .. N : upTo[n] = f[n]
    BY <1>1, <1>10, SameRecursion
  <2> QED BY <1>1, <2>1
<1>12. Folded(op, start, hvs) = f[N]
  <2>1. hvs \in Seq(NamedValue(M, W))
    OBVIOUS
  <2>2. Folded(op, start, hvs) = f[Len(hvs)]
    BY <1>1, <1>5, <1>6, <2>1, FoldedIs
  <2> QED BY <2>2 DEF N
<1> QED BY <1>3, <1>5, <1>11, <1>12 DEF op, start, V

\* Headers set in a list.
LEMMA SetAllFolds ==
    ASSUME NEW M, NEW W, NEW list \in Seq(NamedValue(M, W)), NEW hvs \in Seq(NamedValue(M, W))
    PROVE  /\ SetAll(list, hvs) = Folded(SetOne(M, W), list, hvs)
           /\ Operation(SetOne(M, W), Seq(NamedValue(M, W)), NamedValue(M, W))
<1> DEFINE N == Len(hvs)
           V == Seq(NamedValue(M, W))
           start == list
           op == SetOne(M, W)
           One(x, e) == SetInList(x, e)
           Goes(g) == [n \in 0 .. N |-> IF n = 0 THEN start ELSE One(g[n - 1], hvs[n])]
           upTo == CHOOSE g : g = Goes(g)
<1>1. N \in Nat /\ start \in V /\ \A n \in 1 .. N : hvs[n] \in NamedValue(M, W)
  BY LenProperties, ElementOfSeq, EmptySeq
<1>2. \A x \in V, e \in NamedValue(M, W) : One(x, e) \in V
  BY OnesType
<1>3. SetAll(list, hvs) = upTo[N]
  BY DEF SetAll
<1> HIDE DEF One
<1>4. op = [x \in V |-> [e \in NamedValue(M, W) |-> One(x, e)]]
  BY DEF SetOne, One
<1> HIDE DEF upTo, start, V, op, N
<1>5. Operation(op, V, NamedValue(M, W)) /\ \A x \in V, e \in NamedValue(M, W) : op[x][e] = One(x, e)
  BY <1>2, <1>4 DEF Operation
<1>6. PICK f : Folds(f, op, start, hvs, V)
  <2>1. hvs \in Seq(NamedValue(M, W))
    OBVIOUS
  <2> QED BY <1>1, <1>5, <2>1, FoldExists
<1>7. /\ f \in [0 .. N -> V] /\ f[0] = start
      /\ \A n \in 1 .. N : f[n] = One(f[n - 1], hvs[n])
  <2>1. /\ f \in [0 .. N -> V] /\ f[0] = start
        /\ \A n \in 1 .. N : f[n] = op[f[n - 1]][hvs[n]]
    BY <1>6 DEF Folds, N
  <2>2. \A n \in 1 .. N : n - 1 \in 0 .. N
    BY <1>1
  <2> QED BY <1>1, <1>5, <2>1, <2>2
<1>8. f = Goes(f)
  <2>1. \A n \in 0 .. N : n = 0 \/ n \in 1 .. N
    BY <1>1
  <2>2. \A n \in 0 .. N : f[n] = Goes(f)[n]
    BY <1>7, <2>1
  <2>3. f = [n \in 0 .. N |-> f[n]] /\ Goes(f) = [n \in 0 .. N |-> Goes(f)[n]]
    BY <1>7
  <2> HIDE DEF Goes
  <2> QED BY <2>2, <2>3
<1>9. upTo = Goes(upTo)
  <2> HIDE DEF Goes
  <2> QED BY <1>8 DEF upTo
<1>10. GoAlike(upTo, f, N)
  <2>1. Goes(upTo)[0] = start /\ \A n \in 1 .. N : Goes(upTo)[n] = One(upTo[n - 1], hvs[n])
    BY <1>1
  <2> HIDE DEF Goes
  <2>2. upTo[0] = start /\ \A n \in 1 .. N : upTo[n] = One(upTo[n - 1], hvs[n])
    BY <1>9, <2>1
  <2> QED BY <1>7, <2>2 DEF GoAlike
<1>11. upTo[N] = f[N]
  <2>1. \A n \in 0 .. N : upTo[n] = f[n]
    BY <1>1, <1>10, SameRecursion
  <2> QED BY <1>1, <2>1
<1>12. Folded(op, start, hvs) = f[N]
  <2>1. hvs \in Seq(NamedValue(M, W))
    OBVIOUS
  <2>2. Folded(op, start, hvs) = f[Len(hvs)]
    BY <1>1, <1>5, <1>6, <2>1, FoldedIs
  <2> QED BY <2>2 DEF N
<1> QED BY <1>3, <1>5, <1>11, <1>12 DEF op, start, V

-----------------------------------------------------------------------------
(* The elements of a list that are in a set, and the values of a name.     *)

\* Nothing is chosen from an empty list.
LEMMA SelectedNone == ASSUME NEW chosen PROVE Selected(<<>>, chosen) = <<>>
<1> DEFINE none == <<>>
           S == {}
<1>1. none \in Seq(S)
  BY EmptySeq
<1> HIDE DEF none, S
<1>2. Selected(none, chosen) = Folded(SelectOne(S, chosen), <<>>, none)
  BY <1>1, SelectedFolds
<1>3. <<>> \in Seq(S) /\ Operation(SelectOne(S, chosen), Seq(S), S)
  BY <1>1, SelectedFolds, EmptySeq
<1>4. Folded(SelectOne(S, chosen), <<>>, <<>>) = <<>>
  BY <1>3, FoldedNone
<1> QED BY <1>2, <1>4 DEF none

\* What is chosen is of the type of the list.
LEMMA SelectedType ==
    ASSUME NEW S, NEW list \in Seq(S), NEW chosen PROVE Selected(list, chosen) \in Seq(S)
<1> DEFINE none == <<>>
           op == SelectOne(S, chosen)
<1>1. none \in Seq(S) /\ Operation(op, Seq(S), S) /\ Selected(list, chosen) = Folded(op, none, list)
  BY SelectedFolds, EmptySeq
<1> HIDE DEF none, op
<1>2. Folded(op, none, list) \in Seq(S)
  BY <1>1, FoldedType
<1> QED BY <1>1, <1>2

\* An element that is appended is chosen or not, after the others.
LEMMA SelectedAppend ==
    ASSUME NEW S, NEW list \in Seq(S), NEW e \in S, NEW chosen
    PROVE  Selected(Append(list, e), chosen) =
               IF e \in chosen THEN Append(Selected(list, chosen), e) ELSE Selected(list, chosen)
<1> DEFINE none == <<>>
           op == SelectOne(S, chosen)
           longer == Append(list, e)
           sofar == Selected(list, chosen)
<1>1. /\ none \in Seq(S) /\ Operation(op, Seq(S), S) /\ sofar = Folded(op, none, list)
      /\ sofar \in Seq(S)
  BY SelectedFolds, SelectedType, EmptySeq
<1>2. longer \in Seq(S)
  BY AppendProperties
<1>3. Selected(longer, chosen) = Folded(op, none, longer)
  <2> HIDE DEF longer
  <2> QED BY <1>2, SelectedFolds
<1> HIDE DEF none, op
<1>4. Folded(op, none, longer) = op[sofar][e]
  BY <1>1, FoldedAppend
<1> HIDE DEF sofar
<1>5. op[sofar][e] = IF e \in chosen THEN Append(sofar, e) ELSE sofar
  BY <1>1 DEF op, SelectOne
<1> QED BY <1>3, <1>4, <1>5 DEF sofar

\* Only the elements that are chosen are there.
LEMMA SelectedIn ==
    ASSUME NEW S, NEW list \in Seq(S), NEW chosen \in SUBSET S
    PROVE  Selected(list, chosen) \in Seq(chosen)
<1> DEFINE T == {s \in Seq(S) : Selected(s, chosen) \in Seq(chosen)}
<1>1. <<>> \in T
  BY SelectedNone, EmptySeq
<1>2. ASSUME NEW s \in Seq(S), NEW e \in S, s \in T PROVE Append(s, e) \in T
  <2>1. Append(s, e) \in Seq(S)
    BY AppendProperties
  <2>2. Selected(s, chosen) \in Seq(chosen)
    BY <1>2
  <2>3. e \in chosen => Append(Selected(s, chosen), e) \in Seq(chosen)
    BY <2>2, AppendProperties
  <2>4. Selected(Append(s, e), chosen) \in Seq(chosen)
    BY <2>2, <2>3, SelectedAppend
  <2> QED BY <2>1, <2>4
<1>3. Seq(S) \subseteq T
  <2> HIDE DEF T
  <2> QED BY <1>1, <1>2, SeqInduction
<1> QED BY <1>3

\* Sets that agree on the elements of a list choose the same.
LEMMA SelectedAlike ==
    ASSUME NEW S, NEW list \in Seq(S), NEW A, NEW B,
           \A i \in 1 .. Len(list) : list[i] \in A <=> list[i] \in B
    PROVE  Selected(list, A) = Selected(list, B)
<1> DEFINE Alike(s) == \A i \in 1 .. Len(s) : s[i] \in A <=> s[i] \in B
           T == {s \in Seq(S) : Alike(s) => Selected(s, A) = Selected(s, B)}
<1>1. <<>> \in T
  BY SelectedNone, EmptySeq
<1>2. ASSUME NEW s \in Seq(S), NEW e \in S, s \in T PROVE Append(s, e) \in T
  <2> DEFINE t == Append(s, e)
  <2>1. /\ t \in Seq(S) /\ Len(s) \in Nat /\ Len(t) = Len(s) + 1 /\ t[Len(s) + 1] = e
        /\ \A i \in 1 .. Len(s) : t[i] = s[i]
    BY AppendProperties, LenProperties
  <2> HIDE DEF t
  <2>2. ASSUME Alike(t) PROVE Selected(t, A) = Selected(t, B)
    <3>1. Alike(s)
      <4>1. \A i \in 1 .. Len(s) : i \in 1 .. Len(t)
        BY <2>1
      <4> QED BY <2>1, <2>2, <4>1
    <3>2. e \in A <=> e \in B
      <4>1. Len(s) + 1 \in 1 .. Len(t)
        BY <2>1
      <4> QED BY <2>1, <2>2, <4>1
    <3>3. Selected(s, A) = Selected(s, B)
      BY <1>2, <3>1
    <3>4. /\ Selected(t, A) = IF e \in A THEN Append(Selected(s, A), e) ELSE Selected(s, A)
          /\ Selected(t, B) = IF e \in B THEN Append(Selected(s, B), e) ELSE Selected(s, B)
      BY SelectedAppend DEF t
    <3> QED BY <3>2, <3>3, <3>4
  <2>3. t \in T
    <3> HIDE DEF Alike
    <3> QED BY <2>1, <2>2
  <2> QED BY <2>3 DEF t
<1>3. Seq(S) \subseteq T
  <2> HIDE DEF T
  <2> QED BY <1>1, <1>2, SeqInduction
<1>4. Alike(list)
  OBVIOUS
<1>5. list \in T
  BY <1>3
<1> QED BY <1>4, <1>5

\* ToSet has the elements of a list.
LEMMA ToSetIs ==
    ASSUME NEW S, NEW list \in Seq(S)
    PROVE  /\ ToSet(list) \subseteq S
           /\ \A i \in 1 .. Len(list) : list[i] \in ToSet(list)
<1>1. DOMAIN list = 1 .. Len(list) /\ \A i \in 1 .. Len(list) : list[i] \in S
  BY LenProperties, ElementOfSeq
<1> QED BY <1>1 DEF ToSet

\* The values of a name, without looking at which elements there are.
ThoseNamed(HV, n) == {h \in HV : h.name = n}
ThoseUsable(HV) == {h \in HV : h.value \notin Unusable}

\* WithName chooses by the name alone.
LEMMA WithNameIs ==
    ASSUME NEW HV, NEW list \in Seq(HV), NEW n
    PROVE  WithName(list, n) = Selected(list, ThoseNamed(HV, n))
<1> DEFINE A == {h \in ToSet(list) : h.name = n}
           B == ThoseNamed(HV, n)
<1>1. \A i \in 1 .. Len(list) : list[i] \in A <=> list[i] \in B
  BY ToSetIs, ElementOfSeq DEF ThoseNamed
<1> HIDE DEF A, B
<1>2. Selected(list, A) = Selected(list, B)
  BY <1>1, SelectedAlike
<1> QED BY <1>2 DEF WithName, A, B

\* UsableOf chooses by the value alone.
LEMMA UsableIs ==
    ASSUME NEW HV, NEW list \in Seq(HV)
    PROVE  UsableOf(list) = Selected(list, ThoseUsable(HV))
<1> DEFINE A == {hv \in ToSet(list) : hv.value \notin Unusable}
           B == ThoseUsable(HV)
<1>1. \A i \in 1 .. Len(list) : list[i] \in A <=> list[i] \in B
  BY ToSetIs, ElementOfSeq DEF ThoseUsable
<1> HIDE DEF A, B
<1>2. Selected(list, A) = Selected(list, B)
  BY <1>1, SelectedAlike
<1> QED BY <1>2 DEF UsableOf, A, B

\* UsableOf, element by element.
LEMMA UsableSteps ==
    ASSUME NEW M, NEW W
    PROVE  /\ UsableOf(<<>>) = <<>>
           /\ \A list \in Seq(NamedValue(M, W)) :
                  /\ UsableOf(list) \in Seq(NamedValue(M, W))
                  /\ \A h \in NamedValue(M, W) :
                         UsableOf(Append(list, h)) =
                             IF h.value \in Unusable THEN UsableOf(list) ELSE Append(UsableOf(list), h)
<1> DEFINE HV == NamedValue(M, W)
<1>1. UsableOf(<<>>) = <<>>
  BY SelectedNone DEF UsableOf
<1>2. ASSUME NEW list \in Seq(HV), NEW h \in HV
      PROVE  UsableOf(Append(list, h)) =
                 IF h.value \in Unusable THEN UsableOf(list) ELSE Append(UsableOf(list), h)
  <2> DEFINE longer == Append(list, h)
             B == ThoseUsable(HV)
  <2>1. longer \in Seq(HV)
    BY AppendProperties
  <2> HIDE DEF HV
  <2>2. UsableOf(list) = Selected(list, B)
    BY UsableIs
  <2>3. UsableOf(longer) = Selected(longer, B)
    <3> HIDE DEF longer
    <3> QED BY <2>1, UsableIs
  <2>4. h \in B <=> h.value \notin Unusable
    BY DEF ThoseUsable
  <2> HIDE DEF B
  <2>5. Selected(longer, B) = IF h \in B THEN Append(Selected(list, B), h) ELSE Selected(list, B)
    BY SelectedAppend
  <2> QED BY <2>2, <2>3, <2>4, <2>5
<1>3. ASSUME NEW list \in Seq(HV) PROVE UsableOf(list) \in Seq(HV)
  <2> HIDE DEF HV
  <2> QED BY UsableIs, SelectedType
<1> QED BY <1>1, <1>2, <1>3

\* The values of a name are the elements of its headers, one by one.
LEMMA ValuesNone == ASSUME NEW n PROVE ValuesOf(<<>>, n) = <<>>
<1> DEFINE none == <<>>
           found == WithName(none, n)
<1>1. found = <<>>
  BY SelectedNone DEF WithName
<1> HIDE DEF found, none
<1>2. [i \in DOMAIN found |-> found[i].value] = <<>>
  BY <1>1
<1>3. ValuesOf(none, n) = <<>>
  BY <1>2 DEF ValuesOf, found
<1> QED BY <1>3 DEF none

\* The values of a name are values.
LEMMA ValuesType ==
    ASSUME NEW M, NEW W, NEW list \in Seq(NamedValue(M, W)), NEW n
    PROVE  ValuesOf(list, n) \in Seq(W)
<1> DEFINE HV == NamedValue(M, W)
           found == WithName(list, n)
           values == [i \in DOMAIN found |-> found[i].value]
<1>1. found \in Seq(HV)
  <2>1. list \in Seq(HV)
    OBVIOUS
  <2> HIDE DEF HV
  <2>2. found = Selected(list, ThoseNamed(HV, n))
    BY <2>1, WithNameIs
  <2> HIDE DEF found
  <2> QED BY <2>1, <2>2, SelectedType
<1> HIDE DEF found
<1>2. Len(found) \in Nat /\ DOMAIN found = 1 .. Len(found) /\ \A i \in 1 .. Len(found) : found[i] \in HV
  BY <1>1, LenProperties, ElementOfSeq
<1>3. values \in [1 .. Len(found) -> W]
  BY <1>2 DEF NamedValue
<1> HIDE DEF values
<1>4. values \in Seq(W)
  BY <1>2, <1>3
<1> QED BY <1>4 DEF ValuesOf, values, found

\* A header that is appended adds its value, if it has the name.
LEMMA ValuesAppend ==
    ASSUME NEW M, NEW W, NEW list \in Seq(NamedValue(M, W)), NEW h \in NamedValue(M, W), NEW n
    PROVE  ValuesOf(Append(list, h), n) =
               IF h.name = n THEN Append(ValuesOf(list, n), h.value) ELSE ValuesOf(list, n)
<1> DEFINE HV == NamedValue(M, W)
           longer == Append(list, h)
           B == ThoseNamed(HV, n)
           found == WithName(list, n)
           Values(s) == [i \in DOMAIN s |-> s[i].value]
<1>1. longer \in Seq(HV)
  BY AppendProperties
<1>2. h \in B <=> h.name = n
  BY DEF ThoseNamed
<1>0. list \in Seq(HV) /\ h \in HV
  OBVIOUS
<1> HIDE DEF HV
<1>3. found = Selected(list, B) /\ found \in Seq(HV)
  <2>1. found = Selected(list, B)
    BY <1>0, WithNameIs
  <2> HIDE DEF found, B
  <2> QED BY <1>0, <2>1, SelectedType
<1>4. WithName(longer, n) = Selected(longer, B)
  <2> HIDE DEF longer
  <2> QED BY <1>1, WithNameIs
<1> HIDE DEF B, found
<1>5. Selected(longer, B) = IF h \in B THEN Append(found, h) ELSE found
  BY <1>3, SelectedAppend
<1>6. Values(Append(found, h)) = Append(Values(found), h.value)
  <2> DEFINE a == Values(Append(found, h))
             values == Values(found)
             b == Append(values, h.value)
             N == Len(found)
  <2>1. /\ N \in Nat /\ DOMAIN found = 1 .. N /\ \A i \in 1 .. N : found[i] \in HV
    BY <1>3, LenProperties, ElementOfSeq
  <2>2. values \in Seq({x.value : x \in HV}) /\ Len(values) = N
    <3>1. values \in [1 .. N -> {x.value : x \in HV}]
      BY <2>1
    <3> HIDE DEF values
    <3> QED BY <2>1, <3>1
  <2>3. /\ Append(found, h) \in Seq(HV) /\ Len(Append(found, h)) = N + 1
        /\ \A i \in 1 .. N + 1 : Append(found, h)[i] = IF i = N + 1 THEN h ELSE found[i]
    <3>1. h \in HV
      BY DEF HV
    <3> QED BY <1>3, <3>1, AppendProperties
  <2>4. h.value \in {x.value : x \in HV}
    BY DEF HV
  <2>5. /\ b \in Seq({x.value : x \in HV}) /\ Len(b) = N + 1
        /\ \A i \in 1 .. N + 1 : b[i] = IF i = N + 1 THEN h.value ELSE values[i]
    <3> HIDE DEF values
    <3> QED BY <2>2, <2>4, AppendProperties
  <2>6. a = [i \in 1 .. N + 1 |-> Append(found, h)[i].value]
    <3>1. DOMAIN Append(found, h) = 1 .. N + 1
      BY <2>3, LenProperties
    <3> QED BY <3>1
  <2>7. b = [i \in 1 .. N + 1 |-> b[i]]
    <3> HIDE DEF b
    <3> QED BY <2>5, LenProperties
  <2>8. \A i \in 1 .. N + 1 : Append(found, h)[i].value = b[i]
    <3> SUFFICES ASSUME NEW i \in 1 .. N + 1 PROVE Append(found, h)[i].value = b[i]
      OBVIOUS
    <3>1. CASE i = N + 1
      BY <2>3, <2>5, <3>1
    <3>2. CASE i # N + 1
      <4>1. i \in DOMAIN found
        BY <2>1, <3>2
      <4>2. values[i] = found[i].value
        BY <4>1
      <4> HIDE DEF values, b
      <4> QED BY <2>3, <2>5, <3>2, <4>2
    <3> QED BY <3>1, <3>2
  <2> HIDE DEF a, b
  <2> QED BY <2>6, <2>7, <2>8
<1>7. ValuesOf(list, n) = Values(found) /\ ValuesOf(longer, n) = Values(WithName(longer, n))
  BY DEF ValuesOf, found
<1> HIDE DEF Values
<1> QED BY <1>2, <1>4, <1>5, <1>6, <1>7 DEF longer

\* The values of a name in two lists, one after the other.
LEMMA ValuesConcat ==
    ASSUME NEW M, NEW W, NEW list \in Seq(NamedValue(M, W)), NEW more \in Seq(NamedValue(M, W)), NEW n
    PROVE  ValuesOf(list \o more, n) = ValuesOf(list, n) \o ValuesOf(more, n)
<1> DEFINE HV == NamedValue(M, W)
           T == {s \in Seq(HV) : ValuesOf(list \o s, n) = ValuesOf(list, n) \o ValuesOf(s, n)}
<1>0. ValuesOf(list, n) \in Seq(W)
  BY ValuesType
<1>1. <<>> \in T
  <2>1. list \o <<>> = list
    BY ConcatEmptySeq
  <2>2. ValuesOf(list, n) \o <<>> = ValuesOf(list, n)
    BY <1>0, ConcatEmptySeq
  <2> QED BY <2>1, <2>2, ValuesNone, EmptySeq
<1>2. ASSUME NEW s \in Seq(HV), NEW e \in HV, s \in T PROVE Append(s, e) \in T
  <2> DEFINE both == list \o s
             a == ValuesOf(list, n)
             b == ValuesOf(s, n)
  <2>1. Append(s, e) \in Seq(HV) /\ both \in Seq(HV)
    BY AppendProperties, ConcatProperties
  <2>2. list \o Append(s, e) = Append(both, e)
    OBVIOUS
  <2>3. a \in Seq(W) /\ b \in Seq(W) /\ ValuesOf(both, n) = a \o b
    BY <1>0, <1>2, ValuesType
  <2>4. e.value \in W
    BY DEF NamedValue
  <2>5. ValuesOf(Append(s, e), n) = IF e.name = n THEN Append(b, e.value) ELSE b
    BY ValuesAppend
  <2> HIDE DEF both, a, b
  <2>6. ValuesOf(Append(both, e), n) = IF e.name = n THEN Append(a \o b, e.value) ELSE a \o b
    <3>1. both \in Seq(NamedValue(M, W)) /\ e \in NamedValue(M, W)
      BY <2>1
    <3>2. ValuesOf(Append(both, e), n) =
              IF e.name = n THEN Append(ValuesOf(both, n), e.value) ELSE ValuesOf(both, n)
      BY <3>1, ValuesAppend
    <3> QED BY <2>3, <3>2
  <2>7. a \o Append(b, e.value) = Append(a \o b, e.value)
    BY <2>3, <2>4
  <2> QED BY <2>1, <2>2, <2>5, <2>6, <2>7 DEF a
<1>3. Seq(HV) \subseteq T
  <2> HIDE DEF T
  <2> QED BY <1>1, <1>2, SeqInduction
<1>4. more \in T
  BY <1>3
<1> QED BY <1>4

-----------------------------------------------------------------------------
(* What the filters do with the values of a name, in the pipeline.         *)

\* Append and concatenation associate.
LEMMA AppendAfter ==
    ASSUME NEW W, NEW a \in Seq(W), NEW b \in Seq(W), NEW e \in W
    PROVE  a \o Append(b, e) = Append(a \o b, e)
OBVIOUS

\* The values that a list of headers has for a name, but for those that cannot be used.
UsableValues(hvs, n) == ValuesOf(UsableOf(hvs), n)

\* An empty list has no values.
LEMMA UsableValuesNone == ASSUME NEW n PROVE UsableValues(<<>>, n) = <<>>
<1>1. UsableOf(<<>>) = <<>>
  BY UsableSteps
<1> QED BY <1>1, ValuesNone DEF UsableValues

\* The values that can be used are values.
LEMMA UsableValuesType ==
    ASSUME NEW M, NEW W, NEW hvs \in Seq(NamedValue(M, W)), NEW n
    PROVE  UsableValues(hvs, n) \in Seq(W)
<1>1. UsableOf(hvs) \in Seq(NamedValue(M, W))
  BY UsableSteps
<1> QED BY <1>1, ValuesType DEF UsableValues

\* A header that is appended adds its value, if it has the name and can be used.
LEMMA UsableValuesAppend ==
    ASSUME NEW M, NEW W, NEW hvs \in Seq(NamedValue(M, W)), NEW hv \in NamedValue(M, W), NEW n
    PROVE  UsableValues(Append(hvs, hv), n) =
               IF hv.value \notin Unusable /\ hv.name = n
               THEN Append(UsableValues(hvs, n), hv.value) ELSE UsableValues(hvs, n)
<1> DEFINE u == UsableOf(hvs)
<1>1. /\ u \in Seq(NamedValue(M, W))
      /\ UsableOf(Append(hvs, hv)) = IF hv.value \in Unusable THEN u ELSE Append(u, hv)
  BY UsableSteps
<1> HIDE DEF u
<1>2. ValuesOf(Append(u, hv), n) = IF hv.name = n THEN Append(ValuesOf(u, n), hv.value) ELSE ValuesOf(u, n)
  BY <1>1, ValuesAppend
<1> QED BY <1>1, <1>2 DEF UsableValues, u

\* The last of some values, on its own, or what is there without any.
LastOr(values, others) == IF values = <<>> THEN others ELSE <<values[Len(values)]>>

\* A value that is appended is the last.
LEMMA LastOrAppend ==
    ASSUME NEW W, NEW values \in Seq(W), NEW v \in W, NEW others
    PROVE  LastOr(Append(values, v), others) = <<v>>
<1>1. Len(Append(values, v)) = Len(values) + 1 /\ Append(values, v)[Len(values) + 1] = v
  BY AppendProperties
<1>2. Append(values, v) # <<>>
  BY <1>1, LenProperties, EmptySeq
<1> QED BY <1>1, <1>2 DEF LastOr

\* insert for each header: the last value that can be used is the only one.
LEMMA InsertAllGives ==
    ASSUME NEW M, NEW W, NEW headers \in HeaderMap(W), NEW hvs \in Seq(NamedValue(M, W)),
           NEW n \in HeaderNames
    PROVE  /\ InsertAll(headers, hvs) \in HeaderMap(W)
           /\ InsertAll(headers, hvs)[n] = LastOr(UsableValues(hvs, n), headers[n])
<1> DEFINE HV == NamedValue(M, W)
           op == InsertOne(M, W)
           Gives(s, inserted) == /\ inserted \in HeaderMap(W)
                                 /\ inserted[n] = LastOr(UsableValues(s, n), headers[n])
           T == {s \in Seq(HV) : Gives(s, InsertAll(headers, s))}
<1>0. headers \in HeaderMap(W)
  OBVIOUS
<1>1. <<>> \in T
  <2> DEFINE none == <<>>
  <2>1. none \in Seq(HV)
    BY EmptySeq
  <2>2. UsableValues(none, n) = <<>>
    BY UsableValuesNone
  <2> HIDE DEF none
  <2>3. Operation(op, HeaderMap(W), HV) /\ InsertAll(headers, none) = Folded(op, headers, none)
    BY <2>1, InsertAllFolds
  <2> HIDE DEF op, HV
  <2>4. Folded(op, headers, none) = headers
    BY <2>3, FoldedNone DEF none
  <2>5. Gives(none, InsertAll(headers, none))
    BY <2>2, <2>3, <2>4 DEF LastOr
  <2> HIDE DEF Gives
  <2> QED BY <2>1, <2>5 DEF none
<1>2. ASSUME NEW s \in Seq(HV), NEW e \in HV, s \in T PROVE Append(s, e) \in T
  <2> DEFINE t == Append(s, e)
             x == InsertAll(headers, s)
             v == UsableValues(s, n)
  <2>1. t \in Seq(HV)
    BY AppendProperties
  <2>2. Gives(s, x)
    BY <1>2
  <2>3. Operation(op, HeaderMap(W), HV) /\ x = Folded(op, headers, s)
    BY InsertAllFolds
  <2>4. InsertAll(headers, t) = Folded(op, headers, t)
    <3> HIDE DEF t
    <3> QED BY <2>1, InsertAllFolds
  <2>5. v \in Seq(W) /\ e.value \in W
    BY UsableValuesType DEF NamedValue
  <2>6. UsableValues(t, n) = IF e.value \notin Unusable /\ e.name = n THEN Append(v, e.value) ELSE v
    BY UsableValuesAppend
  <2> HIDE DEF x, v
  <2>7. Insert(x, e) \in HeaderMap(W)
    BY <2>2, OnesType
  <2>8. op[x][e] = Insert(x, e)
    BY <2>2 DEF InsertOne
  <2> HIDE DEF op, HV
  <2>9. Folded(op, headers, t) = op[Folded(op, headers, s)][e]
    BY <2>3, FoldedAppend
  <2>10. InsertAll(headers, t) = Insert(x, e)
    BY <2>3, <2>4, <2>8, <2>9
  <2>11. Insert(x, e)[n] = IF e.value \notin Unusable /\ e.name = n THEN <<e.value>> ELSE x[n]
    BY <2>2 DEF Insert, HeaderMap
  <2>12. LastOr(Append(v, e.value), headers[n]) = <<e.value>>
    BY <2>5, LastOrAppend
  <2> HIDE DEF t
  <2>13. Gives(t, InsertAll(headers, t))
    BY <2>2, <2>6, <2>7, <2>10, <2>11, <2>12 DEF v
  <2> HIDE DEF Gives
  <2> QED BY <2>1, <2>13 DEF t
<1>3. Seq(HV) \subseteq T
  <2> HIDE DEF T
  <2> QED BY <1>1, <1>2, SeqInduction
<1> QED BY <1>3

\* append for each header: the values that can be used come after those there are.
LEMMA AppendAllGives ==
    ASSUME NEW M, NEW W, NEW headers \in HeaderMap(W), NEW hvs \in Seq(NamedValue(M, W)),
           NEW n \in HeaderNames
    PROVE  /\ AppendAll(headers, hvs) \in HeaderMap(W)
           /\ AppendAll(headers, hvs)[n] = headers[n] \o UsableValues(hvs, n)
<1> DEFINE HV == NamedValue(M, W)
           op == AppendOne(M, W)
           Gives(s, appended) == /\ appended \in HeaderMap(W)
                                 /\ appended[n] = headers[n] \o UsableValues(s, n)
           T == {s \in Seq(HV) : Gives(s, AppendAll(headers, s))}
<1>0. headers \in HeaderMap(W) /\ headers[n] \in Seq(W)
  BY DEF HeaderMap
<1>1. <<>> \in T
  <2> DEFINE none == <<>>
  <2>1. none \in Seq(HV)
    BY EmptySeq
  <2>2. headers[n] \o UsableValues(none, n) = headers[n]
    BY <1>0, UsableValuesNone, ConcatEmptySeq
  <2> HIDE DEF none
  <2>3. Operation(op, HeaderMap(W), HV) /\ AppendAll(headers, none) = Folded(op, headers, none)
    BY <2>1, AppendAllFolds
  <2> HIDE DEF op, HV
  <2>4. Folded(op, headers, none) = headers
    BY <2>3, FoldedNone DEF none
  <2>5. Gives(none, AppendAll(headers, none))
    BY <2>2, <2>3, <2>4
  <2> HIDE DEF Gives
  <2> QED BY <2>1, <2>5 DEF none
<1>2. ASSUME NEW s \in Seq(HV), NEW e \in HV, s \in T PROVE Append(s, e) \in T
  <2> DEFINE t == Append(s, e)
             x == AppendAll(headers, s)
             v == UsableValues(s, n)
  <2>1. t \in Seq(HV)
    BY AppendProperties
  <2>2. Gives(s, x)
    BY <1>2
  <2>3. Operation(op, HeaderMap(W), HV) /\ x = Folded(op, headers, s)
    BY AppendAllFolds
  <2>4. AppendAll(headers, t) = Folded(op, headers, t)
    <3> HIDE DEF t
    <3> QED BY <2>1, AppendAllFolds
  <2>5. v \in Seq(W) /\ e.value \in W
    BY UsableValuesType DEF NamedValue
  <2>6. UsableValues(t, n) = IF e.value \notin Unusable /\ e.name = n THEN Append(v, e.value) ELSE v
    BY UsableValuesAppend
  <2> HIDE DEF x, v
  <2>7. AppendValue(x, e) \in HeaderMap(W)
    BY <2>2, OnesType
  <2>8. op[x][e] = AppendValue(x, e)
    BY <2>2 DEF AppendOne
  <2> HIDE DEF op, HV
  <2>9. Folded(op, headers, t) = op[Folded(op, headers, s)][e]
    BY <2>3, FoldedAppend
  <2>10. AppendAll(headers, t) = AppendValue(x, e)
    BY <2>3, <2>4, <2>8, <2>9
  <2>11. AppendValue(x, e)[n] =
             IF e.value \notin Unusable /\ e.name = n THEN Append(x[n], e.value) ELSE x[n]
    BY <2>2 DEF AppendValue, HeaderMap
  <2>12. headers[n] \o Append(v, e.value) = Append(headers[n] \o v, e.value)
    <3> DEFINE base == headers[n]
               last == e.value
    <3>1. base \in Seq(W) /\ last \in W
      BY <1>0, <2>5
    <3> HIDE DEF base, last
    <3>2. base \o Append(v, last) = Append(base \o v, last)
      BY <2>5, <3>1, AppendAfter
    <3> QED BY <3>2 DEF base, last
  <2> HIDE DEF t
  <2>13. Gives(t, AppendAll(headers, t))
    BY <2>2, <2>6, <2>7, <2>10, <2>11, <2>12 DEF v
  <2> HIDE DEF Gives
  <2> QED BY <2>1, <2>13 DEF t
<1>3. Seq(HV) \subseteq T
  <2> HIDE DEF T
  <2> QED BY <1>1, <1>2, SeqInduction
<1> QED BY <1>3

-----------------------------------------------------------------------------
(* What the functions of filter.rs do with them, on a list.                *)

\* retain: the values of a name are all kept, or all removed.
LEMMA RetainedGives ==
    ASSUME NEW M, NEW W, NEW list \in Seq(NamedValue(M, W)), NEW names, NEW n
    PROVE  /\ Retained(list, names) \in Seq(NamedValue(M, W))
           /\ ValuesOf(Retained(list, names), n) =
                  IF n \in ToSet(names) THEN <<>> ELSE ValuesOf(list, n)
<1> DEFINE HV == NamedValue(M, W)
           gone == n \in ToSet(names)
           A == {h \in ToSet(list) : h.name \notin ToSet(names)}
           B == {h \in HV : h.name \notin ToSet(names)}
           T == {s \in Seq(HV) : ValuesOf(Selected(s, B), n) = IF gone THEN <<>> ELSE ValuesOf(s, n)}
<1>0. list \in Seq(HV)
  OBVIOUS
<1>1. Retained(list, names) = Selected(list, B)
  <2>1. \A i \in 1 .. Len(list) : list[i] \in A <=> list[i] \in B
    BY ToSetIs, ElementOfSeq
  <2> HIDE DEF A, B, HV
  <2>2. Selected(list, A) = Selected(list, B)
    BY <1>0, <2>1, SelectedAlike
  <2> QED BY <2>2 DEF Retained, A
<1>2. <<>> \in T
  BY SelectedNone, ValuesNone, EmptySeq
<1>3. ASSUME NEW s \in Seq(HV), NEW e \in HV, s \in T PROVE Append(s, e) \in T
  <2> DEFINE t == Append(s, e)
             kept == Selected(s, B)
  <2>1. t \in Seq(HV) /\ kept \in Seq(HV)
    BY SelectedType, AppendProperties
  <2>2. Selected(t, B) = IF e \in B THEN Append(kept, e) ELSE kept
    BY SelectedAppend
  <2>3. ValuesOf(kept, n) = IF gone THEN <<>> ELSE ValuesOf(s, n)
    BY <1>3
  <2>4. e \in B <=> e.name \notin ToSet(names)
    OBVIOUS
  <2>5. ValuesOf(t, n) = IF e.name = n THEN Append(ValuesOf(s, n), e.value) ELSE ValuesOf(s, n)
    BY ValuesAppend
  <2> HIDE DEF kept
  <2>6. ValuesOf(Append(kept, e), n) =
            IF e.name = n THEN Append(ValuesOf(kept, n), e.value) ELSE ValuesOf(kept, n)
    BY <2>1, ValuesAppend
  <2> HIDE DEF t, B
  <2>7. ValuesOf(Selected(t, B), n) = IF gone THEN <<>> ELSE ValuesOf(t, n)
    BY <2>2, <2>3, <2>4, <2>5, <2>6
  <2> QED BY <2>1, <2>7 DEF t
<1>4. Seq(HV) \subseteq T
  <2> HIDE DEF T
  <2> QED BY <1>2, <1>3, SeqInduction
<1>5. list \in T
  BY <1>0, <1>4
<1>6. Selected(list, B) \in Seq(HV)
  <2> HIDE DEF B, HV
  <2> QED BY <1>0, SelectedType
<1> QED BY <1>1, <1>5, <1>6

\* A list in which a header has one value wherever it is.
WithValue(h, e) == IF e.name = h.name THEN [e EXCEPT !.value = h.value] ELSE e
WithValues(h, list) == [i \in DOMAIN list |-> WithValue(h, list[i])]

\* A header with another value keeps its name.
LEMMA WithValueType ==
    ASSUME NEW M, NEW W, NEW h \in NamedValue(M, W), NEW e \in NamedValue(M, W)
    PROVE  /\ WithValue(h, e) \in NamedValue(M, W)
           /\ WithValue(h, e).name = e.name
           /\ WithValue(h, e).value = IF e.name = h.name THEN h.value ELSE e.value
BY DEF NamedValue, WithValue

\* No headers stay no headers.
LEMMA WithValuesNone == ASSUME NEW h PROVE WithValues(h, <<>>) = <<>>
<1> DEFINE none == <<>>
<1>1. none = <<>>
  OBVIOUS
<1> HIDE DEF none
<1>2. WithValues(h, none) = <<>>
  BY <1>1 DEF WithValues
<1> QED BY <1>1, <1>2

\* Headers with another value, one by one.
LEMMA WithValuesAppend ==
    ASSUME NEW M, NEW W, NEW h \in NamedValue(M, W), NEW list \in Seq(NamedValue(M, W)),
           NEW e \in NamedValue(M, W)
    PROVE  /\ WithValues(h, list) \in Seq(NamedValue(M, W))
           /\ WithValues(h, Append(list, e)) = Append(WithValues(h, list), WithValue(h, e))
<1> DEFINE HV == NamedValue(M, W)
           N == Len(list)
           set == WithValues(h, list)
           longer == Append(list, e)
           last == WithValue(h, e)
           b == Append(set, last)
<1>1. N \in Nat /\ DOMAIN list = 1 .. N /\ \A i \in 1 .. N : list[i] \in HV
  BY LenProperties, ElementOfSeq
<1>2. \A i \in 1 .. N : WithValue(h, list[i]) \in HV
  BY <1>1, WithValueType
<1>3. last \in HV
  BY WithValueType
<1>4. set \in Seq(HV) /\ Len(set) = N
  <2>1. set \in [1 .. N -> HV]
    BY <1>1, <1>2 DEF WithValues
  <2> HIDE DEF set, HV, N
  <2> QED BY <1>1, <2>1
<1>5. /\ longer \in Seq(HV) /\ Len(longer) = N + 1 /\ DOMAIN longer = 1 .. N + 1
      /\ \A i \in 1 .. N + 1 : longer[i] = IF i = N + 1 THEN e ELSE list[i]
  BY <1>1, AppendProperties, LenProperties
<1>6. /\ b \in Seq(HV) /\ Len(b) = N + 1 /\ DOMAIN b = 1 .. N + 1
      /\ \A i \in 1 .. N + 1 : b[i] = IF i = N + 1 THEN last ELSE set[i]
  <2> HIDE DEF set, last, HV, N
  <2> QED BY <1>1, <1>3, <1>4, AppendProperties, LenProperties
<1>7. \A i \in 1 .. N + 1 : WithValue(h, longer[i]) = b[i]
  <2> SUFFICES ASSUME NEW i \in 1 .. N + 1 PROVE WithValue(h, longer[i]) = b[i]
    OBVIOUS
  <2>1. CASE i = N + 1
    <3> HIDE DEF longer, b, N
    <3> QED BY <1>5, <1>6, <2>1
  <2>2. CASE i # N + 1
    <3>1. i \in DOMAIN list /\ set[i] = WithValue(h, list[i])
      BY <1>1, <2>2 DEF WithValues
    <3> HIDE DEF longer, b, N, set
    <3> QED BY <1>5, <1>6, <2>2, <3>1
  <2> QED BY <2>1, <2>2
<1>8. WithValues(h, longer) = [i \in 1 .. N + 1 |-> WithValue(h, longer[i])]
  BY <1>5 DEF WithValues
<1>9. b = [i \in 1 .. N + 1 |-> b[i]]
  <2> HIDE DEF b
  <2> QED BY <1>6
<1> HIDE DEF longer, b, N
<1>10. WithValues(h, longer) = b
  BY <1>7, <1>8, <1>9
<1> QED BY <1>4, <1>10 DEF longer, b

\* The values of another name stay, those of the header are all the same; and there
\* are none if no element has its name.
LEMMA WithValuesGives ==
    ASSUME NEW M, NEW W, NEW h \in NamedValue(M, W), NEW list \in Seq(NamedValue(M, W)), NEW n
    PROVE  /\ n # h.name => ValuesOf(WithValues(h, list), n) = ValuesOf(list, n)
           /\ Len(ValuesOf(WithValues(h, list), h.name)) = Len(ValuesOf(list, h.name))
           /\ \A i \in 1 .. Len(ValuesOf(list, h.name)) : ValuesOf(WithValues(h, list), h.name)[i] = h.value
           /\ (\E i \in DOMAIN list : list[i].name = h.name) <=> ValuesOf(list, h.name) # <<>>
<1> DEFINE HV == NamedValue(M, W)
           Same(s) == n # h.name => ValuesOf(WithValues(h, s), n) = ValuesOf(s, n)
           Changed(old, new) == /\ Len(new) = Len(old)
                                /\ \A i \in 1 .. Len(old) : new[i] = h.value
           Has(s) == \E i \in DOMAIN s : s[i].name = h.name
           Good(s) == /\ Same(s)
                      /\ Changed(ValuesOf(s, h.name), ValuesOf(WithValues(h, s), h.name))
                      /\ Has(s) <=> ValuesOf(s, h.name) # <<>>
           T == {s \in Seq(HV) : Good(s)}
<1>1. <<>> \in T
  <2> DEFINE none == <<>>
  <2>1. /\ none \in Seq(HV) /\ none = <<>> /\ Len(none) = 0 /\ DOMAIN none = {}
    BY EmptySeq, LenProperties
  <2>2. \A m : ValuesOf(none, m) = none
    BY ValuesNone
  <2>3. WithValues(h, none) = none
    BY WithValuesNone
  <2> HIDE DEF none
  <2>4. Good(none)
    BY <2>1, <2>2, <2>3
  <2> QED BY <2>1, <2>4
<1>2. ASSUME NEW s \in Seq(HV), NEW e \in HV, s \in T PROVE Append(s, e) \in T
  <2> DEFINE t == Append(s, e)
             x == WithValues(h, s)
             o == WithValue(h, e)
             old == ValuesOf(s, h.name)
             new == ValuesOf(x, h.name)
  <2>0. s \in Seq(HV) /\ e \in HV /\ h \in HV
    OBVIOUS
  <2>1. /\ t \in Seq(HV) /\ x \in Seq(HV) /\ o \in HV
        /\ o.name = e.name /\ o.value = IF e.name = h.name THEN h.value ELSE e.value
        /\ WithValues(h, t) = Append(x, o)
    BY WithValuesAppend, WithValueType, AppendProperties
  <2>2. Good(s)
    BY <1>2
  <2>3. h.value \in W /\ e.value \in W
    BY DEF NamedValue
  <2>4. \A m : ValuesOf(t, m) = IF e.name = m THEN Append(ValuesOf(s, m), e.value) ELSE ValuesOf(s, m)
    BY ValuesAppend
  <2>5. \A m : ValuesOf(Append(x, o), m) = IF o.name = m THEN Append(ValuesOf(x, m), o.value) ELSE ValuesOf(x, m)
    <3> HIDE DEF x, o
    <3> QED BY <2>1, ValuesAppend
  <2>6. old \in Seq(W) /\ new \in Seq(W)
    <3>1. old \in Seq(W)
      BY ValuesType
    <3> HIDE DEF x
    <3>2. new \in Seq(W)
      BY <2>1, ValuesType
    <3> QED BY <3>1, <3>2
  <2>7. Same(t)
    <3> HIDE DEF t, x, o
    <3> QED BY <2>1, <2>2, <2>4, <2>5 DEF x
  <2>8. Changed(ValuesOf(t, h.name), ValuesOf(WithValues(h, t), h.name))
    <3>1. Changed(old, new)
      BY <2>2
    <3>2. CASE e.name = h.name
      <4>1. ValuesOf(t, h.name) = Append(old, h.value) \/ ValuesOf(t, h.name) = Append(old, e.value)
        BY <2>4, <3>2
      <4>2. ValuesOf(WithValues(h, t), h.name) = Append(new, h.value)
        <5> HIDE DEF t, x, o
        <5> QED BY <2>1, <2>5, <3>2 DEF x
      <4>3. \A v \in W : Changed(Append(old, v), Append(new, h.value))
        <5> SUFFICES ASSUME NEW v \in W PROVE Changed(Append(old, v), Append(new, h.value))
          OBVIOUS
        <5> HIDE DEF old, new
        <5>1. Len(Append(old, v)) = Len(old) + 1 /\ Len(Append(new, h.value)) = Len(new) + 1
          BY <2>3, <2>6, AppendProperties
        <5>2. Len(old) \in Nat /\ Len(new) = Len(old) /\ \A i \in 1 .. Len(old) : new[i] = h.value
          BY <2>6, <3>1, LenProperties
        <5>3. \A i \in 1 .. Len(old) + 1 :
                  Append(new, h.value)[i] = IF i = Len(old) + 1 THEN h.value ELSE new[i]
          <6> DEFINE last == h.value
          <6>1. last \in W
            BY <2>3
          <6> HIDE DEF last
          <6>2. \A i \in 1 .. Len(new) + 1 :
                    Append(new, last)[i] = IF i = Len(new) + 1 THEN last ELSE new[i]
            BY <2>6, <6>1, AppendProperties
          <6> QED BY <5>2, <6>2 DEF last
        <5> QED BY <5>1, <5>2, <5>3
      <4> HIDE DEF Changed, t, old, new
      <4> QED BY <2>3, <4>1, <4>2, <4>3
    <3>3. CASE e.name # h.name
      <4>1. ValuesOf(t, h.name) = old
        BY <2>4, <3>3
      <4>2. ValuesOf(WithValues(h, t), h.name) = new
        <5> HIDE DEF t, x, o
        <5> QED BY <2>1, <2>5, <3>3 DEF x
      <4> HIDE DEF Changed, t, old, new
      <4> QED BY <3>1, <4>1, <4>2
    <3> QED BY <3>2, <3>3
  <2>9. Has(t) <=> ValuesOf(t, h.name) # <<>>
    <3>1. /\ DOMAIN t = 1 .. Len(s) + 1 /\ DOMAIN s = 1 .. Len(s) /\ Len(s) \in Nat
          /\ t[Len(s) + 1] = e /\ \A i \in 1 .. Len(s) : t[i] = s[i]
      BY <2>0, AppendProperties, LenProperties
    <3> HIDE DEF t
    <3>2. CASE e.name = h.name
      <4>1. Has(t)
        BY <3>1, <3>2
      <4>2. ValuesOf(t, h.name) = Append(old, e.value)
        BY <2>4, <3>2
      <4>3. Append(old, e.value) # <<>>
        <5> HIDE DEF old
        <5>1. Len(Append(old, e.value)) = Len(old) + 1 /\ Len(old) \in Nat
          BY <2>3, <2>6, AppendProperties, LenProperties
        <5> QED BY <5>1, EmptySeq
      <4> QED BY <4>1, <4>2, <4>3
    <3>3. CASE e.name # h.name
      <4>1. Has(t) <=> Has(s)
        BY <3>1, <3>3
      <4>2. ValuesOf(t, h.name) = old
        BY <2>4, <3>3
      <4> QED BY <2>2, <4>1, <4>2
    <3> QED BY <3>2, <3>3
  <2> HIDE DEF t, Same, Changed, Has
  <2>10. Good(t)
    BY <2>7, <2>8, <2>9
  <2> QED BY <2>1, <2>10 DEF t
<1>3. Seq(HV) \subseteq T
  <2> HIDE DEF T
  <2> QED BY <1>1, <1>2, SeqInduction
<1>4. Good(list)
  BY <1>3
<1> QED BY <1>4

\* set: where a name has one value at most, this is now the value.
LEMMA SetInListGives ==
    ASSUME NEW M, NEW W, NEW list \in Seq(NamedValue(M, W)), NEW h \in NamedValue(M, W), NEW n,
           h.name = n => Len(ValuesOf(list, n)) <= 1
    PROVE  ValuesOf(SetInList(list, h), n) = IF h.name = n THEN <<h.value>> ELSE ValuesOf(list, n)
<1> DEFINE HV == NamedValue(M, W)
           old == ValuesOf(list, n)
           set == WithValues(h, list)
           new == ValuesOf(set, n)
           Has == \E i \in DOMAIN list : list[i].name = h.name
<1>1. old \in Seq(W) /\ Len(old) \in Nat
  BY ValuesType, LenProperties
<1>2. new \in Seq(W)
  <2>1. set \in Seq(HV)
    BY WithValuesAppend
  <2> HIDE DEF set
  <2> QED BY <2>1, ValuesType
<1>3. h.value \in W
  BY DEF NamedValue
<1>4. /\ n # h.name => new = old
      /\ n = h.name => /\ Len(new) = Len(old)
                       /\ \A i \in 1 .. Len(old) : new[i] = h.value
                       /\ Has <=> old # <<>>
  BY WithValuesGives
<1>5. SetInList(list, h) = IF Has THEN set ELSE Append(list, h)
  BY DEF SetInList, WithValues, WithValue
<1>6. ValuesOf(Append(list, h), n) = IF h.name = n THEN Append(old, h.value) ELSE old
  BY ValuesAppend
<1> HIDE DEF Has, old, new
<1>7. CASE h.name # n
  BY <1>4, <1>5, <1>6, <1>7 DEF old, new
<1>8. CASE h.name = n /\ Has
  <2>1. Len(old) = 1
    <3>1. old # <<>> /\ Len(old) <= 1
      BY <1>4, <1>8 DEF old
    <3>2. old = <<>> <=> Len(old) = 0
      BY <1>1, EmptySeq
    <3> DEFINE N == Len(old)
    <3>3. N # 0 /\ N \in Nat /\ N <= 1
      BY <1>1, <3>1, <3>2
    <3> HIDE DEF N
    <3>4. N = 1
      BY <3>3
    <3> QED BY <3>4 DEF N
  <2>2. Len(new) = 1 /\ new[1] = h.value
    BY <1>4, <1>8, <2>1
  <2>3. new = <<h.value>>
    BY <1>2, <2>2
  <2> QED BY <1>5, <1>8, <2>3 DEF new
<1>9. CASE h.name = n /\ ~Has
  <2>1. old = <<>>
    BY <1>4, <1>9
  <2>2. Append(<<>>, h.value) = <<h.value>>
    OBVIOUS
  <2> QED BY <1>5, <1>6, <1>9, <2>1, <2>2
<1> QED BY <1>7, <1>8, <1>9

\* set for each header: where a name has one value at most, it is the last that is set.
LEMMA SetAllGives ==
    ASSUME NEW M, NEW W, NEW list \in Seq(NamedValue(M, W)), NEW hvs \in Seq(NamedValue(M, W)), NEW n,
           Len(ValuesOf(list, n)) <= 1 \/ ValuesOf(hvs, n) = <<>>
    PROVE  /\ SetAll(list, hvs) \in Seq(NamedValue(M, W))
           /\ ValuesOf(SetAll(list, hvs), n) = LastOr(ValuesOf(hvs, n), ValuesOf(list, n))
<1> DEFINE HV == NamedValue(M, W)
           op == SetOne(M, W)
           few == Len(ValuesOf(list, n)) <= 1
           Gives(s, set) == /\ set \in Seq(HV)
                            /\ few \/ ValuesOf(s, n) = <<>> =>
                                   ValuesOf(set, n) = LastOr(ValuesOf(s, n), ValuesOf(list, n))
           T == {s \in Seq(HV) : Gives(s, SetAll(list, s))}
<1>1. <<>> \in T
  <2> DEFINE none == <<>>
  <2>1. none \in Seq(HV)
    BY EmptySeq
  <2>2. ValuesOf(none, n) = <<>>
    BY ValuesNone
  <2> HIDE DEF none
  <2>3. Operation(op, Seq(HV), HV) /\ SetAll(list, none) = Folded(op, list, none)
    BY <2>1, SetAllFolds
  <2>4. list \in Seq(HV)
    OBVIOUS
  <2> HIDE DEF op, HV
  <2>5. Folded(op, list, none) = list
    BY <2>3, <2>4, FoldedNone DEF none
  <2>6. Gives(none, SetAll(list, none))
    BY <2>2, <2>3, <2>4, <2>5 DEF LastOr
  <2> HIDE DEF Gives
  <2> QED BY <2>1, <2>6 DEF none
<1>2. ASSUME NEW s \in Seq(HV), NEW e \in HV, s \in T PROVE Append(s, e) \in T
  <2> DEFINE t == Append(s, e)
             x == SetAll(list, s)
             v == ValuesOf(s, n)
  <2>1. t \in Seq(HV)
    BY AppendProperties
  <2>2. Gives(s, x)
    BY <1>2
  <2>3. Operation(op, Seq(HV), HV) /\ x = Folded(op, list, s)
    BY SetAllFolds
  <2>4. SetAll(list, t) = Folded(op, list, t)
    <3> HIDE DEF t
    <3> QED BY <2>1, SetAllFolds
  <2>5. v \in Seq(W) /\ e.value \in W
    BY ValuesType DEF NamedValue
  <2>6. ValuesOf(t, n) = IF e.name = n THEN Append(v, e.value) ELSE v
    BY ValuesAppend
  <2>7. ValuesOf(list, n) \in Seq(W)
    BY ValuesType
  <2> HIDE DEF x, v
  <2>8. SetInList(x, e) \in Seq(HV)
    BY <2>2, OnesType
  <2>9. op[x][e] = SetInList(x, e)
    BY <2>2 DEF SetOne
  <2>10. e \in HV /\ list \in Seq(HV) /\ s \in Seq(HV) /\ x \in Seq(HV)
    BY <2>2
  <2> HIDE DEF op, HV
  <2>11. Folded(op, list, t) = op[Folded(op, list, s)][e]
    BY <2>3, <2>10, FoldedAppend
  <2>12. SetAll(list, t) = SetInList(x, e)
    BY <2>3, <2>4, <2>9, <2>11
  <2>13. ASSUME few \/ ValuesOf(t, n) = <<>>
         PROVE  ValuesOf(SetInList(x, e), n) = LastOr(ValuesOf(t, n), ValuesOf(list, n))
    <3>1. LastOr(Append(v, e.value), ValuesOf(list, n)) = <<e.value>>
      BY <2>5, LastOrAppend
    <3>2. Append(v, e.value) # <<>>
      <4>1. Len(Append(v, e.value)) = Len(v) + 1 /\ Len(v) \in Nat
        BY <2>5, AppendProperties, LenProperties
      <4> QED BY <4>1, EmptySeq
    <3>3. few \/ v = <<>>
      BY <2>6, <2>13, <3>2
    <3>4. ValuesOf(x, n) = LastOr(v, ValuesOf(list, n))
      BY <2>2, <3>3 DEF v
    <3>5. e.name = n => Len(ValuesOf(x, n)) <= 1
      <4> SUFFICES ASSUME e.name = n PROVE Len(ValuesOf(x, n)) <= 1
        OBVIOUS
      <4>1. few
        BY <2>6, <2>13, <3>2
      <4>2. CASE v = <<>>
        BY <3>4, <4>1, <4>2 DEF LastOr
      <4>3. CASE v # <<>>
        <5>1. ValuesOf(x, n) = <<v[Len(v)]>>
          BY <3>4, <4>3 DEF LastOr
        <5> QED BY <5>1
      <4> QED BY <4>2, <4>3
    <3>6. ValuesOf(SetInList(x, e), n) = IF e.name = n THEN <<e.value>> ELSE ValuesOf(x, n)
      BY <2>10, <3>5, SetInListGives DEF HV
    <3> QED BY <2>6, <3>1, <3>4, <3>6
  <2> HIDE DEF t
  <2>14. Gives(t, SetAll(list, t))
    BY <2>8, <2>12, <2>13
  <2> HIDE DEF Gives
  <2> QED BY <2>1, <2>14 DEF t
<1>3. Seq(HV) \subseteq T
  <2> HIDE DEF T
  <2> QED BY <1>1, <1>2, SeqInduction
<1>4. hvs \in T
  BY <1>3
<1> QED BY <1>4

-----------------------------------------------------------------------------
(* The list of the headers of a request, and both modifications of it.     *)

\* SetToSeq lists every element of a finite set once.
LEMMA SetToSeqIs ==
    ASSUME NEW S, IsFiniteSet(S)
    PROVE  /\ SetToSeq(S) \in Seq(S)
           /\ \A x \in S : \E i \in 1 .. Len(SetToSeq(S)) : SetToSeq(S)[i] = x
           /\ \A i, j \in 1 .. Len(SetToSeq(S)) : SetToSeq(S)[i] = SetToSeq(S)[j] => i = j
<1> DEFINE N == Cardinality(S)
           f == SetToSeq(S)
<1>1. N \in Nat /\ ExistsBijection(1 .. N, S)
  BY FS_CardinalityType
<1>2. \E g \in [1 .. N -> S] : IsInjective(g)
  BY <1>1 DEF ExistsBijection, Bijection, Injection, Surjection
<1>3. f \in [1 .. N -> S] /\ IsInjective(f)
  BY <1>2 DEF SetToSeq
<1>4. f \in Seq(S) /\ Len(f) = N
  <2> HIDE DEF f, N
  <2> QED BY <1>1, <1>3
<1>5. f \in Injection(1 .. N, S) /\ IsFiniteSet(1 .. N) /\ Cardinality(1 .. N) = N
  <2>1. 1 \in Int /\ N \in Int /\ (IF 1 > N THEN 0 ELSE N - 1 + 1) = N
    BY <1>1
  <2>2. IsFiniteSet(1 .. N) /\ Cardinality(1 .. N) = N
    BY <2>1, FS_Interval
  <2> QED BY <1>3, <2>2 DEF Injection
<1>6. f \in Surjection(1 .. N, S)
  <2> HIDE DEF f
  <2>1. Cardinality(1 .. N) = Cardinality(S)
    BY <1>5
  <2> QED BY <1>5, <2>1, FS_Injection
<1>7. \A x \in S : \E i \in 1 .. N : f[i] = x
  BY <1>6 DEF Surjection
<1>8. \A i, j \in 1 .. N : f[i] = f[j] => i = j
  BY <1>3 DEF IsInjective
<1> QED BY <1>4, <1>7, <1>8

\* Values under one name.
Tagged(m, values) == [k \in DOMAIN values |-> [name |-> m, value |-> values[k]]]

\* Values under one name are the values of that name, and of no other.
LEMMA TaggedIs ==
    ASSUME NEW M, NEW W, NEW m \in M, NEW values \in Seq(W), NEW n
    PROVE  /\ Tagged(m, values) \in Seq(NamedValue(M, W))
           /\ ValuesOf(Tagged(m, values), n) = IF m = n THEN values ELSE <<>>
<1> DEFINE HV == NamedValue(M, W)
           Good(v, tagged) == tagged \in Seq(HV) /\ ValuesOf(tagged, n) = IF m = n THEN v ELSE <<>>
           T == {v \in Seq(W) : Good(v, Tagged(m, v))}
<1>1. <<>> \in T
  <2> DEFINE none == <<>>
  <2>1. none \in Seq(W) /\ none \in Seq(HV) /\ ValuesOf(none, n) = none /\ none = <<>>
    BY ValuesNone, EmptySeq
  <2> HIDE DEF none
  <2>2. Tagged(m, none) = none
    BY <2>1 DEF Tagged
  <2> QED BY <2>1, <2>2
<1>2. ASSUME NEW v \in Seq(W), NEW e \in W, v \in T PROVE Append(v, e) \in T
  <2> DEFINE t == Append(v, e)
             x == Tagged(m, v)
             o == [name |-> m, value |-> e]
             N == Len(v)
             b == Append(x, o)
  <2>1. o \in HV /\ o.name = m /\ o.value = e
    BY DEF NamedValue
  <2>2. /\ t \in Seq(W) /\ N \in Nat /\ DOMAIN v = 1 .. N /\ DOMAIN t = 1 .. N + 1
        /\ \A i \in 1 .. N + 1 : t[i] = IF i = N + 1 THEN e ELSE v[i]
    BY AppendProperties, LenProperties
  <2>3. Good(v, x)
    BY <1>2
  <2>4. Len(x) = N /\ DOMAIN x = 1 .. N
    <3>1. DOMAIN x = 1 .. N
      BY <2>2 DEF Tagged
    <3> HIDE DEF x, N, HV
    <3> QED BY <2>2, <2>3, <3>1, LenProperties
  <2>5. /\ b \in Seq(HV) /\ DOMAIN b = 1 .. N + 1
        /\ \A i \in 1 .. N + 1 : b[i] = IF i = N + 1 THEN o ELSE x[i]
    <3> HIDE DEF x, o, N, HV
    <3> QED BY <2>1, <2>2, <2>3, <2>4, AppendProperties, LenProperties
  <2>6. \A i \in 1 .. N + 1 : [name |-> m, value |-> t[i]] = b[i]
    <3> SUFFICES ASSUME NEW i \in 1 .. N + 1 PROVE [name |-> m, value |-> t[i]] = b[i]
      OBVIOUS
    <3>1. CASE i = N + 1
      <4> HIDE DEF t, b, N, x
      <4> QED BY <2>2, <2>5, <3>1
    <3>2. CASE i # N + 1
      <4>1. i \in DOMAIN v
        BY <2>2, <3>2
      <4>2. x[i] = [name |-> m, value |-> v[i]]
        BY <4>1 DEF Tagged
      <4> HIDE DEF t, b, N, x
      <4> QED BY <2>2, <2>5, <3>2, <4>2
    <3> QED BY <3>1, <3>2
  <2>7. Tagged(m, t) = b
    <3>1. Tagged(m, t) = [i \in 1 .. N + 1 |-> [name |-> m, value |-> t[i]]]
      BY <2>2 DEF Tagged
    <3>2. b = [i \in 1 .. N + 1 |-> b[i]]
      <4> HIDE DEF b
      <4> QED BY <2>5
    <3> HIDE DEF t, b, N
    <3> QED BY <2>6, <3>1, <3>2
  <2>8. ValuesOf(b, n) = IF m = n THEN Append(ValuesOf(x, n), e) ELSE ValuesOf(x, n)
    <3>1. x \in Seq(NamedValue(M, W)) /\ o \in NamedValue(M, W)
      BY <2>1, <2>3
    <3> HIDE DEF x, o
    <3>2. ValuesOf(Append(x, o), n) = IF o.name = n THEN Append(ValuesOf(x, n), o.value) ELSE ValuesOf(x, n)
      BY <3>1, ValuesAppend
    <3> QED BY <2>1, <3>2
  <2> HIDE DEF b, x
  <2>9. Good(t, Tagged(m, t))
    BY <2>3, <2>5, <2>7, <2>8
  <2> HIDE DEF Good
  <2> QED BY <2>2, <2>9
<1>3. Seq(W) \subseteq T
  <2> HIDE DEF T
  <2> QED BY <1>1, <1>2, SeqInduction
<1>4. Good(values, Tagged(m, values))
  BY <1>3
<1> QED BY <1>4

\* The same for all names and values.
LEMMA TaggedValues ==
    ASSUME NEW M, NEW W
    PROVE  \A m \in M : \A values \in Seq(W) : \A n :
               ValuesOf(Tagged(m, values), n) = IF m = n THEN values ELSE <<>>
<1> SUFFICES ASSUME NEW m \in M, NEW values \in Seq(W), NEW n
             PROVE  ValuesOf(Tagged(m, values), n) = IF m = n THEN values ELSE <<>>
  OBVIOUS
<1>1. Tagged(m, values) \in Seq(NamedValue(M, W))
  BY TaggedIs
<1> QED BY <1>1, TaggedIs

\* The list of a header map has, for each name, the values that the map has.
LEMMA ListOfIs ==
    ASSUME NEW W, NEW M, HeaderNames \subseteq M, NEW headers \in HeaderMap(W), NEW n \in HeaderNames
    PROVE  /\ ListOf(headers) \in Seq(NamedValue(M, W))
           /\ ValuesOf(ListOf(headers), n) = headers[n]
<1> DEFINE HV == NamedValue(M, W)
           names == SetToSeq(HeaderNames)
           N == Len(names)
           seqs == [i \in DOMAIN names |-> Tagged(names[i], headers[names[i]])]
           Found(k) == IF \E j \in 1 .. k : names[j] = n THEN headers[n] ELSE <<>>
<1>0. ASSUME NEW m \in M, NEW values \in Seq(W)
      PROVE  ValuesOf(Tagged(m, values), n) = IF m = n THEN values ELSE <<>>
  BY TaggedValues
<1>1. names \in Seq(HeaderNames)
  BY SetToSeqIs, HeaderNamesAssumption
<1>2. (\E i \in 1 .. N : names[i] = n) /\ \A i, j \in 1 .. N : names[i] = names[j] => i = j
  BY SetToSeqIs, HeaderNamesAssumption
<1> HIDE DEF names
<1>3. N \in Nat /\ DOMAIN names = 1 .. N /\ \A i \in 1 .. N : names[i] \in HeaderNames
  BY <1>1, LenProperties, ElementOfSeq
<1>4. \A m \in HeaderNames : m \in M /\ headers[m] \in Seq(W)
  BY DEF HeaderMap
<1>5. \A i \in 1 .. N : /\ seqs[i] = Tagged(names[i], headers[names[i]])
                        /\ seqs[i] \in Seq(HV)
                        /\ ValuesOf(seqs[i], n) = IF names[i] = n THEN headers[n] ELSE <<>>
  <2> SUFFICES ASSUME NEW i \in 1 .. N
               PROVE  /\ seqs[i] = Tagged(names[i], headers[names[i]])
                      /\ seqs[i] \in Seq(HV)
                      /\ ValuesOf(seqs[i], n) = IF names[i] = n THEN headers[n] ELSE <<>>
    OBVIOUS
  <2> DEFINE m == names[i]
             values == headers[m]
  <2>1. seqs[i] = Tagged(m, values)
    BY <1>3
  <2>2. m \in M /\ values \in Seq(W)
    BY <1>3, <1>4
  <2> HIDE DEF values, m, seqs
  <2>3. /\ Tagged(m, values) \in Seq(NamedValue(M, W))
        /\ ValuesOf(Tagged(m, values), n) = IF m = n THEN values ELSE <<>>
    <3>1. Tagged(m, values) \in Seq(NamedValue(M, W))
      BY <2>2, TaggedIs
    <3>2. ValuesOf(Tagged(m, values), n) = IF m = n THEN values ELSE <<>>
      BY <1>0, <2>2
    <3> QED BY <3>1, <3>2
  <2>4. seqs[i] \in Seq(HV) /\ ValuesOf(seqs[i], n) = IF m = n THEN values ELSE <<>>
    BY <2>1, <2>3
  <2> QED BY <2>1, <2>4 DEF m, values
<1>6. seqs \in Seq(Seq(HV)) /\ Len(seqs) = N
  <2>1. seqs \in [1 .. N -> Seq(HV)]
    <3>1. DOMAIN seqs = 1 .. N /\ seqs = [i \in 1 .. N |-> seqs[i]]
      BY <1>3
    <3> HIDE DEF seqs, HV
    <3> QED BY <1>5, <3>1
  <2> HIDE DEF seqs, HV, N
  <2> QED BY <1>3, <2>1
<1>7. ListOf(headers) = FlattenSeq(seqs)
  BY DEF ListOf, Tagged, names
<1> HIDE DEF seqs
<1>8. PICK g \in [0 .. N -> Seq(HV)] :
          /\ g[0] = <<>> /\ \A k \in 1 .. N : g[k] = g[k - 1] \o seqs[k]
          /\ g[N] = FlattenSeq(seqs)
  <2>1. \E g \in [0 .. Len(seqs) -> Seq(HV)] :
            /\ g[0] = <<>> /\ \A k \in 1 .. Len(seqs) : g[k] = g[k - 1] \o seqs[k]
            /\ g[Len(seqs)] = FlattenSeq(seqs)
    <3> HIDE DEF HV
    <3> QED BY <1>6, FlattenIs
  <2> QED BY <1>6, <2>1
<1> DEFINE T == {k \in 0 .. N : ValuesOf(g[k], n) = Found(k)}
<1>9. 0 \in T
  BY <1>3, <1>8, ValuesNone
<1>10. ASSUME NEW k \in 0 .. N - 1, k \in T PROVE k + 1 \in T
  <2> DEFINE i == k + 1
             x == g[k]
             s == seqs[i]
  <2>1. i \in 1 .. N /\ i \in 0 .. N /\ i - 1 = k /\ k \in 0 .. N
    BY <1>3
  <2>2. g[i] = x \o s /\ x \in Seq(HV) /\ s \in Seq(HV)
    BY <1>5, <1>8, <2>1
  <2>3. ValuesOf(x, n) = Found(k) /\ ValuesOf(s, n) = IF names[i] = n THEN headers[n] ELSE <<>>
    BY <1>5, <1>10, <2>1
  <2> HIDE DEF x, s
  <2>4. ValuesOf(x \o s, n) = ValuesOf(x, n) \o ValuesOf(s, n)
    BY <2>2, ValuesConcat
  <2>5. headers[n] \in Seq(W)
    BY <1>4
  <2>6. CASE names[i] = n
    <3>1. ~\E j \in 1 .. k : names[j] = n
      BY <1>2, <1>3, <2>1, <2>6
    <3>2. Found(k) = <<>> /\ Found(i) = headers[n]
      BY <1>3, <2>1, <2>6, <3>1
    <3> DEFINE own == headers[n]
    <3>3. own \in Seq(W)
      BY <2>5
    <3> HIDE DEF own
    <3>4. <<>> \o own = own
      BY <3>3, ConcatEmptySeq
    <3>5. ValuesOf(g[i], n) = Found(i)
      BY <2>2, <2>3, <2>4, <2>6, <3>2, <3>4 DEF own
    <3> QED BY <2>1, <3>5
  <2>7. CASE names[i] # n
    <3>1. (\E j \in 1 .. i : names[j] = n) <=> \E j \in 1 .. k : names[j] = n
      BY <1>3, <2>1, <2>7
    <3>2. Found(i) = Found(k) /\ Found(k) \in Seq(W)
      BY <2>5, <3>1, EmptySeq
    <3> HIDE DEF Found
    <3> DEFINE own == Found(k)
    <3>3. own \in Seq(W)
      BY <3>2
    <3> HIDE DEF own
    <3>4. own \o <<>> = own
      BY <3>3, ConcatEmptySeq
    <3>5. ValuesOf(g[i], n) = Found(i)
      BY <2>2, <2>3, <2>4, <2>7, <3>2, <3>4 DEF own
    <3> QED BY <2>1, <3>5
  <2> QED BY <2>6, <2>7
<1>11. 0 .. N \subseteq T
  <2>1. N \in Nat /\ 0 \in T /\ \A k \in 0 .. N - 1 : k \in T => k + 1 \in T
    BY <1>3, <1>9, <1>10
  <2> HIDE DEF T
  <2> QED BY <2>1, UpTo
<1>12. N \in 0 .. N /\ Found(N) = headers[n]
  BY <1>2, <1>3
<1> HIDE DEF Found, HV
<1> QED BY <1>7, <1>8, <1>11, <1>12 DEF HV

\* remove: the values of a name are all kept, or all removed.
LEMMA RemovedGives ==
    ASSUME NEW W, NEW headers \in HeaderMap(W), NEW names
    PROVE  /\ Removed(headers, names) \in HeaderMap(W)
           /\ \A n \in HeaderNames :
                  Removed(headers, names)[n] = IF n \in ToSet(names) THEN <<>> ELSE headers[n]
<1> DEFINE none == <<>>
           gone == ToSet(names)
<1>1. none \in Seq(W)
  BY EmptySeq
<1>2. Removed(headers, names) = [n \in HeaderNames |-> IF n \in gone THEN none ELSE headers[n]]
  BY DEF Removed, HeaderMap
<1> HIDE DEF none, gone
<1>3. Removed(headers, names) \in HeaderMap(W)
  BY <1>1, <1>2 DEF HeaderMap
<1>4. \A n \in HeaderNames : Removed(headers, names)[n] = IF n \in gone THEN none ELSE headers[n]
  BY <1>2
<1> QED BY <1>3, <1>4 DEF none, gone

\* What the pipeline makes of headers, name by name.
LEMMA ModifiedType ==
    ASSUME NEW W, NEW M, NEW headers \in HeaderMap(W), NEW m,
           m.add \in Seq(NamedValue(M, W)), m.set \in Seq(NamedValue(M, W)), NEW n \in HeaderNames
    PROVE  /\ ModifyHeaders(headers, m) \in HeaderMap(W)
           /\ ModifyHeaders(headers, m)[n] =
                  LastOr(UsableValues(m.set, n), Removed(headers, m.remove)[n]) \o UsableValues(m.add, n)
<1> DEFINE r == Removed(headers, m.remove)
           add == m.add
           set == m.set
           inserted == InsertAll(r, set)
<1>1. r \in HeaderMap(W) /\ add \in Seq(NamedValue(M, W)) /\ set \in Seq(NamedValue(M, W))
  BY RemovedGives
<1>2. ModifyHeaders(headers, m) = AppendAll(inserted, add)
  BY DEF ModifyHeaders
<1> HIDE DEF r, add, set
<1>3. inserted \in HeaderMap(W) /\ inserted[n] = LastOr(UsableValues(set, n), r[n])
  BY <1>1, InsertAllGives
<1> HIDE DEF inserted
<1>4. /\ AppendAll(inserted, add) \in HeaderMap(W)
      /\ AppendAll(inserted, add)[n] = inserted[n] \o UsableValues(add, n)
  <2>1. AppendAll(inserted, add) \in HeaderMap(W)
    BY <1>1, <1>3, AppendAllGives
  <2>2. inserted \in HeaderMap(W) /\ add \in Seq(NamedValue(M, W))
    BY <1>1, <1>3
  <2>3. AppendAll(inserted, add)[n] = inserted[n] \o UsableValues(add, n)
    BY <2>2, AppendAllGives
  <2> QED BY <2>1, <2>3
<1> QED BY <1>2, <1>3, <1>4 DEF r, add, set

\* Both implementations leave a name with the same values: those that are added follow
\* the last that is set, or what is left if none is.
LEMMA HeadersAgree ==
    ASSUME NEW W, NEW M, HeaderNames \subseteq M, NEW headers \in HeaderMap(W),
           NEW add \in Seq(NamedValue(M, W)), NEW set \in Seq(NamedValue(M, W)), NEW remove,
           NEW n \in HeaderNames,
           ValuesOf(UsableOf(set), n) = <<>> \/ Len(Removed(headers, remove)[n]) <= 1
    PROVE  ModifyHeaders(headers, [add |-> add, set |-> set, remove |-> remove])[n] =
               ValuesOf(ModifyList(ListOf(headers),
                                   [add |-> UsableOf(add), set |-> UsableOf(set), remove |-> remove]), n)
<1> DEFINE HV == NamedValue(M, W)
           list == ListOf(headers)
           kept == Retained(list, remove)
           uset == UsableOf(set)
           uadd == UsableOf(add)
           tested == SetAll(kept, uset)
           left == Removed(headers, remove)[n]
           m == [add |-> add, set |-> set, remove |-> remove]
<1>1. list \in Seq(HV) /\ ValuesOf(list, n) = headers[n]
  BY ListOfIs
<1>2. uset \in Seq(HV) /\ uadd \in Seq(HV)
  BY UsableSteps
<1>3. left = IF n \in ToSet(remove) THEN <<>> ELSE headers[n]
  BY RemovedGives
<1>4. kept \in Seq(HV) /\ ValuesOf(kept, n) = left
  <2> HIDE DEF list, left
  <2>1. /\ kept \in Seq(HV)
        /\ ValuesOf(kept, n) = IF n \in ToSet(remove) THEN <<>> ELSE ValuesOf(list, n)
    BY <1>1, RetainedGives
  <2> QED BY <1>1, <1>3, <2>1
<1>5. ValuesOf(uset, n) = <<>> \/ Len(left) <= 1
  OBVIOUS
<1>6. m.add = add /\ m.set = set /\ m.remove = remove
  OBVIOUS
<1>7. ModifyList(list, [add |-> uadd, set |-> uset, remove |-> remove]) = tested \o uadd
  BY DEF ModifyList
<1> HIDE DEF list, uset, uadd, left, m, kept
<1>8. tested \in Seq(HV) /\ ValuesOf(tested, n) = LastOr(ValuesOf(uset, n), left)
  <2>1. Len(ValuesOf(kept, n)) <= 1 \/ ValuesOf(uset, n) = <<>>
    BY <1>4, <1>5
  <2> HIDE DEF tested
  <2>2. /\ SetAll(kept, uset) \in Seq(HV)
        /\ ValuesOf(SetAll(kept, uset), n) = LastOr(ValuesOf(uset, n), ValuesOf(kept, n))
    BY <1>2, <1>4, <2>1, SetAllGives
  <2> QED BY <1>4, <2>2 DEF tested
<1> HIDE DEF tested
<1>9. ValuesOf(tested \o uadd, n) = ValuesOf(tested, n) \o ValuesOf(uadd, n)
  <2>1. tested \in Seq(NamedValue(M, W)) /\ uadd \in Seq(NamedValue(M, W))
    BY <1>2, <1>8
  <2> HIDE DEF HV
  <2> QED BY <2>1, ValuesConcat
<1>10. ModifyHeaders(headers, m)[n] = LastOr(UsableValues(set, n), left) \o UsableValues(add, n)
  <2>1. m.add \in Seq(NamedValue(M, W)) /\ m.set \in Seq(NamedValue(M, W))
    BY <1>6
  <2>2. ModifyHeaders(headers, m)[n] =
            LastOr(UsableValues(m.set, n), Removed(headers, m.remove)[n]) \o UsableValues(m.add, n)
    BY <2>1, ModifiedType
  <2> QED BY <1>6, <2>2 DEF left
<1>11. ValuesOf(uset, n) = UsableValues(set, n) /\ ValuesOf(uadd, n) = UsableValues(add, n)
  BY DEF uset, uadd, UsableValues
<1>12. ModifyHeaders(headers, m)[n] = ValuesOf(ModifyList(list, [add |-> uadd, set |-> uset, remove |-> remove]), n)
  BY <1>7, <1>8, <1>9, <1>10, <1>11
<1> QED BY <1>12 DEF m, list, uadd, uset

\* The filters of a type.
LEMMA OfTypeIs ==
    ASSUME NEW filters \in Seq(RouteFilter), NEW type
    PROVE  OfType(filters, type) \in Seq({f \in RouteFilter : f.type = type})
<1> DEFINE chosen == {f \in ToSet(filters) : f.type = type}
<1>1. chosen \in SUBSET RouteFilter /\ chosen \subseteq {f \in RouteFilter : f.type = type}
  BY ToSetIs
<1>2. OfType(filters, type) = Selected(filters, chosen)
  BY DEF OfType
<1> HIDE DEF chosen
<1>3. Selected(filters, chosen) \in Seq(chosen)
  BY <1>1, SelectedIn
<1> QED BY <1>1, <1>2, <1>3, SeqMonotonic

\* What the filters of a rule say together is of the type of what each says.
LEMMA ModificationIs ==
    ASSUME NEW filters \in Seq(RouteFilter), NEW type \in ModifierTypes
    PROVE  \E add \in Seq(HeaderValue), set \in Seq(HeaderValue), remove \in Seq(Texts) :
               Modification(filters, type) = [add |-> add, set |-> set, remove |-> remove]
<1> DEFINE modifiers == OfType(filters, type)
           N == Len(modifiers)
           adds == [i \in DOMAIN modifiers |-> modifiers[i].add]
           sets == [i \in DOMAIN modifiers |-> modifiers[i].set]
           removes == [i \in DOMAIN modifiers |-> modifiers[i].remove]
<1>1. modifiers \in Seq({f \in RouteFilter : f.type = type})
  BY OfTypeIs
<1> HIDE DEF modifiers
<1>2. N \in Nat /\ DOMAIN modifiers = 1 .. N
      /\ \A i \in 1 .. N : modifiers[i] \in RouteFilter /\ modifiers[i].type = type
  BY <1>1, LenProperties, ElementOfSeq
<1>3. \A f \in RouteFilter : f.type = type =>
          f.add \in Seq(HeaderValue) /\ f.set \in Seq(HeaderValue) /\ f.remove \in Seq(Texts)
  BY DEF RouteFilter, ModifierTypes
<1>4. /\ adds \in [1 .. N -> Seq(HeaderValue)] /\ sets \in [1 .. N -> Seq(HeaderValue)]
      /\ removes \in [1 .. N -> Seq(Texts)]
  BY <1>2, <1>3
<1> HIDE DEF adds, sets, removes, N
<1>5. /\ adds \in Seq(Seq(HeaderValue)) /\ sets \in Seq(Seq(HeaderValue))
      /\ removes \in Seq(Seq(Texts))
  BY <1>2, <1>4
<1>6. /\ FlattenSeq(adds) \in Seq(HeaderValue) /\ FlattenSeq(sets) \in Seq(HeaderValue)
      /\ FlattenSeq(removes) \in Seq(Texts)
  BY <1>5, FlattenType
<1> QED BY <1>6 DEF Modification, adds, sets, removes, modifiers

-----------------------------------------------------------------------------
(* FiltersAsTested: headers, redirects and the host.                       *)

\* The values that occur in the headers of the request and of modifications.
Values == Seq(Texts) \cup {Append(request.host, Port)} \cup {<<pair[2]>> : pair \in request.headers}

\* The request that the pipeline has: its headers, its host, its path.
LEMMA HttpRequestType ==
    ASSUME request \in Requests
    PROVE  /\ HttpRequest.headers \in HeaderMap(Values)
           /\ HttpRequest.headers["host"] =
                  IF request.host = <<>> THEN <<>> ELSE <<Append(request.host, Port)>>
           /\ HttpRequest.path = request.path
<1> DEFINE own == <<Append(request.host, Port)>>
           none == <<>>
           Pairs(n) == {h \in request.headers : h[1] = n}
           Some(n) == {<<pair[2]>> : pair \in Pairs(n)}
           Of(n) == SetToSeq(Some(n))
           host == IF request.host = <<>> THEN none ELSE own
           headers == [n \in HeaderNames |-> IF n = "host" THEN host ELSE Of(n)]
<1>1. host \in Seq(Values)
  <2>1. Append(request.host, Port) \in Values
    BY DEF Values
  <2> DEFINE v == Append(request.host, Port)
  <2> HIDE DEF v
  <2>2. none \in Seq(Values) /\ own \in Seq(Values)
    BY <2>1, EmptySeq DEF v
  <2> QED BY <2>2
<1>2. ASSUME NEW n \in HeaderNames PROVE Of(n) \in Seq(Values)
  <2>1. IsFiniteSet(Pairs(n))
    <3>1. IsFiniteSet(request.headers) /\ Pairs(n) \in SUBSET request.headers
      BY RouteConfigAssumption
    <3> HIDE DEF Pairs
    <3> QED BY <3>1, FS_Subset
  <2> DEFINE P == Pairs(n)
             S == Some(n)
             f == [pair \in P |-> <<pair[2]>>]
  <2>2. f \in Surjection(P, S)
    <3> HIDE DEF Pairs
    <3> QED BY DEF Surjection
  <2>3. IsFiniteSet(S)
    <3> HIDE DEF f, S, P, Some
    <3>1. IsFiniteSet(P)
      BY <2>1 DEF P
    <3> QED BY <2>2, <3>1, FS_Surjection
  <2>4. S \subseteq Values
    BY DEF Values
  <2> HIDE DEF S, Some
  <2>5. SetToSeq(S) \in Seq(S)
    BY <2>3, SetToSeqIs
  <2>6. SetToSeq(S) \in Seq(Values)
    BY <2>4, <2>5, SeqMonotonic
  <2> QED BY <2>6 DEF S
<1>3. HttpRequest.headers = headers /\ HttpRequest.path = request.path
  BY DEF HttpRequest
<1> HIDE DEF Of, host
<1>4. headers \in HeaderMap(Values) /\ headers["host"] = host
  BY <1>1, <1>2, HeaderNamesAssumption DEF HeaderMap
<1> QED BY <1>3, <1>4 DEF host

\* Headers of the configuration are names and values.
LEMMA NamesAndValues ==
    ASSUME NEW hvs \in Seq(HeaderValue)
    PROVE  hvs \in Seq(NamedValue(HeaderNames \cup Texts, Values))
<1>1. HeaderValue \subseteq NamedValue(HeaderNames \cup Texts, Values)
  BY DEF HeaderValue, NamedValue, Values
<1> QED BY <1>1, SeqMonotonic

\* The first part of FiltersAsTested: headers.
LEMMA HeadersAreAsTested ==
    ASSUME request \in Requests, NEW filters \in Seq(RouteFilter), NEW type \in ModifierTypes
    PROVE  HeadersAsTested(filters, type)
<1> DEFINE M == HeaderNames \cup Texts
           headers == HttpRequest.headers
<1>1. PICK add \in Seq(HeaderValue), set \in Seq(HeaderValue), remove \in Seq(Texts) :
          Modification(filters, type) = [add |-> add, set |-> set, remove |-> remove]
  BY ModificationIs
<1>2. add \in Seq(NamedValue(M, Values)) /\ set \in Seq(NamedValue(M, Values))
  BY NamesAndValues
<1>3. headers \in HeaderMap(Values) /\ HeaderNames \subseteq M
  BY HttpRequestType
<1> HIDE DEF M, headers
<1> DEFINE m == [add |-> add, set |-> set, remove |-> remove]
           usable == [m EXCEPT !.add = UsableOf(@), !.set = UsableOf(@)]
           Repeated(n) == ValuesOf(usable.set, n) # <<>> /\ Len(Removed(headers, m.remove)[n]) > 1
<1>4. usable = [add |-> UsableOf(add), set |-> UsableOf(set), remove |-> remove]
  <2> DEFINE a == UsableOf(m.add)
             s == UsableOf(m.set)
  <2>1. a = UsableOf(add) /\ s = UsableOf(set)
    OBVIOUS
  <2>2. usable = [m EXCEPT !.add = a, !.set = s]
    OBVIOUS
  <2> HIDE DEF a, s, usable
  <2>3. [m EXCEPT !.add = a, !.set = s] = [add |-> a, set |-> s, remove |-> remove]
    <3> DEFINE x == [m EXCEPT !.add = a, !.set = s]
    <3>1. DOMAIN m = {"add", "set", "remove"} /\ m.remove = remove
      OBVIOUS
    <3> HIDE DEF m
    <3>2. x = [field \in {"add", "set", "remove"} |->
                  IF field = "add" THEN a ELSE IF field = "set" THEN s ELSE m[field]]
      BY <3>1
    <3> QED BY <3>1, <3>2
  <2> QED BY <2>1, <2>2, <2>3
<1>5. ASSUME NEW n \in HeaderNames, ~Repeated(n)
      PROVE  ModifyHeaders(headers, m)[n] = ValuesOf(ModifyList(ListOf(headers), usable), n)
  <2>1. ValuesOf(UsableOf(set), n) = <<>> \/ Len(Removed(headers, remove)[n]) <= 1
    <3> DEFINE left == Removed(headers, remove)[n]
    <3>1. left \in Seq(Values)
      <4>1. Removed(headers, remove) \in HeaderMap(Values)
        BY <1>3, RemovedGives
      <4> QED BY <4>1 DEF HeaderMap
    <3>2. Len(left) \in Nat
      BY <3>1, LenProperties
    <3>3. ValuesOf(UsableOf(set), n) = <<>> \/ ~(Len(left) > 1)
      BY <1>4, <1>5
    <3> HIDE DEF left
    <3>4. ~(Len(left) > 1) => Len(left) <= 1
      BY <3>2
    <3> QED BY <3>3, <3>4 DEF left
  <2> HIDE DEF usable
  <2> QED BY <1>2, <1>3, <1>4, <2>1, HeadersAgree
<1>6. HeadersAsTested(filters, type) =
          \A n \in HeaderNames \ {x \in HeaderNames : Repeated(x)} :
              ModifyHeaders(headers, m)[n] = ValuesOf(ModifyList(ListOf(headers), usable), n)
  BY <1>1 DEF HeadersAsTested, headers
<1> HIDE DEF m, usable, Repeated
<1> QED BY <1>5, <1>6

\* What is redirected to.
LEMMA RedirectIsAsTested == ASSUME NEW filters PROVE RedirectAsTested(filters)
<1> DEFINE f == Head(OfType(filters, "RequestRedirect"))
           tested == ComputeRedirect(f, HttpRequest, request.host)
           done == RedirectTo(f, request.path, request.host)
<1>1. HttpRequest.path = request.path
  BY DEF HttpRequest
<1>2. /\ done.scheme = WithDefault(f.scheme, "http") /\ tested.scheme = done.scheme
      /\ done.status = tested.status
      /\ request.host # <<>> => done.host = tested.host
      /\ done.port = f.port /\ tested.port = {p \in f.port : ~StandardPort(done.scheme, p)}
      /\ done.path = WithDefault({p.value : p \in f.path}, request.path)
      /\ tested.path = WithDefault({ModifiedPath(p, request.path) : p \in f.path}, request.path)
  <2> HIDE DEF f
  <2> QED BY <1>1 DEF ComputeRedirect, RedirectTo
<1> HIDE DEF f, tested, done
<1>3. (\A p \in f.path : p.type = "ReplaceFullPath") =>
          {p.value : p \in f.path} = {ModifiedPath(p, request.path) : p \in f.path}
  BY DEF ModifiedPath
<1>4. (\A p \in f.port : ~StandardPort(done.scheme, p)) => done.port = tested.port
  BY <1>2
<1>5. (\A p \in f.path : p.type = "ReplaceFullPath") => done.path = tested.path
  BY <1>2, <1>3
<1> QED BY <1>2, <1>4, <1>5 DEF RedirectAsTested, f, tested, done

\* A request that had a host has one when it is forwarded.
LEMMA HostIsSent ==
    ASSUME request \in Requests, request.host # <<>>, NEW filters \in Seq(RouteFilter)
    PROVE  UpstreamRequest(filters, HttpRequest).headers["host"] # <<>>
<1> DEFINE M == HeaderNames \cup Texts
           headers == HttpRequest.headers
           rewrites == OfType(filters, "URLRewrite")
           rewrite == Rewrite(filters, HttpRequest.path)
           host == WithDefault(rewrite.hostname, <<>>)
           rewritten == IF rewrite.hostname = {} THEN headers
                        ELSE Insert(headers, [name |-> "host", value |-> host])
           m == Modification(filters, "RequestHeaderModifier")
           modified == ModifyHeaders(rewritten, m)
           meta == MetaHost(headers)
<1>1. rewrite.hostname \in AtMostOneOf(Seq(Texts))
  <2>1. rewrites \in Seq({f \in RouteFilter : f.type = "URLRewrite"})
    BY OfTypeIs
  <2> HIDE DEF rewrites
  <2>2. CASE rewrites = <<>>
    <3>1. rewrite.hostname = {}
      BY <2>2 DEF Rewrite, rewrites
    <3> QED BY <3>1 DEF AtMostOneOf
  <2>3. CASE rewrites # <<>>
    <3>1. Last(rewrites) \in {f \in RouteFilter : f.type = "URLRewrite"}
      <4>1. Len(rewrites) \in 1 .. Len(rewrites)
        <5>1. Len(rewrites) \in Nat /\ Len(rewrites) # 0
          BY <2>1, <2>3, LenProperties, EmptySeq
        <5> QED BY <5>1
      <4> QED BY <2>1, <4>1, ElementOfSeq DEF Last
    <3>2. \A f \in RouteFilter : f.type = "URLRewrite" => f.hostname \in AtMostOneOf(Seq(Texts))
      BY DEF RouteFilter, ModifierTypes
    <3>3. rewrite.hostname = Last(rewrites).hostname
      BY <2>3 DEF Rewrite, ComputeRewrite, rewrites
    <3> QED BY <3>1, <3>2, <3>3
  <2> QED BY <2>2, <2>3
<1>2. headers \in HeaderMap(Values) /\ headers["host"] = <<Append(request.host, Port)>>
  BY HttpRequestType
<1>3. host \in Values
  <2> DEFINE none == <<>>
  <2>1. none \in Seq(Texts)
    BY EmptySeq
  <2> HIDE DEF none, rewrite
  <2>2. WithDefault(rewrite.hostname, none) \in Seq(Texts)
    BY <1>1, <2>1, WithDefaultIn
  <2> QED BY <2>2 DEF none, Values
<1>4. rewritten \in HeaderMap(Values)
  <2> DEFINE hv == [name |-> "host", value |-> host]
  <2>1. hv \in NamedValue(M, Values)
    BY <1>3, HeaderNamesAssumption DEF NamedValue
  <2> HIDE DEF hv, headers, M
  <2>2. Insert(headers, hv) \in HeaderMap(Values)
    BY <1>2, <2>1, OnesType
  <2> QED BY <1>2, <2>2 DEF hv
<1>5. m.add \in Seq(NamedValue(M, Values)) /\ m.set \in Seq(NamedValue(M, Values))
  <2>1. PICK add \in Seq(HeaderValue), set \in Seq(HeaderValue), remove \in Seq(Texts) :
            m = [add |-> add, set |-> set, remove |-> remove]
    BY ModificationIs DEF ModifierTypes
  <2>2. add \in Seq(NamedValue(M, Values)) /\ set \in Seq(NamedValue(M, Values))
    BY NamesAndValues
  <2> HIDE DEF m
  <2> QED BY <2>1, <2>2
<1>6. UpstreamRequest(filters, HttpRequest).headers =
          IF modified["host"] = <<>> /\ meta # {}
          THEN [modified EXCEPT !["host"] = <<WithDefault(meta, <<>>)>>] ELSE modified
  BY DEF UpstreamRequest
<1>7. meta # {}
  <2>1. headers["host"] # <<>>
    BY <1>2
  <2> HIDE DEF headers
  <2> QED BY <2>1 DEF MetaHost
<1> HIDE DEF rewritten, m, meta
<1>8. modified \in HeaderMap(Values)
  BY <1>4, <1>5, HeaderNamesAssumption, ModifiedType
<1> HIDE DEF modified
<1>9. [modified EXCEPT !["host"] = <<WithDefault(meta, <<>>)>>]["host"] = <<WithDefault(meta, <<>>)>>
  BY <1>8, HeaderNamesAssumption DEF HeaderMap
<1>10. <<WithDefault(meta, <<>>)>> # <<>>
  OBVIOUS
<1> QED BY <1>6, <1>7, <1>9, <1>10

-----------------------------------------------------------------------------
(* Paths that follow one another, and replaced prefixes.                   *)

\* A character that follows goes to the last of the elements, whatever is before it.
LEMMA WithCharacterAfter ==
    ASSUME NEW S, NEW x \in Seq(Seq(S)), NEW y \in Begun(S), NEW c \in S
    PROVE  /\ x \o y \in Begun(S)
           /\ WithCharacter(x \o y, c) = x \o WithCharacter(y, c)
<1> DEFINE V == Seq(S)
           k == Len(x)
           m == Len(y)
           xy == x \o y
<1>1. /\ y \in Seq(V) /\ k \in Nat /\ m \in Nat /\ m >= 1 /\ m \in 1 .. m
      /\ \A j \in 1 .. m : y[j] \in V
  <2>1. k \in Nat
    BY LenProperties
  <2> QED BY <2>1, BegunType
<1>2. /\ xy \in Seq(V) /\ Len(xy) = k + m
      /\ \A i \in 1 .. k + m : xy[i] = IF i <= k THEN x[i] ELSE y[i - k]
  BY <1>1, ConcatProperties
<1>3. x \o y \in Begun(S)
  <2>1. xy # <<>>
    <3> HIDE DEF xy
    <3> QED BY <1>1, <1>2, EmptySeq
  <2> QED BY <1>2, <2>1 DEF Begun
<1>4. CASE c = "/"
  <2> DEFINE none == <<>>
  <2>1. none \in V
    BY EmptySeq
  <2>2. WithCharacter(xy, c) = Append(xy, none) /\ WithCharacter(y, c) = Append(y, none)
    BY <1>4 DEF WithCharacter
  <2> HIDE DEF none, V
  <2>3. x \in Seq(V)
    BY DEF V
  <2>4. x \o Append(y, none) = Append(x \o y, none)
    BY <1>1, <2>1, <2>3, AppendAfter
  <2> QED BY <1>3, <2>2, <2>4
<1>5. CASE c # "/"
  <2> DEFINE last == Append(y[m], c)
             longer == [y EXCEPT ![m] = last]
             a == [xy EXCEPT ![k + m] = last]
             b == x \o longer
  <2>1. last \in V
    BY <1>1, AppendProperties
  <2>2. WithCharacter(y, c) = longer
    BY <1>5 DEF WithCharacter
  <2>3. WithCharacter(xy, c) = a
    <3>1. xy[k + m] = y[m]
      <4> DEFINE q == k + m
      <4>1. q \in 1 .. k + m /\ ~(q <= k) /\ q - k = m
        BY <1>1
      <4> HIDE DEF xy, k, m, q
      <4>2. xy[q] = y[m]
        BY <1>2, <4>1
      <4> QED BY <4>2 DEF q
    <3> HIDE DEF xy, k, m
    <3> QED BY <1>2, <1>5, <3>1 DEF WithCharacter
  <2> HIDE DEF last, V
  <2>4. /\ longer \in Seq(V) /\ Len(longer) = m
        /\ \A j \in 1 .. m : longer[j] = IF j = m THEN last ELSE y[j]
    BY <1>1, <2>1, ExceptSeq
  <2>5. /\ a \in Seq(V) /\ Len(a) = k + m
        /\ \A j \in 1 .. k + m : a[j] = IF j = k + m THEN last ELSE xy[j]
    <3>1. k + m \in 1 .. Len(xy)
      BY <1>1, <1>2
    <3> HIDE DEF xy, k, m
    <3> QED BY <1>2, <2>1, <3>1, ExceptSeq
  <2> HIDE DEF longer
  <2>6. /\ b \in Seq(V) /\ Len(b) = k + m
        /\ \A i \in 1 .. k + m : b[i] = IF i <= k THEN x[i] ELSE longer[i - k]
    <3>1. x \in Seq(V)
      BY DEF V
    <3>2. /\ b \in Seq(V) /\ Len(b) = Len(x) + Len(longer)
          /\ \A i \in 1 .. Len(x) + Len(longer) : b[i] = IF i <= Len(x) THEN x[i] ELSE longer[i - Len(x)]
      BY <2>4, <3>1, ConcatProperties
    <3>3. Len(x) + Len(longer) = k + m /\ Len(x) = k
      BY <2>4
    <3> HIDE DEF b, k, m
    <3> QED BY <3>2, <3>3
  <2>7. \A i \in 1 .. k + m : a[i] = b[i]
    <3> HIDE DEF a, b, xy, k, m
    <3> SUFFICES ASSUME NEW i \in 1 .. k + m PROVE a[i] = b[i]
      OBVIOUS
    <3>1. CASE i <= k
      <4>1. i # k + m
        BY <1>1, <3>1
      <4> QED BY <1>2, <2>5, <2>6, <3>1, <4>1
    <3>2. CASE ~(i <= k)
      <4>1. i - k \in 1 .. m /\ (i = k + m <=> i - k = m)
        BY <1>1, <3>2
      <4> QED BY <1>2, <2>4, <2>5, <2>6, <3>2, <4>1
    <3> QED BY <3>1, <3>2
  <2> HIDE DEF a, b
  <2>8. a = b
    BY <2>5, <2>6, <2>7, SeqEqual
  <2> QED BY <1>3, <2>2, <2>3, <2>8 DEF b
<1> QED BY <1>4, <1>5

\* All elements of a path that follows another follow all of that path.
AllOf(e, path) == e[Len(path) - 1]

\* The elements of a path that is built after another come after those of that one.
LEMMA BuiltTogether ==
    ASSUME NEW S, NEW a \in Seq(S), Absolute(a), NEW b \in Seq(S), Absolute(b),
           NEW e, Builds(e, a, S), NEW f, Builds(f, b, S), NEW g, Builds(g, a \o b, S)
    PROVE  AllOf(g, a \o b) = AllOf(e, a) \o AllOf(f, b)
<1> DEFINE A == Len(a) - 1
           B == Len(b) - 1
           ab == a \o b
           L == Len(ab) - 1
           x == e[A]
<1>1. A \in Nat /\ B \in Nat /\ Len(a) = A + 1 /\ Len(b) = B + 1
  <2>1. Len(a) \in Nat /\ Len(b) \in Nat /\ Len(a) >= 1 /\ Len(b) >= 1
    BY EmptySeq DEF Absolute
  <2> QED BY <2>1
<1>2. /\ L = A + 1 + B
      /\ \A i \in 1 .. A + 1 : ab[i] = a[i]
      /\ \A i \in 1 .. B + 1 : ab[A + 1 + i] = b[i]
  <2>1. /\ Len(ab) = Len(a) + Len(b)
        /\ \A i \in 1 .. Len(a) + Len(b) : ab[i] = IF i <= Len(a) THEN a[i] ELSE b[i - Len(a)]
    BY ConcatProperties
  <2> HIDE DEF A, B, ab
  <2>2. \A i \in 1 .. A + 1 : i \in 1 .. Len(a) + Len(b) /\ i <= Len(a)
    BY <1>1
  <2>3. \A i \in 1 .. B + 1 : A + 1 + i \in 1 .. Len(a) + Len(b) /\ ~(A + 1 + i <= Len(a))
                              /\ A + 1 + i - Len(a) = i
    BY <1>1
  <2>4. L = A + 1 + B
    BY <1>1, <2>1
  <2>5. ASSUME NEW i \in 1 .. A + 1 PROVE ab[i] = a[i]
    BY <2>1, <2>2
  <2>6. ASSUME NEW i \in 1 .. B + 1 PROVE ab[A + 1 + i] = b[i]
    <3> DEFINE j == A + 1 + i
    <3>1. j \in 1 .. Len(a) + Len(b) /\ ~(j <= Len(a)) /\ j - Len(a) = i
      BY <1>1
    <3> HIDE DEF j
    <3>2. ab[j] = b[i]
      BY <2>1, <3>1
    <3> QED BY <3>2 DEF j
  <2> QED BY <2>4, <2>5, <2>6
<1>3. /\ e \in [0 .. A -> Begun(S)] /\ e[0] = <<<<>>>>
      /\ \A n \in 1 .. A : e[n] = WithCharacter(e[n - 1], a[n + 1])
  BY DEF Builds
<1>4. /\ f \in [0 .. B -> Begun(S)] /\ f[0] = <<<<>>>>
      /\ \A n \in 1 .. B : f[n] = WithCharacter(f[n - 1], b[n + 1])
  BY DEF Builds
<1>5. /\ g \in [0 .. L -> Begun(S)] /\ g[0] = <<<<>>>>
      /\ \A n \in 1 .. L : g[n] = WithCharacter(g[n - 1], ab[n + 1])
  BY DEF Builds
<1>6. b[1] = "/" /\ \A n \in 1 .. B + 1 : b[n] \in S
  BY <1>1, ElementOfSeq DEF Absolute
<1> HIDE DEF A, B, ab, L
<1>7. g[A] = e[A]
  <2>1. GoAlike(g, e, A)
    <3>1. \A n \in 1 .. A : n \in 1 .. L /\ n + 1 \in 1 .. A + 1
      BY <1>1, <1>2
    <3> QED BY <1>2, <1>3, <1>5, <3>1 DEF GoAlike
  <2>2. \A n \in 0 .. A : g[n] = e[n]
    BY <1>1, <2>1, SameRecursion
  <2> QED BY <1>1, <2>2
<1>8. x \in Seq(Seq(S))
  <2>1. A \in 0 .. A
    BY <1>1
  <2> QED BY <1>3, <2>1 DEF Begun
<1> DEFINE T == {k \in 0 .. B : g[A + 1 + k] = x \o f[k]}
<1>9. 0 \in T
  <2> DEFINE none == <<>>
  <2> DEFINE n == A + 1
  <2>1. n \in 1 .. L /\ n - 1 = A /\ A + 1 + 0 = n
    BY <1>1, <1>2
  <2>2. ab[n + 1] = "/"
    <3>1. 1 \in 1 .. B + 1
      BY <1>1
    <3> QED BY <1>2, <1>6, <3>1
  <2> HIDE DEF n
  <2>3. g[n] = WithCharacter(x, "/")
    <3>1. g[n] = WithCharacter(g[n - 1], ab[n + 1])
      BY <1>5, <2>1
    <3> QED BY <1>7, <2>1, <2>2, <3>1
  <2>4. WithCharacter(x, "/") = Append(x, none)
    BY DEF WithCharacter
  <2>5. none \in Seq(S)
    BY EmptySeq
  <2> HIDE DEF none, x
  <2>6. Append(x, none) = x \o <<none>>
    BY <1>8, <2>5, AppendIsConcat
  <2>7. f[0] = <<none>>
    BY <1>4 DEF none
  <2>8. g[A + 1 + 0] = x \o f[0]
    BY <2>1, <2>3, <2>4, <2>6, <2>7
  <2>9. 0 \in 0 .. B
    BY <1>1
  <2> QED BY <2>8, <2>9
<1>10. ASSUME NEW k \in 0 .. B - 1, k \in T PROVE k + 1 \in T
  <2> DEFINE c == b[k + 1 + 1]
             y == f[k]
             n == A + 1 + (k + 1)
  <2>1. /\ n \in 1 .. L /\ n - 1 = A + 1 + k /\ n + 1 = A + 1 + (k + 1 + 1)
        /\ k + 1 \in 1 .. B /\ k + 1 - 1 = k /\ k + 1 + 1 \in 1 .. B + 1 /\ k \in 0 .. B /\ k + 1 \in 0 .. B
    BY <1>1, <1>2
  <2> HIDE DEF n
  <2>2. g[n] = WithCharacter(g[n - 1], ab[n + 1])
    BY <1>5, <2>1
  <2>3. g[n - 1] = x \o y
    BY <1>10, <2>1
  <2>4. ab[n + 1] = c
    BY <1>2, <2>1
  <2>5. f[k + 1] = WithCharacter(y, c)
    BY <1>4, <2>1
  <2>6. c \in S /\ y \in Begun(S)
    BY <1>4, <1>6, <2>1
  <2> HIDE DEF c, y, x
  <2>7. WithCharacter(x \o y, c) = x \o WithCharacter(y, c)
    BY <1>8, <2>6, WithCharacterAfter
  <2>8. g[A + 1 + (k + 1)] = x \o f[k + 1]
    BY <2>2, <2>3, <2>4, <2>5, <2>7 DEF n
  <2> QED BY <2>1, <2>8
<1>11. 0 .. B \subseteq T
  <2>1. B \in Nat /\ 0 \in T /\ \A k \in 0 .. B - 1 : k \in T => k + 1 \in T
    BY <1>1, <1>9, <1>10
  <2> HIDE DEF T
  <2> QED BY <2>1, UpTo
<1>12. g[A + 1 + B] = x \o f[B]
  <2>1. B \in 0 .. B
    BY <1>1
  <2> QED BY <1>11, <2>1
<1> QED BY <1>2, <1>12 DEF AllOf, A, B, ab, L

\* The elements of a path that follows another follow all of that path.
LEMMA ElementsTogether ==
    ASSUME NEW S, NEW a \in Seq(S), Absolute(a), NEW e, Builds(e, a, S),
           NEW b \in Seq(S), Absolute(b)
    PROVE  Elements(a \o b) = AllOf(e, a) \o Elements(b)
<1> DEFINE ab == a \o b
           x == AllOf(e, a)
           V == Seq(S)
<1>1. ab \in Seq(S) /\ Absolute(ab)
  <2>1. Len(a) \in Nat /\ Len(b) \in Nat /\ Len(a) >= 1
    BY EmptySeq DEF Absolute
  <2>2. ab \in Seq(S) /\ Len(ab) >= 1 /\ ab[1] = a[1]
    BY <2>1, ConcatProperties
  <2> HIDE DEF ab
  <2>3. ab # <<>>
    BY <2>2, EmptySeq
  <2> QED BY <2>2, <2>3 DEF Absolute
<1>2. PICK f : Builds(f, b, S)
  BY ElementsAreBuilt
<1>3. PICK g : Builds(g, ab, S)
  <2> HIDE DEF ab
  <2> QED BY <1>1, ElementsAreBuilt
<1> DEFINE y == AllOf(f, b)
           z == AllOf(g, ab)
<1>4. z = x \o y
  BY <1>2, <1>3, BuiltTogether
<1>5. x \in Seq(V) /\ y \in Begun(S)
  <2>1. e[Len(a) - 1] \in Begun(S) /\ f[Len(b) - 1] \in Begun(S)
    BY <1>2, ElementsAre
  <2> QED BY <2>1 DEF Begun, AllOf
<1>6. /\ Elements(b) = IF y[Len(y)] = <<>> THEN SubSeq(y, 1, Len(y) - 1) ELSE y
      /\ Elements(ab) = IF z[Len(z)] = <<>> THEN SubSeq(z, 1, Len(z) - 1) ELSE z
  BY <1>2, <1>3 DEF Builds, AllOf
<1> HIDE DEF x, y, z, V
<1> DEFINE k == Len(x)
           m == Len(y)
<1>7. /\ y \in Seq(V) /\ k \in Nat /\ m \in Nat /\ m >= 1
  <2>1. k \in Nat
    BY <1>5, LenProperties
  <2> QED BY <1>5, <2>1, BegunType DEF V
<1>8. /\ z \in Seq(V) /\ Len(z) = k + m
      /\ \A i \in 1 .. k + m : z[i] = IF i <= k THEN x[i] ELSE y[i - k]
  BY <1>4, <1>5, <1>7, ConcatProperties
<1>9. z[Len(z)] = y[Len(y)]
  <2> DEFINE q == k + m
  <2>1. q \in 1 .. k + m /\ ~(q <= k) /\ q - k = m /\ Len(z) = q
    BY <1>7, <1>8
  <2> HIDE DEF k, m, q
  <2>2. z[q] = y[m]
    BY <1>8, <2>1
  <2> QED BY <2>1, <2>2 DEF m
<1>10. SubSeq(z, 1, Len(z) - 1) = x \o SubSeq(y, 1, m - 1)
  <2> DEFINE front == SubSeq(y, 1, m - 1)
             l == SubSeq(z, 1, k + m - 1)
             r == x \o front
  <2> HIDE DEF k, m
  <2>1. /\ front \in Seq(V) /\ Len(front) = m - 1
        /\ \A i \in 1 .. m - 1 : front[i] = y[i]
    <3>1. \A i \in 1 .. m - 1 : y[i] \in V
      BY <1>7, ElementOfSeq DEF m
    <3>2. /\ front \in Seq(V) /\ Len(front) = IF 1 <= m - 1 THEN m - 1 - 1 + 1 ELSE 0
          /\ \A i \in 1 .. m - 1 - 1 + 1 : front[i] = y[1 + i - 1]
      BY <1>7, <3>1, SubSeqProperties
    <3>3. m - 1 - 1 + 1 = m - 1 /\ \A i \in 1 .. m - 1 : 1 + i - 1 = i
      BY <1>7
    <3> HIDE DEF front
    <3> QED BY <1>7, <3>2, <3>3
  <2>2. /\ l \in Seq(V) /\ Len(l) = k + m - 1
        /\ \A i \in 1 .. k + m - 1 : l[i] = z[i]
    <3>1. \A i \in 1 .. k + m - 1 : z[i] \in V
      <4>1. \A i \in 1 .. k + m - 1 : i \in 1 .. Len(z)
        BY <1>7, <1>8
      <4> QED BY <1>8, <4>1, ElementOfSeq
    <3> DEFINE q == k + m - 1
               first == SubSeq(z, 1, q)
    <3>2. q \in Nat
      BY <1>7
    <3>3. \A i \in 1 .. q : z[i] \in V
      BY <3>1
    <3> HIDE DEF q
    <3>4. /\ first \in Seq(V) /\ Len(first) = IF 1 <= q THEN q - 1 + 1 ELSE 0
          /\ \A i \in 1 .. q - 1 + 1 : first[i] = z[1 + i - 1]
      BY <3>2, <3>3, SubSeqProperties
    <3>5. q - 1 + 1 = q /\ (~(1 <= q) => q = 0) /\ \A i \in 1 .. q : 1 + i - 1 = i
      BY <3>2
    <3> HIDE DEF first
    <3>6. first \in Seq(V) /\ Len(first) = q /\ \A i \in 1 .. q : first[i] = z[i]
      BY <3>4, <3>5
    <3> QED BY <3>6 DEF first, q
  <2> HIDE DEF front
  <2>3. /\ r \in Seq(V) /\ Len(r) = k + (m - 1)
        /\ \A i \in 1 .. k + (m - 1) : r[i] = IF i <= k THEN x[i] ELSE front[i - k]
    BY <1>5, <2>1, ConcatProperties DEF k
  <2>4. \A i \in 1 .. k + m - 1 : l[i] = r[i]
    <3> HIDE DEF l, r
    <3> SUFFICES ASSUME NEW i \in 1 .. k + m - 1 PROVE l[i] = r[i]
      OBVIOUS
    <3>1. i \in 1 .. k + m /\ i \in 1 .. k + (m - 1)
      BY <1>7
    <3>2. ~(i <= k) => i - k \in 1 .. m - 1
      BY <1>7
    <3> QED BY <1>8, <2>1, <2>2, <2>3, <3>1, <3>2
  <2> HIDE DEF l, r
  <2>5. l = r
    <3>1. Len(l) = Len(r)
      BY <1>7, <2>2, <2>3
    <3> QED BY <2>2, <2>3, <2>4, <3>1, SeqEqual
  <2>6. Len(z) - 1 = k + m - 1
    BY <1>7, <1>8
  <2> QED BY <2>5, <2>6 DEF l, r, front
<1>11. CASE y[Len(y)] = <<>>
  BY <1>6, <1>9, <1>10, <1>11 DEF ab, x
<1>12. CASE y[Len(y)] # <<>>
  BY <1>4, <1>6, <1>9, <1>12 DEF ab, x
<1> QED BY <1>11, <1>12

\* Elements are sequences of characters.
LEMMA ElementsType ==
    ASSUME NEW S, NEW path \in Seq(S), Absolute(path)
    PROVE  Elements(path) \in Seq(Seq(S))
<1>1. PICK e : Builds(e, path, S)
  BY ElementsAreBuilt
<1> DEFINE all == AllOf(e, path)
           n == Len(all) - 1
<1>2. all \in Begun(S)
  BY <1>1, ElementsAre DEF AllOf
<1>3. Elements(path) = IF all[Len(all)] = <<>> THEN SubSeq(all, 1, n) ELSE all
  BY <1>1 DEF Builds, AllOf
<1> HIDE DEF all
<1>4. all \in Seq(Seq(S)) /\ n \in Int /\ \A i \in 1 .. n : all[i] \in Seq(S)
  <2>1. /\ all \in Seq(Seq(S)) /\ Len(all) \in Nat
        /\ \A k \in 1 .. Len(all) : all[k] \in Seq(S)
    BY <1>2, BegunType
  <2> QED BY <2>1
<1> HIDE DEF n
<1>5. SubSeq(all, 1, n) \in Seq(Seq(S))
  BY <1>4, SubSeqProperties
<1> QED BY <1>3, <1>4, <1>5

\* The path "/" has no elements.
LEMMA SlashAlone == ASSUME NEW S, "/" \in S PROVE Elements(<<"/">>) = <<>>
<1> DEFINE slash == <<"/">>
<1>1. slash \in Seq(S) /\ Absolute(slash) /\ Len(slash) - 1 = 0
  BY DEF Absolute
<1> HIDE DEF slash
<1>2. PICK e : Builds(e, slash, S)
  BY <1>1, ElementsAreBuilt
<1> DEFINE one == e[0]
<1>3. one = <<<<>>>>
  BY <1>2 DEF Builds
<1>4. Elements(slash) = IF one[Len(one)] = <<>> THEN SubSeq(one, 1, Len(one) - 1) ELSE one
  BY <1>1, <1>2 DEF Builds
<1>5. Len(one) = 1 /\ one[1] = <<>>
  BY <1>3
<1> HIDE DEF one
<1>6. Elements(slash) = SubSeq(one, 1, 0)
  BY <1>4, <1>5
<1> QED BY <1>6, SubSeqEmpty DEF slash

\* A path that follows one without a slash at its end adds its elements.
LEMMA WithoutSlash ==
    ASSUME NEW S, NEW a \in Seq(S), Absolute(a), a[Len(a)] # "/",
           NEW b \in Seq(S), Absolute(b)
    PROVE  Elements(a \o b) = Elements(a) \o Elements(b)
<1>1. PICK e : Builds(e, a, S)
  BY ElementsAreBuilt
<1>2. Elements(a) = AllOf(e, a)
  BY <1>1, LastIsNotEmpty DEF AllOf
<1> QED BY <1>1, <1>2, ElementsTogether

\* And so does one that takes the place of a slash at the end.
LEMMA InPlaceOfSlash ==
    ASSUME NEW S, "/" \in S, NEW a \in Seq(S), Absolute(a), NEW b \in Seq(S), Absolute(b)
    PROVE  Elements(a \o b) = Elements(a \o <<"/">>) \o Elements(b)
<1> DEFINE slash == <<"/">>
           none == <<>>
<1>1. Elements(slash) = none
  BY SlashAlone
<1>2. slash \in Seq(S)
  OBVIOUS
<1>3. Absolute(slash)
  BY DEF Absolute
<1> HIDE DEF slash
<1>4. PICK e : Builds(e, a, S)
  BY ElementsAreBuilt
<1>5. Elements(a \o b) = AllOf(e, a) \o Elements(b)
  BY <1>4, ElementsTogether
<1>6. Elements(a \o slash) = AllOf(e, a) \o none
  <2>1. Elements(a \o slash) = AllOf(e, a) \o Elements(slash)
    BY <1>4, <1>2, <1>3, ElementsTogether
  <2> HIDE DEF none
  <2> QED BY <1>1, <2>1
<1>7. AllOf(e, a) \in Seq(Seq(S))
  <2>1. e[Len(a) - 1] \in Begun(S)
    BY <1>4, ElementsAre
  <2> QED BY <2>1 DEF Begun, AllOf
<1>8. AllOf(e, a) \o none = AllOf(e, a)
  BY <1>7, ConcatEmptySeq
<1> HIDE DEF none
<1> QED BY <1>5, <1>6, <1>8 DEF slash

\* Two paths with one slash between them.
Joined(a, b) == IF a[Len(a)] = "/" THEN a \o Tail(b) ELSE a \o b

\* Joined paths have the elements of one, then those of the other.
LEMMA JoinedElements ==
    ASSUME NEW S, NEW a \in Seq(S), Absolute(a), NEW b \in Seq(S), Absolute(b)
    PROVE  Elements(Joined(a, b)) = Elements(a) \o Elements(b)
<1> DEFINE n == Len(a) - 1
           front == SubSeq(a, 1, n)
           slash == <<"/">>
           rest == Tail(b)
<1>1. /\ n \in Nat /\ Len(a) = n + 1 /\ Len(a) \in 1 .. Len(a) /\ 1 \in 1 .. Len(a)
      /\ "/" \in S
  <2>1. Len(a) \in Nat /\ Len(a) >= 1
    BY EmptySeq DEF Absolute
  <2>2. 1 \in 1 .. Len(a)
    BY <2>1
  <2> QED BY <2>1, <2>2, ElementOfSeq DEF Absolute
<1>2. CASE a[Len(a)] # "/"
  BY <1>2, WithoutSlash DEF Joined
<1>3. CASE a[Len(a)] = "/"
  <2>1. Absolute(slash) /\ Len(slash) = 1 /\ slash[1] = "/"
    BY DEF Absolute
  <2>2. slash \in Seq(S)
    BY <1>1
  <2>3. rest \in Seq(S) /\ b = slash \o rest
    <3>1. /\ rest \in Seq(S) /\ Len(rest) = Len(b) - 1 /\ Len(b) \in Nat /\ Len(b) >= 1
          /\ \A i \in 1 .. Len(rest) : rest[i] = b[i + 1]
      BY HeadTailProperties, EmptySeq DEF Absolute
    <3> DEFINE c == slash \o rest
    <3> HIDE DEF rest, slash
    <3>2. /\ c \in Seq(S) /\ Len(c) = 1 + Len(rest)
          /\ \A i \in 1 .. 1 + Len(rest) : c[i] = IF i <= 1 THEN slash[i] ELSE rest[i - 1]
      <4>1. /\ c \in Seq(S) /\ Len(c) = Len(slash) + Len(rest)
            /\ \A i \in 1 .. Len(slash) + Len(rest) :
                   c[i] = IF i <= Len(slash) THEN slash[i] ELSE rest[i - Len(slash)]
        BY <2>2, <3>1, ConcatProperties
      <4> HIDE DEF c
      <4> QED BY <2>1, <4>1
    <3> HIDE DEF c
    <3>3. ASSUME NEW i \in 1 .. Len(b) PROVE b[i] = c[i]
      <4>1. CASE i = 1
        BY <2>1, <3>1, <3>2, <4>1 DEF Absolute
      <4>2. CASE i # 1
        <5>1. i - 1 \in 1 .. Len(rest) /\ i \in 1 .. 1 + Len(rest) /\ ~(i <= 1) /\ i - 1 + 1 = i
          BY <3>1, <4>2
        <5> QED BY <3>1, <3>2, <5>1
      <4> QED BY <4>1, <4>2
    <3>4. Len(b) = Len(c)
      BY <3>1, <3>2
    <3>5. b = c
      BY <3>2, <3>3, <3>4, SeqEqual
    <3> QED BY <3>1, <3>5 DEF c
  <2> HIDE DEF rest
  <2>4. a = front \o slash
    <3>1. SubSeq(a, 1, Len(a)) = SubSeq(a, 1, Len(a) - 1) \o <<a[Len(a)]>>
      BY <1>1, SubSeqRecursiveSecond
    <3> QED BY <1>3, <3>1, SubSeqFull
  <2>5. front \in Seq(S) /\ (n # 0 => Absolute(front)) /\ (n = 0 => front = <<>>)
    <3>1. \A i \in 1 .. n : a[i] \in S
      <4>1. \A i \in 1 .. n : i \in 1 .. Len(a)
        BY <1>1
      <4> QED BY <4>1, ElementOfSeq
    <3> HIDE DEF n
    <3>2. /\ front \in Seq(S) /\ Len(front) = IF 1 <= n THEN n - 1 + 1 ELSE 0
          /\ \A i \in 1 .. n - 1 + 1 : front[i] = a[1 + i - 1]
      BY <1>1, <3>1, SubSeqProperties
    <3>3. n = 0 => front = <<>>
      BY SubSeqEmpty
    <3> HIDE DEF front
    <3>4. n # 0 => Len(front) = n /\ front[1] = a[1]
      BY <1>1, <3>2
    <3>5. n # 0 => front # <<>>
      BY <1>1, <3>2, <3>4, EmptySeq
    <3> QED BY <3>2, <3>3, <3>4, <3>5 DEF Absolute
  <2> HIDE DEF front, n
  <2>6. a \o rest = front \o b
    <3>1. (front \o slash) \o rest = front \o (slash \o rest)
      BY <2>3, <2>5, <2>2, ConcatAssociative
    <3> HIDE DEF slash
    <3> QED BY <2>3, <2>4, <3>1
  <2>7. Elements(a \o rest) = Elements(a) \o Elements(b)
    <3>1. CASE n # 0
      <4>1. Elements(front \o b) = Elements(front \o slash) \o Elements(b)
        BY <1>1, <2>5, <3>1, InPlaceOfSlash
      <4> HIDE DEF slash
      <4> QED BY <2>4, <2>6, <4>1
    <3>2. CASE n = 0
      <4>1. front \o slash = slash /\ front \o b = b
        <5> HIDE DEF slash
        <5> QED BY <2>5, <2>2, <3>2, ConcatEmptySeq
      <4>2. Elements(slash) = <<>>
        BY <1>1, SlashAlone
      <4>3. <<>> \o Elements(b) = Elements(b)
        BY ElementsType, ConcatEmptySeq
      <4> HIDE DEF slash
      <4> QED BY <2>4, <2>6, <4>1, <4>2, <4>3
    <3> QED BY <3>1, <3>2
  <2> QED BY <1>3, <2>7 DEF Joined, rest
<1> QED BY <1>2, <1>3

\* What is left of a concatenation after its first part.
LEMMA AfterFirst ==
    ASSUME NEW S, NEW a \in Seq(S), NEW b \in Seq(S)
    PROVE  SubSeq(a \o b, Len(a) + 1, Len(a \o b)) = b
<1> DEFINE ab == a \o b
           k == Len(a)
           n == Len(ab)
           r == SubSeq(ab, k + 1, n)
<1>1. /\ ab \in Seq(S) /\ k \in Nat /\ Len(b) \in Nat /\ n = k + Len(b)
      /\ \A i \in 1 .. k + Len(b) : ab[i] = IF i <= k THEN a[i] ELSE b[i - k]
  BY ConcatProperties, LenProperties
<1> HIDE DEF ab, k
<1>2. \A i \in k + 1 .. n : ab[i] \in S
  <2>1. \A i \in k + 1 .. n : i \in 1 .. n
    BY <1>1
  <2> QED BY <1>1, <2>1, ElementOfSeq
<1> HIDE DEF n
<1> DEFINE l == k + 1
<1>3. l \in Int /\ n \in Int /\ \A i \in l .. n : ab[i] \in S
  BY <1>1, <1>2
<1> HIDE DEF l
<1> DEFINE q == SubSeq(ab, l, n)
<1>4. /\ q \in Seq(S) /\ Len(q) = IF l <= n THEN n - l + 1 ELSE 0
      /\ \A i \in 1 .. n - l + 1 : q[i] = ab[l + i - 1]
  BY <1>3, SubSeqProperties
<1> HIDE DEF q
<1>5. n - l + 1 = Len(b) /\ Len(q) = Len(b)
  BY <1>1, <1>4 DEF l
<1>6. ASSUME NEW i \in 1 .. Len(b) PROVE q[i] = b[i]
  <2> DEFINE j == l + i - 1
  <2>1. j \in 1 .. k + Len(b) /\ ~(j <= k) /\ j - k = i
    BY <1>1 DEF l
  <2> HIDE DEF j
  <2>2. ab[j] = b[i]
    BY <1>1, <2>1
  <2>3. q[i] = ab[j]
    BY <1>4, <1>5 DEF j
  <2> QED BY <2>2, <2>3
<1>7. q = b
  BY <1>4, <1>5, <1>6, SeqEqual
<1> QED BY <1>7 DEF q, l, n, k, ab

\* What is left of a path after a prefix that matches it.
Remainder(path, prefix) == SubSeq(path, Len(prefix) + 1, Len(path))

\* A prefix is all of the path, or a slash follows it, or it is the slash at the beginning.
LEMMA Remains ==
    ASSUME NEW S, NEW path \in Seq(S), Absolute(path), NEW prefix \in Seq(S), Absolute(prefix),
           PrefixPathMatches(prefix, path), Join(path, prefix)
    PROVE  /\ Remainder(path, prefix) \in Seq(S)
           /\ \/ path = prefix /\ Remainder(path, prefix) = <<>>
              \/ /\ Absolute(Remainder(path, prefix)) /\ prefix[Len(prefix)] # "/"
                 /\ path = prefix \o Remainder(path, prefix)
              \/ /\ prefix = <<"/">>
                 /\ Remainder(path, prefix) # <<>> /\ Remainder(path, prefix)[1] # "/"
                 /\ path = prefix \o Remainder(path, prefix)
<1> DEFINE k == Len(prefix)
           n == Len(path)
           l == k + 1
           r == SubSeq(path, l, n)
<1>1. k \in Nat /\ n \in Nat /\ k >= 1 /\ n >= 1
  BY EmptySeq DEF Absolute
<1>2. r \in Seq(S) /\ (k < n => r # <<>> /\ r[1] = path[k + 1])
  <2>1. l \in Int /\ n \in Int /\ l >= 1
    BY <1>1
  <2> HIDE DEF n, l
  <2>2. \A i \in l .. n : path[i] \in S
    <3>1. \A i \in l .. n : i \in 1 .. n
      BY <2>1
    <3> QED BY <3>1, ElementOfSeq DEF n
  <2>3. /\ r \in Seq(S) /\ Len(r) = IF l <= n THEN n - l + 1 ELSE 0
        /\ \A i \in 1 .. n - l + 1 : r[i] = path[l + i - 1]
    BY <2>1, <2>2, SubSeqProperties
  <2> HIDE DEF r
  <2>4. l <= n => Len(r) # 0 /\ r[1] = path[l]
    BY <2>1, <2>3
  <2>5. l <= n => r # <<>>
    BY <2>4, EmptySeq
  <2>6. k < n => l <= n
    BY <1>1 DEF l, n
  <2> QED BY <2>3, <2>4, <2>5, <2>6 DEF l
<1>3. CASE path = prefix
  <2>1. n < l /\ n \in Int /\ l \in Int
    BY <1>1, <1>3
  <2> HIDE DEF n, l
  <2>2. r = <<>>
    BY <2>1, SubSeqEmpty
  <2> QED BY <1>2, <1>3, <2>2 DEF Remainder, n, l
<1>4. CASE path # prefix
  <2>1. StartsWith(path, prefix) /\ k < n /\ (prefix = <<"/">> \/ path[k + 1] = "/")
    <3>1. CASE prefix = <<"/">>
      <4>1. k = 1 /\ prefix[1] = "/" /\ path[1] = "/"
        BY <3>1 DEF Absolute
      <4>2. StartsWith(path, prefix)
        <5> HIDE DEF n
        <5>1. Len(prefix) = 1
          BY <4>1
        <5>2. Len(prefix) <= Len(path) /\ \A i \in 1 .. Len(prefix) : path[i] = prefix[i]
          BY <1>1, <4>1, <5>1 DEF n
        <5> QED BY <5>2 DEF StartsWith
      <4>3. n # 1
        <5> SUFFICES ASSUME n = 1 PROVE FALSE
          OBVIOUS
        <5>1. Len(path) = Len(prefix) /\ \A i \in 1 .. Len(path) : path[i] = prefix[i]
          BY <4>1
        <5>2. path = prefix
          BY <5>1, SeqEqual
        <5> QED BY <1>4, <5>2
      <4>4. k < n
        <5> HIDE DEF n, k
        <5> QED BY <1>1, <4>1, <4>3
      <4> QED BY <3>1, <4>2, <4>4
    <3>2. CASE prefix # <<"/">>
      <4>1. StartsWith(path, prefix) /\ n > k /\ path[k + 1] = "/"
        BY <1>4, <3>2 DEF PrefixPathMatches
      <4>2. k < n
        <5> HIDE DEF n, k
        <5> QED BY <1>1, <4>1
      <4> QED BY <4>1, <4>2
    <3> QED BY <3>1, <3>2
  <2>2. path = prefix \o r
    <3> DEFINE first == SubSeq(path, 1, k)
    <3>1. 1 \in 1 .. n + 1 /\ k \in 1 - 1 .. n /\ n \in k .. n /\ k \in Int
      <4> HIDE DEF n, k
      <4> QED BY <1>1, <2>1
    <3>2. first \o r = SubSeq(path, 1, n)
      BY <3>1, ConcatAdjacentSubSeq
    <3>3. SubSeq(path, 1, n) = path
      BY SubSeqFull
    <3>4. first = prefix
      <4>1. \A i \in 1 .. k : path[i] \in S
        <5>1. \A i \in 1 .. k : i \in 1 .. n
          <6> HIDE DEF n, k
          <6> QED BY <1>1, <2>1
        <5> QED BY <5>1, ElementOfSeq
      <4> HIDE DEF k
      <4>2. /\ first \in Seq(S) /\ Len(first) = IF 1 <= k THEN k - 1 + 1 ELSE 0
            /\ \A i \in 1 .. k - 1 + 1 : first[i] = path[1 + i - 1]
        BY <3>1, <4>1, SubSeqProperties
      <4> HIDE DEF first
      <4>3. Len(first) = k /\ \A i \in 1 .. k : first[i] = path[i]
        BY <1>1, <4>2
      <4>4. \A i \in 1 .. k : path[i] = prefix[i]
        BY <2>1 DEF StartsWith, k
      <4>5. Len(first) = Len(prefix) /\ \A i \in 1 .. Len(first) : first[i] = prefix[i]
        BY <4>3, <4>4 DEF k
      <4> QED BY <4>2, <4>5, SeqEqual
    <3> HIDE DEF first, r, n, k
    <3> QED BY <3>2, <3>3, <3>4
  <2>3. r # <<>> /\ r[1] = path[k + 1]
    BY <1>2, <2>1
  <2>4. r[1] = "/" => prefix[Len(prefix)] # "/"
    <3>1. n > k
      <4> HIDE DEF n, k
      <4> QED BY <1>1, <2>1
    <3> HIDE DEF r
    <3> QED BY <2>3, <3>1 DEF Join
  <2>5. r[1] # "/" => prefix = <<"/">>
    <3> HIDE DEF r
    <3> QED BY <2>1, <2>3
  <2>6. r = Remainder(path, prefix)
    BY DEF Remainder
  <2> HIDE DEF r
  <2>7. r[1] = "/" => Absolute(r)
    BY <2>3 DEF Absolute
  <2> QED BY <1>2, <2>2, <2>3, <2>4, <2>5, <2>6, <2>7
<1> QED BY <1>3, <1>4

\* How replace_prefix joins.
LEMMA ReplacePrefixIs ==
    ASSUME NEW S, NEW path \in Seq(S), NEW prefix \in Seq(S), NEW to \in Seq(S), Absolute(to),
           Remainder(path, prefix) \in Seq(S)
    PROVE  LET r == Remainder(path, prefix) IN
           /\ r = <<>> => ReplacePrefix(path, prefix, to) = to
           /\ Absolute(r) => ReplacePrefix(path, prefix, to) = Joined(to, r)
           /\ r # <<>> /\ r[1] # "/" =>
                  ReplacePrefix(path, prefix, to) = Joined(to, <<"/">> \o r)
<1> DEFINE r == Remainder(path, prefix)
           slash == <<"/">>
           closes == to[Len(to)] = "/"
           opens == r # <<>> /\ r[1] = "/"
           both == to \o Tail(r)
           neither == to \o slash \o r
           one == to \o r
           got == ReplacePrefix(path, prefix, to)
<1>1. r # <<>> => Head(r) = r[1]
  OBVIOUS
<1>2. got = IF closes /\ opens THEN both ELSE IF ~closes /\ ~opens /\ r # <<>> THEN neither ELSE one
  <2>1. to # <<>>
    BY DEF Absolute
  <2>2. Remainder(path, prefix) = SubSeq(path, Len(prefix) + 1, Len(path))
    BY DEF Remainder
  <2>3. opens <=> (r # <<>> /\ Head(r) = "/")
    BY <1>1
  <2>4. closes <=> (to # <<>> /\ Last(to) = "/")
    BY <2>1 DEF Last
  <2> HIDE DEF opens, closes
  <2> QED BY <2>2, <2>3, <2>4 DEF ReplacePrefix
<1>3. r = <<>> => one = to
  BY ConcatEmptySeq
<1>4. r # <<>> => Tail(slash \o r) = r
  OBVIOUS
<1>5. to \o slash \o r = to \o (slash \o r)
  OBVIOUS
<1> HIDE DEF r, slash, got
<1>6. r = <<>> => got = to
  BY <1>2, <1>3
<1>7. Absolute(r) => got = Joined(to, r)
  BY <1>2 DEF Absolute, Joined
<1>8. r # <<>> /\ r[1] # "/" => got = Joined(to, slash \o r)
  BY <1>2, <1>4, <1>5 DEF Joined
<1> QED BY <1>6, <1>7, <1>8 DEF r, slash, got

-----------------------------------------------------------------------------
(* FiltersAsTested: prefixes, and the whole.                               *)

\* Elements after a replaced prefix stay.
LEMMA ReplacedElements ==
    ASSUME NEW S, NEW path \in Seq(S), Absolute(path), NEW prefix \in Seq(S), Absolute(prefix),
           NEW to \in Seq(S), Absolute(to), PrefixPathMatches(prefix, path), Join(path, prefix)
    PROVE  Elements(ReplacePrefix(path, prefix, to)) =
               Elements(to) \o SubSeq(Elements(path), Len(Elements(prefix)) + 1, Len(Elements(path)))
<1> DEFINE r == Remainder(path, prefix)
           V == Seq(S)
           ep == Elements(path)
           ex == Elements(prefix)
           et == Elements(to)
           after == SubSeq(ep, Len(ex) + 1, Len(ep))
           got == ReplacePrefix(path, prefix, to)
<1>1. /\ r \in Seq(S)
      /\ \/ path = prefix /\ r = <<>>
         \/ Absolute(r) /\ prefix[Len(prefix)] # "/" /\ path = prefix \o r
         \/ prefix = <<"/">> /\ r # <<>> /\ r[1] # "/" /\ path = prefix \o r
  BY Remains
<1>2. /\ r = <<>> => got = to
      /\ Absolute(r) => got = Joined(to, r)
      /\ r # <<>> /\ r[1] # "/" => got = Joined(to, <<"/">> \o r)
  BY <1>1, ReplacePrefixIs
<1>3. ep \in Seq(V) /\ ex \in Seq(V) /\ et \in Seq(V)
  BY ElementsType
<1>4. Len(ep) \in Nat /\ Len(ex) \in Nat
  BY <1>3, LenProperties
<1> HIDE DEF r, got, V
<1>5. CASE path = prefix /\ r = <<>>
  <2> DEFINE n == Len(ep)
             none == <<>>
  <2>1. ex = ep /\ n \in Int /\ n + 1 \in Int /\ n < n + 1
    BY <1>4, <1>5
  <2>2. after = none
    <3>1. after = SubSeq(ep, n + 1, n)
      BY <2>1
    <3> HIDE DEF n, ep
    <3> QED BY <2>1, <3>1, SubSeqEmpty
  <2>3. et \o none = et
    BY <1>3, ConcatEmptySeq
  <2>4. Elements(got) = et
    BY <1>2, <1>5
  <2> HIDE DEF none, after, et
  <2>5. Elements(got) = et \o after
    BY <2>2, <2>3, <2>4
  <2> QED BY <2>5 DEF after, et, got
<1>6. CASE Absolute(r) /\ prefix[Len(prefix)] # "/" /\ path = prefix \o r
  <2> DEFINE er == Elements(r)
  <2>1. er \in Seq(V)
    BY <1>1, <1>6, ElementsType DEF V
  <2>2. ep = ex \o er
    BY <1>1, <1>6, WithoutSlash
  <2>3. after = er
    <3> HIDE DEF ex, er, ep
    <3>1. SubSeq(ex \o er, Len(ex) + 1, Len(ex \o er)) = er
      BY <1>3, <2>1, AfterFirst
    <3> QED BY <2>2, <3>1
  <2>4. Elements(got) = et \o er
    <3>1. Elements(Joined(to, r)) = et \o er
      BY <1>1, <1>6, JoinedElements
    <3> QED BY <1>2, <1>6, <3>1
  <2> HIDE DEF after, et, er
  <2>5. Elements(got) = et \o after
    BY <2>3, <2>4
  <2> QED BY <2>5 DEF after, et, got
<1>7. CASE prefix = <<"/">> /\ r # <<>> /\ r[1] # "/" /\ path = prefix \o r
  <2>1. ex = <<>> /\ Len(ex) = 0
    <3>1. "/" \in S
      <4>1. 1 \in 1 .. Len(prefix) /\ prefix[1] = "/"
        BY <1>7
      <4> QED BY <4>1, ElementOfSeq
    <3>2. ex = <<>>
      BY <1>7, <3>1, SlashAlone
    <3> QED BY <3>2
  <2>2. after = ep
    <3> HIDE DEF ep, ex
    <3>1. after = SubSeq(ep, 1, Len(ep))
      BY <2>1
    <3> QED BY <1>3, <3>1, SubSeqFull
  <2>3. Elements(got) = et \o ep
    <3>1. got = Joined(to, path)
      BY <1>2, <1>7
    <3>2. Elements(Joined(to, path)) = et \o ep
      BY JoinedElements
    <3> QED BY <3>1, <3>2
  <2> HIDE DEF after, et, ep
  <2>4. Elements(got) = et \o after
    BY <2>2, <2>3
  <2> QED BY <2>4 DEF after, et, got, ep
<1> QED BY <1>1, <1>5, <1>6, <1>7

\* The second part of FiltersAsTested: replaced prefixes.
LEMMA PrefixesAreReplaced ==
    ASSUME TypeOK, NEW rule, rule.matches \in Seq(Match)
    PROVE  PrefixReplaced(rule)
<1> SUFFICES ASSUME NEW i \in DOMAIN rule.matches, NEW to \in Replacements,
                    LET p == rule.matches[i].path IN
                    /\ p.type = "prefix" /\ PathMatches(p, request.path)
                    /\ Join(request.path, p.value)
                    /\ Absolute(p.value) /\ Absolute(request.path) /\ Absolute(to)
             PROVE  LET p == rule.matches[i].path IN
                    Elements(ReplacePrefix(request.path, p.value, to)) =
                        Elements(to) \o SubSeq(Elements(request.path), Len(Elements(p.value)) + 1,
                                               Len(Elements(request.path)))
  BY DEF PrefixReplaced
<1> DEFINE m == rule.matches[i]
           p == m.path
<1>1. m \in Match
  BY LenProperties, ElementOfSeq
<1> HIDE DEF m
<1>2. p.value \in Seq(STRING)
  BY <1>1 DEF Match, PathMatch, Path
<1>3. request.path \in Seq(STRING)
  BY RoutingAssumption DEF TypeOK, Request, Path
<1>4. to \in Seq(STRING)
  BY RouteConfigAssumption DEF Path
<1>5. /\ p.type = "prefix" /\ PathMatches(p, request.path) /\ Join(request.path, p.value)
      /\ Absolute(p.value) /\ Absolute(request.path) /\ Absolute(to)
  BY DEF m
<1>6. PrefixPathMatches(p.value, request.path)
  BY <1>5 DEF PathMatches
<1>7. Elements(ReplacePrefix(request.path, p.value, to)) =
          Elements(to) \o SubSeq(Elements(request.path), Len(Elements(p.value)) + 1,
                                 Len(Elements(request.path)))
  BY <1>2, <1>3, <1>4, <1>5, <1>6, ReplacedElements
<1> QED BY <1>7 DEF m

\* The functions of the pipeline and of the router do what those of filter.rs do that
\* are tested, whatever the filters, headers, paths and replacements are; a prefix is
\* replaced element by element, and a request that had a host is sent with one.
THEOREM FiltersDoAsTested == Spec => []FiltersAsTested
<1>1. ASSUME IInv PROVE FiltersAsTested
  <2> SUFFICES ASSUME NEW c \in best, outcome # "pending"
               PROVE  LET filters == RuleAt(c.rule).filters IN
                      /\ outcome = "redirect" => RedirectAsTested(filters)
                      /\ PrefixReplaced(RuleAt(c.rule))
                      /\ outcome = "forward" /\ ~Panics(filters) =>
                             /\ HeadersAsTested(filters, "RequestHeaderModifier")
                             /\ HeadersAsTested(filters, "ResponseHeaderModifier")
                             /\ LET sent == UpstreamRequest(filters, HttpRequest).headers["host"]
                                IN request.host # <<>> => sent # <<>>
    BY DEF FiltersAsTested
  <2> DEFINE rule == RuleAt(c.rule)
             filters == rule.filters
  <2>1. TypeOK /\ request \in Requests
    BY <1>1 DEF IInv, TypeOK
  <2>2. c.rule \in Places
    <3>1. Scanned = ConsideredPlaces
      BY <1>1, AllScanned DEF IInv, LoopsInRange
    <3>2. FirstBest(c, ConsideredPlaces)
      BY <1>1, <3>1, BestByScanned DEF IInv
    <3> QED BY <3>2 DEF FirstBest, ConsideredPlaces
  <2>3. rule.matches \in Seq(Match)
    BY <2>1, <2>2, PlaceType
  <2>4. filters \in Seq(RouteFilter)
    <3>1. PICK i \in DOMAIN table : \E u \in DOMAIN table[i].rules : c.rule = <<i, u>>
      BY <2>2, PlacesAre
    <3>2. PICK u \in DOMAIN table[i].rules : c.rule = <<i, u>>
      BY <3>1
    <3>3. table[i].rules[u].filters \in Seq(Filter)
      <4>1. table[i].rules \in Seq(Rule)
        BY <2>1, TableType DEF TypeOK
      <4>2. table[i].rules[u] \in Rule
        BY <4>1, LenProperties, ElementOfSeq
      <4> QED BY <4>2 DEF Rule
    <3>4. filters = table[i].rules[u].filters
      BY <3>2 DEF RuleAt
    <3> HIDE DEF filters
    <3>5. filters \in Seq(Filter) /\ Filter \subseteq RouteFilter
      BY <3>3, <3>4, RouteConfigAssumption
    <3> QED BY <3>5, SeqMonotonic
  <2> HIDE DEF rule, filters
  <2>5. RedirectAsTested(filters)
    BY RedirectIsAsTested
  <2>6. PrefixReplaced(rule)
    BY <2>1, <2>3, PrefixesAreReplaced
  <2>7. /\ HeadersAsTested(filters, "RequestHeaderModifier")
        /\ HeadersAsTested(filters, "ResponseHeaderModifier")
    BY <2>1, <2>4, HeadersAreAsTested DEF ModifierTypes
  <2>8. request.host # <<>> => UpstreamRequest(filters, HttpRequest).headers["host"] # <<>>
    BY <2>1, <2>4, HostIsSent
  <2> QED BY <2>5, <2>6, <2>7, <2>8 DEF rule, filters
<1> QED BY <1>1, InductiveInvariant, PTL

===============================================================================
