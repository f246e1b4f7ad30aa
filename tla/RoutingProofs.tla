---------------------------- MODULE RoutingProofs -----------------------------
(***************************************************************************)
(* Theorems about Routing, for every route table and request, and about    *)
(* RouteConfig, for every route that a table may have.                     *)
(***************************************************************************)
EXTENDS RouteConfig, SchemaProofs, DataLemmas, SequenceTheorems

-----------------------------------------------------------------------------
(* Precedences are ordered lexicographically, which is a total order.      *)

\* The places of a precedence, one by one.
LEMMA FiveThings == 1 .. 5 = {1, 2, 3, 4, 5}
  OBVIOUS

\* The order without its quantifiers.
LEMMA BeatsByCases ==
  ASSUME NEW a \in MatchPrecedence, NEW b \in MatchPrecedence
  PROVE  PrecedenceBeats(a, b) <=>
            \/ a[1] > b[1]
            \/ a[1] = b[1] /\ a[2] > b[2]
            \/ a[1] = b[1] /\ a[2] = b[2] /\ a[3] > b[3]
            \/ a[1] = b[1] /\ a[2] = b[2] /\ a[3] = b[3] /\ a[4] > b[4]
            \/ a[1] = b[1] /\ a[2] = b[2] /\ a[3] = b[3] /\ a[4] = b[4] /\ a[5] > b[5]
  <1> DEFINE Wins(i) == a[i] > b[i] /\ \A j \in 1 .. i - 1 : a[j] = b[j]
  <1>1. Wins(1) <=> a[1] > b[1]
    OBVIOUS
  <1>2. Wins(2) <=> a[1] = b[1] /\ a[2] > b[2]
    OBVIOUS
  <1>3. Wins(3) <=> a[1] = b[1] /\ a[2] = b[2] /\ a[3] > b[3]
    OBVIOUS
  <1>4. Wins(4) <=> a[1] = b[1] /\ a[2] = b[2] /\ a[3] = b[3] /\ a[4] > b[4]
    OBVIOUS
  <1>5. Wins(5) <=> a[1] = b[1] /\ a[2] = b[2] /\ a[3] = b[3] /\ a[4] = b[4] /\ a[5] > b[5]
    OBVIOUS
  <1>6. PrecedenceBeats(a, b) <=> \E i \in {1, 2, 3, 4, 5} : Wins(i)
    BY FiveThings DEF PrecedenceBeats
  <1> QED
    BY <1>1, <1>2, <1>3, <1>4, <1>5, <1>6

\* A precedence does not beat itself, nor two precedences one another.
LEMMA BeatsAsymmetric ==
  ASSUME NEW a \in MatchPrecedence, NEW b \in MatchPrecedence, PrecedenceBeats(a, b)
  PROVE  ~PrecedenceBeats(b, a)
  <1>1. \A i \in {1, 2, 3, 4, 5} : a[i] \in Nat /\ b[i] \in Nat
    BY FiveThings DEF MatchPrecedence
  <1> QED
    BY <1>1, BeatsByCases

\* What does not beat b is beaten by whatever beats b.
LEMMA BeatsWeakly ==
  ASSUME NEW a \in MatchPrecedence, NEW b \in MatchPrecedence, NEW c \in MatchPrecedence,
         ~PrecedenceBeats(a, b), PrecedenceBeats(c, b)
  PROVE  PrecedenceBeats(c, a)
  <1>1. \A i \in {1, 2, 3, 4, 5} : a[i] \in Nat /\ b[i] \in Nat /\ c[i] \in Nat
    BY FiveThings DEF MatchPrecedence
  <1> QED
    BY <1>1, BeatsByCases

\* The precedence of a match is one.
LEMMA PrecedenceType ==
  ASSUME NEW m \in Match
  PROVE  Precedence(m) \in MatchPrecedence
  BY DEF Match, PathMatch, Path, Precedence, PathKind, MatchPrecedence

\* So is that of a rule without matches.
LEMMA LowestType == Lowest \in MatchPrecedence
  BY DEF Lowest, MatchPrecedence

-----------------------------------------------------------------------------
(* Types.                                                                  *)

\* A table is made of routes, their rules and matches, all the way down.
LEMMA TableType ==
  ASSUME NEW tbl \in Tables
  PROVE  /\ tbl \in Seq(Route)
         /\ \A i \in DOMAIN tbl : tbl[i].rules \in Seq(Rule)
         /\ \A i \in DOMAIN tbl : \A u \in DOMAIN tbl[i].rules :
                tbl[i].rules[u].matches \in Seq(Match)
  <1>1. tbl \in Seq(Route)
    BY RoutingAssumption
  <1>2. \A i \in DOMAIN tbl : tbl[i] \in Route
    BY <1>1
  <1>3. \A i \in DOMAIN tbl : tbl[i].rules \in Seq(Rule)
    BY <1>2 DEF Route
  <1>4. \A i \in DOMAIN tbl : \A u \in DOMAIN tbl[i].rules : tbl[i].rules[u] \in Rule
    BY <1>3
  <1> QED
    BY <1>1, <1>3, <1>4 DEF Rule

\* A rule matches with precedences.
LEMMA RulePrecedencesType ==
  ASSUME NEW rule, rule.matches \in Seq(Match), NEW p \in RulePrecedences(rule)
  PROVE  p \in MatchPrecedence
  <1>1. \A i \in DOMAIN rule.matches : rule.matches[i] \in Match
    OBVIOUS
  <1> QED
    BY <1>1, PrecedenceType, LowestType DEF RulePrecedences

\* What rule_matches returns is a precedence, and one at most.
LEMMA ReturnedType ==
  ASSUME TypeOK
  PROVE  /\ Returned \subseteq MatchPrecedence
         /\ \A p, q \in Returned : p = q
  BY LowestType DEF TypeOK, Returned

\* A step keeps the types.
LEMMA TypeStep ==
  ASSUME TypeOK, [Next]_vars
  PROVE  TypeOK'
  <1> USE DEF TypeOK
  <1>1. CASE SkipRoute
    BY <1>1 DEF SkipRoute, Start
  <1>2. CASE TryMatch
    <2>1. Matches[at.match] \in Match
      BY <1>2, TableType DEF TryMatch, InRule, InRoute, Rules, Matches
    <2>2. Precedence(Matches[at.match]) \in MatchPrecedence
      BY <2>1, PrecedenceType
    <2> QED
      BY <1>2, <2>2 DEF TryMatch
  <1>3. CASE EndRule
    <2> DEFINE beating == {p \in Returned : \A b \in best : PrecedenceBeats(p, b.precedence)}
    <2>1. \A p \in Returned : Here(p) \in Candidate
      BY ReturnedType DEF Here, Candidate
    <2>2. best' = best \/ best' = {Here(p) : p \in beating}
      BY <1>3 DEF EndRule, EndRuleWith
    <2>3. best' \in SUBSET Candidate
      BY <2>1, <2>2
    <2>4. \A c, d \in best' : c = d
      BY <2>2, ReturnedType
    <2>5. at' = [route |-> at.route, rule |-> at.rule + 1, match |-> 1] /\ ruleBest' = {}
          /\ UNCHANGED <<table, request, outcome>>
      BY <1>3 DEF EndRule, EndRuleWith
    <2>6. at' \in [route : Nat, rule : Nat, match : Nat]
      BY <2>5
    <2> QED
      BY <2>3, <2>4, <2>5, <2>6
  <1>4. CASE EndRoute
    BY <1>4 DEF EndRoute, Start
  <1>5. CASE Decide
    BY <1>5 DEF Decide, Decision
  <1>6. CASE UNCHANGED vars
    BY <1>6 DEF vars
  <1> QED
    BY <1>1, <1>2, <1>3, <1>4, <1>5, <1>6 DEF Next

\* The scan keeps to routes, rules and precedences, with at most one best of each.
THEOREM TypeCorrect == Spec => []TypeOK
  <1>1. Init => TypeOK
    BY DEF Init, TypeOK, Start
  <1>2. TypeOK /\ [Next]_vars => TypeOK'
    BY TypeStep
  <1> QED
    BY <1>1, <1>2, PTL DEF Spec

-----------------------------------------------------------------------------
(* The loops.                                                              *)

\* The loops start in range.
LEMMA RangeInit == Init /\ TypeOK => LoopsInRange
  <1> SUFFICES ASSUME Init, TypeOK PROVE LoopsInRange
    OBVIOUS
  <1> QED
    BY TableType DEF Init, LoopsInRange, Start, InRoute, InRule, Rules, Matches

\* A turn of a loop, or the end of one, leaves the loops in range.
LEMMA RangeStep ==
  ASSUME TypeOK, TypeOK', LoopsInRange, [Next]_vars
  PROVE  LoopsInRange'
  <1>0. /\ table \in Seq(Route)
        /\ \A i \in DOMAIN table : Len(table[i].rules) \in Nat
        /\ \A i \in DOMAIN table : DOMAIN table[i].rules = 1 .. Len(table[i].rules)
        /\ \A i \in DOMAIN table : \A u \in DOMAIN table[i].rules :
               /\ Len(table[i].rules[u].matches) \in Nat
               /\ DOMAIN table[i].rules[u].matches = 1 .. Len(table[i].rules[u].matches)
    BY TableType DEF TypeOK
  <1> USE DEF LoopsInRange, InRoute, InRule, Rules, Matches, Considered
  <1>1. CASE SkipRoute
    BY <1>0, <1>1 DEF SkipRoute, Start, TypeOK
  <1>2. CASE TryMatch
    <2>1. /\ at'.route = at.route /\ at'.rule = at.rule /\ at'.match = at.match + 1
          /\ UNCHANGED <<table, request, outcome>>
      BY <1>2 DEF TryMatch, TypeOK
    <2>2. InRule /\ InRule' /\ InRoute'
      BY <1>2, <2>1 DEF TryMatch, HostnameMatches
    <2>3. at.match \in 1 .. Len(Matches) /\ Len(Matches) \in Nat
      BY <1>0, <1>2 DEF TryMatch
    <2>4. \A n \in Nat : at.match \in 1 .. n => at'.match \in 1 .. n + 1
      BY <2>1
    <2>5. at'.match \in 1 .. Len(Matches) + 1
      BY <2>3, <2>4
    <2> QED
      BY <2>1, <2>2, <2>5
  <1>3. CASE EndRule
    BY <1>0, <1>3 DEF EndRule, EndRuleWith, TypeOK
  <1>4. CASE EndRoute
    <2>1. /\ at' = [route |-> at.route + 1, rule |-> 1, match |-> 1]
          /\ UNCHANGED <<table, request, outcome, ruleBest>>
      BY <1>4 DEF EndRoute, Start
    <2>2. ruleBest = {} /\ outcome = "pending" /\ at.route \in 1 .. Len(table)
      BY <1>0, <1>4 DEF EndRoute, TypeOK
    <2>3. at'.route \in 1 .. Len(table) + 1
      BY <1>0, <2>1, <2>2
    <2>4. InRoute' => 1 \in 1 .. Len(table[at'.route].rules) + 1
      BY <1>0, <2>1
    <2>5. InRule' => 1 \in 1 .. Len(table[at'.route].rules[1].matches) + 1
      <3> SUFFICES ASSUME InRule' PROVE 1 \in 1 .. Len(table[at'.route].rules[1].matches) + 1
        OBVIOUS
      <3>1. at'.route \in DOMAIN table /\ 1 \in DOMAIN table[at'.route].rules
        BY <2>1
      <3>2. Len(table[at'.route].rules[1].matches) \in Nat
        BY <1>0, <3>1
      <3>3. \A n \in Nat : 1 \in 1 .. n + 1
        OBVIOUS
      <3> QED
        BY <3>2, <3>3
    <2> QED
      BY <2>1, <2>2, <2>3, <2>4, <2>5
  <1>5. CASE Decide
    BY <1>0, <1>5 DEF Decide, Decision, TypeOK
  <1>6. CASE UNCHANGED vars
    BY <1>6 DEF vars
  <1> QED
    BY <1>1, <1>2, <1>3, <1>4, <1>5, <1>6 DEF Next

-----------------------------------------------------------------------------
(* rule_matches.                                                           *)

\* A step keeps the loop invariant of rule_matches.
LEMMA RuleBestStep ==
  ASSUME TypeOK, TypeOK', LoopsInRange, LoopsInRange', RuleBestIsBest, [Next]_vars
  PROVE  RuleBestIsBest'
  <1> DEFINE Tried(i) == i \in DOMAIN Matches /\ i < at.match /\ MatchApplies(Matches[i], request)
             Prec(i) == Precedence(Matches[i])
  <1>0. InRule => /\ ruleBest = {} => \A i : ~Tried(i)
                  /\ \A b \in ruleBest : /\ \E i : Tried(i) /\ b = Prec(i)
                                         /\ \A i : Tried(i) => ~PrecedenceBeats(Prec(i), b)
    BY DEF RuleBestIsBest
  <1>1. CASE TryMatch
    <2>1. /\ at'.route = at.route /\ at'.rule = at.rule /\ at'.match = at.match + 1
          /\ UNCHANGED <<table, request, outcome>>
          /\ at.match \in DOMAIN Matches /\ InRule
      BY <1>1 DEF TryMatch, TypeOK
    <2>2. Matches' = Matches
      BY <2>1 DEF Matches, Rules
    <2>3. at.match \in Nat /\ Matches \in Seq(Match)
      BY <2>1, TableType DEF TypeOK, InRule, InRoute, Matches, Rules
    <2> DEFINE k == at.match
               applies == MatchApplies(Matches[k], request)
    <2>4. \A i \in DOMAIN Matches : i < k + 1 <=> i < k \/ i = k
      BY <2>3
    <2>5. \A i : Tried(i)' <=> Tried(i) \/ (i = k /\ applies)
      BY <2>1, <2>2, <2>4
    <2>6. \A i \in DOMAIN Matches : Prec(i) \in MatchPrecedence
      BY <2>3, PrecedenceType
    <2>7. CASE applies /\ \A b \in ruleBest : PrecedenceBeats(Prec(k), b)
      <3>1. ruleBest' = {Prec(k)}
        BY <1>1, <2>7 DEF TryMatch
      <3>2. ASSUME NEW i, Tried(i) PROVE ~PrecedenceBeats(Prec(i), Prec(k))
        <4>1. PICK b \in ruleBest : ~PrecedenceBeats(Prec(i), b) /\ PrecedenceBeats(Prec(k), b)
          BY <1>0, <2>1, <2>7, <3>2
        <4> QED
          BY <2>1, <2>6, <3>2, <4>1, BeatsWeakly, BeatsAsymmetric DEF TypeOK
      <3>3. ~PrecedenceBeats(Prec(k), Prec(k))
        BY <2>1, <2>6, BeatsAsymmetric
      <3>4. \A i : Tried(i)' => ~PrecedenceBeats(Prec(i), Prec(k))
        BY <2>5, <3>2, <3>3
      <3> QED
        BY <2>1, <2>2, <2>5, <2>7, <3>1, <3>4 DEF RuleBestIsBest
    <2>8. CASE ~(applies /\ \A b \in ruleBest : PrecedenceBeats(Prec(k), b))
      <3>1. ruleBest' = ruleBest
        BY <1>1, <2>8 DEF TryMatch
      <3>2. applies => ruleBest # {} /\ \A b \in ruleBest : ~PrecedenceBeats(Prec(k), b)
        BY <2>8 DEF TypeOK
      <3>3. ruleBest = {} => \A i : ~Tried(i)'
        BY <1>0, <2>1, <2>5, <3>2
      <3>4. \A b \in ruleBest : /\ \E i : Tried(i)' /\ b = Prec(i)
                                /\ \A i : Tried(i)' => ~PrecedenceBeats(Prec(i), b)
        BY <1>0, <2>1, <2>5, <3>2
      <3> QED
        BY <2>2, <3>1, <3>3, <3>4 DEF RuleBestIsBest
    <2> QED
      BY <2>7, <2>8
  <1>2. CASE at'.match = 1 /\ ruleBest' = {}
    <2>1. InRule' => Matches' \in Seq(Match)
      BY TableType DEF TypeOK, InRule, InRoute, Matches, Rules
    <2>2. InRule' => \A i \in DOMAIN Matches' : ~(i < 1)
      BY <2>1
    <2> QED
      BY <1>2, <2>2 DEF RuleBestIsBest
  <1>3. CASE UNCHANGED vars
    BY <1>3 DEF vars, RuleBestIsBest, InRule, InRoute, Rules, Matches, Considered
  <1>4. CASE Decide
    BY <1>4 DEF Decide, Decision, RuleBestIsBest, InRule, InRoute
  <1>5. SkipRoute \/ EndRoute \/ EndRule => at'.match = 1
    BY DEF SkipRoute, EndRoute, EndRule, EndRuleWith, Start
  <1>6. SkipRoute \/ EndRoute \/ EndRule => ruleBest' = {}
    <2>1. SkipRoute => ~InRule
      BY DEF SkipRoute, InRule, InRoute
    <2>2. EndRoute => ~InRule
      BY TableType DEF EndRoute, InRule, InRoute, Rules, TypeOK
    <2> QED
      BY <2>1, <2>2 DEF LoopsInRange, SkipRoute, EndRoute, EndRule, EndRuleWith
  <1> QED
    BY <1>1, <1>2, <1>3, <1>4, <1>5, <1>6 DEF Next

\* At the end of a rule, what rule_matches returns is the best of the
\* precedences with which the rule matches.
LEMMA ReturnedIsBest ==
  ASSUME TypeOK, RuleBestIsBest, InRule, at.match = Len(Matches) + 1
  PROVE  LET here == RulePrecedences(RuleAt(<<at.route, at.rule>>)) IN
         /\ Returned = {} => here = {}
         /\ \A b \in Returned : b \in here /\ \A p \in here : ~PrecedenceBeats(p, b)
  <1> DEFINE here == RulePrecedences(RuleAt(<<at.route, at.rule>>))
             tried == {i \in DOMAIN Matches : MatchApplies(Matches[i], request)}
  <1>1. Matches \in Seq(Match) /\ RuleAt(<<at.route, at.rule>>).matches = Matches
    BY TableType DEF TypeOK, InRule, InRoute, Rules, Matches, RuleAt
  <1>2. CASE Matches = <<>>
    <2>1. here = {Lowest} /\ Returned = {Lowest}
      BY <1>1, <1>2 DEF RulePrecedences, Returned
    <2> QED
      BY <2>1, LowestType, BeatsAsymmetric
  <1>3. CASE Matches # <<>>
    <2>1. here = {Precedence(Matches[i]) : i \in tried} /\ Returned = ruleBest
      BY <1>1, <1>3 DEF RulePrecedences, Returned
    <2>2. \A i \in DOMAIN Matches : i < at.match
      BY <1>1
    <2>3. /\ ruleBest = {} => tried = {}
          /\ \A b \in ruleBest : /\ \E i \in tried : b = Precedence(Matches[i])
                                 /\ \A i \in tried : ~PrecedenceBeats(Precedence(Matches[i]), b)
      BY <2>2 DEF RuleBestIsBest
    <2> QED
      BY <2>1, <2>3
  <1> QED
    BY <1>2, <1>3

-----------------------------------------------------------------------------
(* route.                                                                  *)

Scanned == {q \in ConsideredPlaces : Before(q, <<at.route, at.rule>>)}

\* The places of rules, as pairs of indices that exist.
LEMMA PlacesAre ==
  ASSUME NEW q
  PROVE  q \in Places <=> \E i \in DOMAIN table : \E u \in DOMAIN table[i].rules : q = <<i, u>>
  BY DEF Places

\* A place is a pair of numbers and has a rule with matches.
LEMMA PlaceType ==
  ASSUME TypeOK, NEW q \in Places
  PROVE  /\ q \in Nat \X Nat
         /\ q[1] \in DOMAIN table /\ q[2] \in 1 .. Len(table[q[1]].rules)
         /\ RuleAt(q).matches \in Seq(Match)
  <1>0. PICK i \in DOMAIN table : \E u \in DOMAIN table[i].rules : q = <<i, u>>
    BY PlacesAre
  <1>1. PICK u \in DOMAIN table[i].rules : q = <<i, u>>
    BY <1>0
  <1>2. table \in Seq(Route) /\ table[i].rules \in Seq(Rule)
    BY TableType DEF TypeOK
  <1> QED
    BY <1>1, <1>2, TableType DEF TypeOK, RuleAt

\* Going on to the next route scans nothing new.
LEMMA NextRouteScansNothing ==
  ASSUME TypeOK, TypeOK', LoopsInRange, SkipRoute \/ EndRoute
  PROVE  Scanned' = Scanned
  <1>1. /\ at'.route = at.route + 1 /\ at'.rule = 1
        /\ table' = table /\ request' = request
        /\ at.route \in Nat /\ at.rule \in Nat
    BY DEF SkipRoute, EndRoute, Start, TypeOK
  <1>2. ConsideredPlaces' = ConsideredPlaces
    BY <1>1 DEF ConsideredPlaces, Places, Considered
  <1>3. ASSUME NEW q \in ConsideredPlaces, q[1] = at.route PROVE q[2] < at.rule
    <2>1. q \in Places /\ Considered(table[at.route])
      BY <1>3 DEF ConsideredPlaces
    <2>2. EndRoute
      BY <2>1 DEF SkipRoute
    <2>3. at.rule = Len(table[at.route].rules) + 1
      BY <2>2 DEF EndRoute, Rules
    <2>4. q[2] \in 1 .. Len(table[at.route].rules) /\ Len(table[at.route].rules) \in Nat
      BY <2>1, <1>3, PlaceType, TableType DEF TypeOK
    <2> QED
      BY <2>3, <2>4
  <1>4. \A q \in ConsideredPlaces : q \in Nat \X Nat /\ q[2] >= 1
    BY PlaceType DEF ConsideredPlaces
  <1>5. \A q \in ConsideredPlaces :
           Before(q, <<at.route + 1, 1>>) <=> Before(q, <<at.route, at.rule>>)
    BY <1>1, <1>3, <1>4 DEF Before
  <1> QED
    BY <1>1, <1>2, <1>5 DEF Scanned

\* The end of a rule adds its place.
LEMMA EndRuleScans ==
  ASSUME TypeOK, EndRule
  PROVE  /\ Scanned' = Scanned \cup {<<at.route, at.rule>>}
         /\ \A q \in Scanned : Before(q, <<at.route, at.rule>>)
         /\ \A q \in Scanned : ~Before(<<at.route, at.rule>>, q)
         /\ ~Before(<<at.route, at.rule>>, <<at.route, at.rule>>)
  <1>1. /\ at'.route = at.route /\ at'.rule = at.rule + 1
        /\ table' = table /\ request' = request
        /\ at.route \in Nat /\ at.rule \in Nat
    BY DEF EndRule, EndRuleWith, TypeOK
  <1>2. ConsideredPlaces' = ConsideredPlaces
    BY <1>1 DEF ConsideredPlaces, Places, Considered
  <1>3. <<at.route, at.rule>> \in ConsideredPlaces
    <2>1. <<at.route, at.rule>> \in Places
      BY PlacesAre DEF EndRule, EndRuleWith, InRule, InRoute, Rules
    <2> QED
      BY <2>1 DEF ConsideredPlaces, EndRule, EndRuleWith, InRule, InRoute
  <1>4. \A q \in ConsideredPlaces : q \in Nat \X Nat
    BY PlaceType DEF ConsideredPlaces
  <1>5. \A q \in ConsideredPlaces : Before(q, <<at.route, at.rule + 1>>) <=>
           Before(q, <<at.route, at.rule>>) \/ q = <<at.route, at.rule>>
    BY <1>1, <1>4 DEF Before
  <1>6. Scanned' = Scanned \cup {<<at.route, at.rule>>}
    BY <1>1, <1>2, <1>3, <1>5 DEF Scanned
  <1>7. \A q \in Scanned : Before(q, <<at.route, at.rule>>) /\ ~Before(<<at.route, at.rule>>, q)
    BY <1>1, <1>4 DEF Scanned, Before
  <1> QED
    BY <1>1, <1>6, <1>7 DEF Before

\* The loop invariant of route in terms of what has been scanned.
LEMMA BestByScanned ==
  BestIsFirstBest <=> /\ best = {} => Nothing(Scanned)
                      /\ \A c \in best : FirstBest(c, Scanned)
  BY DEF BestIsFirstBest, Scanned

\* The rules of the table match with precedences.
LEMMA ScannedPrecedences ==
  ASSUME TypeOK, NEW q \in Places, NEW p \in RulePrecedences(RuleAt(q))
  PROVE  p \in MatchPrecedence
  BY PlaceType, RulePrecedencesType

\* The end of a rule that gives nothing better.
LEMMA KeepsBest ==
  ASSUME TypeOK, RuleBestIsBest, BestIsFirstBest, EndRule,
         \A p \in Returned : \E b \in best : ~PrecedenceBeats(p, b.precedence)
  PROVE  /\ best = {} => Nothing(Scanned \cup {<<at.route, at.rule>>})
         /\ \A c \in best : FirstBest(c, Scanned \cup {<<at.route, at.rule>>})
  <1> DEFINE place == <<at.route, at.rule>>
             here == RulePrecedences(RuleAt(place))
  <1>1. /\ Returned = {} => here = {}
        /\ \A b \in Returned : b \in here /\ \A p \in here : ~PrecedenceBeats(p, b)
    BY ReturnedIsBest DEF EndRule, EndRuleWith
  <1>2. place \in Places
    BY PlacesAre DEF EndRule, EndRuleWith, InRule, InRoute, Rules
  <1>3. ASSUME best = {} PROVE Nothing(Scanned \cup {place})
    BY <1>1, <1>3, BestByScanned DEF Nothing
  <1>4. ASSUME NEW c \in best PROVE FirstBest(c, Scanned \cup {place})
    <2>1. FirstBest(c, Scanned) /\ c.precedence \in MatchPrecedence
      BY BestByScanned DEF TypeOK, Candidate
    <2>2. ASSUME NEW p \in here PROVE ~PrecedenceBeats(p, c.precedence)
      <3>1. PICK b \in Returned : ~PrecedenceBeats(b, c.precedence)
        BY <1>1 DEF TypeOK
      <3>2. b \in MatchPrecedence /\ p \in MatchPrecedence
        BY <1>2, ReturnedType, ScannedPrecedences
      <3>3. ~PrecedenceBeats(p, b)
        BY <1>1
      <3> QED
        BY <2>1, <3>1, <3>2, <3>3, BeatsWeakly
    <2>3. ~Before(place, c.rule)
      BY <2>1, EndRuleScans DEF FirstBest
    <2> QED
      BY <2>1, <2>2, <2>3 DEF FirstBest
  <1> QED
    BY <1>3, <1>4

\* The end of a rule that beats the best so far.
LEMMA ReplacesBest ==
  ASSUME TypeOK, RuleBestIsBest, BestIsFirstBest, EndRule,
         NEW b \in Returned, \A c \in best : PrecedenceBeats(b, c.precedence)
  PROVE  FirstBest(Here(b), Scanned \cup {<<at.route, at.rule>>})
  <1> DEFINE place == <<at.route, at.rule>>
             here == RulePrecedences(RuleAt(place))
  <1>1. b \in here /\ \A p \in here : ~PrecedenceBeats(p, b)
    BY ReturnedIsBest DEF EndRule, EndRuleWith
  <1>2. b \in MatchPrecedence
    BY ReturnedType
  <1>3. ASSUME NEW q \in Scanned, NEW p \in RulePrecedences(RuleAt(q))
        PROVE  PrecedenceBeats(b, p) /\ ~PrecedenceBeats(p, b)
    <2>1. PICK c \in best : FirstBest(c, Scanned)
      BY BestByScanned DEF Nothing
    <2>2. ~PrecedenceBeats(p, c.precedence) /\ PrecedenceBeats(b, c.precedence)
      BY <2>1 DEF FirstBest
    <2>3. p \in MatchPrecedence /\ c.precedence \in MatchPrecedence
      BY ScannedPrecedences DEF Scanned, ConsideredPlaces, TypeOK, Candidate
    <2> QED
      BY <1>2, <2>2, <2>3, BeatsWeakly, BeatsAsymmetric
  <1>4. ~Before(place, place)
    BY EndRuleScans
  <1>5. Here(b).rule = place /\ Here(b).precedence = b
    BY DEF Here
  <1> QED
    BY <1>1, <1>3, <1>4, <1>5 DEF FirstBest

\* A step keeps the loop invariant of route.
LEMMA BestStep ==
  ASSUME TypeOK, TypeOK', LoopsInRange, RuleBestIsBest, BestIsFirstBest, [Next]_vars
  PROVE  BestIsFirstBest'
  <1>0. /\ best = {} => Nothing(Scanned)
        /\ \A c \in best : FirstBest(c, Scanned)
    BY BestByScanned
  <1>1. ASSUME UNCHANGED <<table, request, best>>, Scanned' = Scanned PROVE BestIsFirstBest'
    <2>1. \A q : RuleAt(q)' = RuleAt(q)
      BY <1>1 DEF RuleAt
    <2>2. \A q : RulePrecedences(RuleAt(q))' = RulePrecedences(RuleAt(q))
      BY <1>1, <2>1 DEF RulePrecedences
    <2>3. Nothing(Scanned)' <=> Nothing(Scanned)
      BY <1>1, <2>2 DEF Nothing
    <2>4. \A c : FirstBest(c, Scanned)' <=> FirstBest(c, Scanned)
      BY <1>1, <2>2 DEF FirstBest
    <2>5. /\ best' = {} => Nothing(Scanned)'
          /\ \A c \in best' : FirstBest(c, Scanned)'
      BY <1>0, <1>1, <2>3, <2>4
    <2> QED
      BY <2>5 DEF BestIsFirstBest, Scanned
  <1>2. CASE SkipRoute \/ EndRoute
    BY <1>1, <1>2, NextRouteScansNothing DEF SkipRoute, EndRoute
  <1>3. CASE TryMatch \/ Decide \/ UNCHANGED vars
    <2>1. /\ UNCHANGED <<table, request, best>>
          /\ at'.route = at.route /\ at'.rule = at.rule
      BY <1>3 DEF TryMatch, Decide, vars, TypeOK
    <2>2. Scanned' = Scanned
      BY <2>1 DEF Scanned, ConsideredPlaces, Places, Considered
    <2> QED
      BY <1>1, <2>1, <2>2
  <1>4. CASE EndRule
    <2> DEFINE beating == {p \in Returned : \A b \in best : PrecedenceBeats(p, b.precedence)}
               scanned == Scanned \cup {<<at.route, at.rule>>}
    <2>1. UNCHANGED <<table, request>> /\ Scanned' = scanned
      BY <1>4, EndRuleScans DEF EndRule, EndRuleWith
    <2>2. best' = IF beating = {} THEN best ELSE {Here(p) : p \in beating}
      BY <1>4 DEF EndRule, EndRuleWith
    <2>3. /\ best' = {} => Nothing(scanned)
          /\ \A c \in best' : FirstBest(c, scanned)
      <3>1. CASE beating = {}
        BY <1>4, <2>2, <3>1, KeepsBest
      <3>2. CASE beating # {}
        BY <1>4, <2>2, <3>2, ReplacesBest
      <3> QED
        BY <3>1, <3>2
    <2>4. \A q : RuleAt(q)' = RuleAt(q) /\ RulePrecedences(RuleAt(q))' = RulePrecedences(RuleAt(q))
      BY <2>1 DEF RuleAt, RulePrecedences
    <2> QED
      BY <2>1, <2>3, <2>4 DEF BestIsFirstBest, Scanned, Nothing, FirstBest
  <1> QED
    BY <1>2, <1>3, <1>4 DEF Next

\* The loop invariants of route and rule_matches hold on every step of the scan.
THEOREM InductiveInvariant == Spec => []IInv
  <1>1. Init => IInv
    <2> SUFFICES ASSUME Init PROVE IInv
      OBVIOUS
    <2>1. TypeOK
      BY DEF Init, TypeOK, Start
    <2>2. RuleBestIsBest
      <3>1. InRule => \A i \in DOMAIN Matches : ~(i < 1)
        BY <2>1, TableType DEF TypeOK, InRule, InRoute, Matches, Rules
      <3> QED
        BY <3>1 DEF Init, Start, RuleBestIsBest
    <2>3. Scanned = {}
      <3>1. \A q \in ConsideredPlaces : q \in Nat \X Nat /\ q[1] >= 1 /\ q[2] >= 1
        BY <2>1, PlaceType, TableType DEF ConsideredPlaces, TypeOK
      <3> QED
        BY <3>1 DEF Init, Start, Scanned, Before
    <2>4. BestIsFirstBest
      BY <2>3, BestByScanned DEF Init, Nothing
    <2> QED
      BY <2>1, <2>2, <2>4, RangeInit DEF IInv, Init, DecisionOfBest
  <1>2. IInv /\ [Next]_vars => IInv'
    <2> SUFFICES ASSUME IInv, [Next]_vars PROVE IInv'
      OBVIOUS
    <2>1. TypeOK'
      BY TypeStep DEF IInv
    <2>2. LoopsInRange'
      BY <2>1, RangeStep DEF IInv
    <2>3. RuleBestIsBest'
      BY <2>1, <2>2, RuleBestStep DEF IInv
    <2>4. BestIsFirstBest'
      BY <2>1, BestStep DEF IInv
    <2>5. DecisionOfBest'
      <3>1. CASE Decide
        BY <3>1 DEF Decide, Decision, DecisionOfBest, RuleAt, IInv
      <3>2. CASE UNCHANGED vars
        BY <3>2 DEF vars, DecisionOfBest, RuleAt, IInv
      <3>3. CASE outcome' = "pending"
        BY <3>3 DEF DecisionOfBest
      <3>4. SkipRoute \/ TryMatch \/ EndRule \/ EndRoute => outcome' = "pending"
        BY DEF SkipRoute, TryMatch, EndRule, EndRuleWith, EndRoute, InRule, InRoute
      <3> QED
        BY <3>1, <3>2, <3>3, <3>4 DEF Next
    <2> QED
      BY <2>1, <2>2, <2>3, <2>4, <2>5 DEF IInv
  <1> QED
    BY <1>1, <1>2, PTL DEF Spec

\* When the scan is over it has scanned everything.
LEMMA AllScanned ==
  ASSUME TypeOK, at.route = Len(table) + 1
  PROVE  Scanned = ConsideredPlaces
  <1>1. table \in Seq(Route)
    BY TableType DEF TypeOK
  <1>2. \A q \in ConsideredPlaces : q[1] \in 1 .. Len(table)
    BY <1>1, PlaceType DEF ConsideredPlaces
  <1> QED
    BY <1>1, <1>2 DEF Scanned, Before

\* What the invariant says of a scan that is over.
LEMMA ScanComplete == IInv => ChosenIsFirstBest
  <1> SUFFICES ASSUME IInv, outcome # "pending" PROVE ChosenIsFirstBest
    BY DEF ChosenIsFirstBest
  <1>1. Scanned = ConsideredPlaces
    BY AllScanned DEF IInv, LoopsInRange
  <1>2. /\ best = {} => Nothing(ConsideredPlaces)
        /\ \A c \in best : FirstBest(c, ConsideredPlaces)
    BY <1>1, BestByScanned DEF IInv
  <1> QED
    BY <1>2 DEF ChosenIsFirstBest, IInv, DecisionOfBest

\* route returns the first rule that no other beats, and NotFound only if there is
\* none, for every table and request.
THEOREM ChoosesFirstBest == Spec => []ChosenIsFirstBest
  BY InductiveInvariant, ScanComplete, PTL

\* More conditions, higher precedence.
LEMMA RefiningBeats ==
  ASSUME NEW m \in Match, NEW n \in Match, Refines(m, n)
  PROVE  PrecedenceBeats(Precedence(m), Precedence(n))
  <1> DEFINE p == Precedence(m)
             q == Precedence(n)
  <1>1. p \in MatchPrecedence /\ q \in MatchPrecedence
    BY PrecedenceType
  <1>2. /\ p[1] = PathKind(m.path) /\ p[2] = Len(m.path.value)
        /\ p[3] = (IF m.method = "any" THEN 0 ELSE 1)
        /\ p[4] = Len(m.headers) /\ p[5] = Len(m.params)
    BY DEF Precedence
  <1>3. /\ q[1] = PathKind(n.path) /\ q[2] = Len(n.path.value)
        /\ q[3] = (IF n.method = "any" THEN 0 ELSE 1)
        /\ q[4] = Len(n.headers) /\ q[5] = Len(n.params)
    BY DEF Precedence
  <1>4. \A i \in {1, 2, 3, 4, 5} : p[i] \in Nat /\ q[i] \in Nat
    BY <1>1, FiveThings DEF MatchPrecedence
  <1>5. ASSUME NEW s \in Seq(Condition), NEW t \in Seq(Condition), StartsWith(s, t)
        PROVE  Len(s) > Len(t) \/ s = t
    BY <1>5 DEF StartsWith
  <1>6. m.path = n.path \/ p[1] > q[1] \/ (p[1] = q[1] /\ p[2] > q[2])
    <2>1. m.path \in PathMatch /\ n.path \in PathMatch
      BY DEF Match
    <2>2. CASE n.path.type = "none" /\ m.path.value # <<>>
      BY <1>2, <1>3, <2>1, <2>2 DEF PathMatch, PathKind, PathTypes, Path
    <2>3. CASE n.path.type # "exact" /\ m.path.type = "exact"
      BY <1>2, <1>3, <2>1, <2>3 DEF PathKind
    <2>4. CASE n.path.type = "prefix" /\ m.path.type = "prefix" /\ StartsWith(m.path.value, n.path.value)
      <3>1. m.path.value \in Seq(STRING) /\ n.path.value \in Seq(STRING)
        BY <2>1 DEF PathMatch, Path
      <3>2. Len(m.path.value) > Len(n.path.value) \/ m.path.value = n.path.value
        BY <2>4, <3>1 DEF StartsWith
      <3>3. m.path.value = n.path.value => m.path = n.path
        BY <2>1, <2>4 DEF PathMatch
      <3> QED
        BY <1>2, <1>3, <2>4, <3>2, <3>3 DEF PathKind
    <2> QED
      BY <2>2, <2>3, <2>4 DEF Refines, Narrower
  <1>7. m.method = n.method \/ p[3] > q[3]
    BY <1>2, <1>3 DEF Refines
  <1>8. /\ m.headers = n.headers \/ p[4] > q[4]
        /\ m.params = n.params \/ p[5] > q[5]
    BY <1>2, <1>3, <1>5 DEF Refines, Match
  <1>9. m.path = n.path /\ m.method = n.method /\ m.headers = n.headers => m.params # n.params
    BY DEF Refines, Match
  <1>10. /\ m.path = n.path => p[1] = q[1] /\ p[2] = q[2]
         /\ m.method = n.method => p[3] = q[3]
         /\ m.headers = n.headers => p[4] = q[4]
    BY <1>2, <1>3
  <1> QED
    BY <1>1, <1>4, <1>6, <1>7, <1>8, <1>9, <1>10, BeatsByCases

\* A match that adds conditions to another takes the requests that satisfy them,
\* for every table and request.
THEOREM SpecificMatchesWin == Spec => []MoreSpecificWins
  <1>1. IInv => MoreSpecificWins
    <2> SUFFICES ASSUME IInv, NEW c \in best, outcome # "pending",
                        RuleAt(c.rule).matches # <<>>
                 PROVE  \E i \in DOMAIN RuleAt(c.rule).matches :
                            LET n == RuleAt(c.rule).matches[i] IN
                            /\ MatchApplies(n, request)
                            /\ \A q \in ConsideredPlaces : \A k \in DOMAIN RuleAt(q).matches :
                                   LET m == RuleAt(q).matches[k]
                                   IN MatchApplies(m, request) => ~Refines(m, n)
      BY DEF MoreSpecificWins
    <2>1. FirstBest(c, ConsideredPlaces)
      <3>1. Scanned = ConsideredPlaces
        BY AllScanned DEF IInv, LoopsInRange
      <3> QED
        BY <3>1, BestByScanned DEF IInv
    <2>2. PICK i \in DOMAIN RuleAt(c.rule).matches :
              /\ MatchApplies(RuleAt(c.rule).matches[i], request)
              /\ c.precedence = Precedence(RuleAt(c.rule).matches[i])
      BY <2>1 DEF FirstBest, RulePrecedences
    <2> DEFINE n == RuleAt(c.rule).matches[i]
    <2>3. \A q \in ConsideredPlaces : RuleAt(q).matches \in Seq(Match)
      BY PlaceType DEF ConsideredPlaces, IInv
    <2>4. n \in Match
      BY <2>1, <2>3 DEF FirstBest
    <2>5. ASSUME NEW q \in ConsideredPlaces, NEW k \in DOMAIN RuleAt(q).matches,
                 MatchApplies(RuleAt(q).matches[k], request)
          PROVE  ~Refines(RuleAt(q).matches[k], n)
      <3>1. Precedence(RuleAt(q).matches[k]) \in RulePrecedences(RuleAt(q))
        BY <2>3, <2>5 DEF RulePrecedences
      <3>2. ~PrecedenceBeats(Precedence(RuleAt(q).matches[k]), Precedence(n))
        BY <2>1, <2>2, <3>1 DEF FirstBest
      <3>3. RuleAt(q).matches[k] \in Match
        BY <2>3
      <3> QED
        BY <2>4, <3>2, <3>3, RefiningBeats
    <2> QED
      BY <2>2, <2>5
  <1> QED
    BY <1>1, InductiveInvariant, PTL

-----------------------------------------------------------------------------
(* The routes on their way through the ConfigMap.                          *)

LEMMA HeadersArrive ==
    ASSUME NEW add \in Seq(HeaderValue), NEW set \in Seq(HeaderValue)
    PROVE  AllArrive(WriteHeader, ReadHeader, add \o set)
<1> DEFINE all == add \o set
<1>1. all \in Seq(HeaderValue)
  BY ConcatProperties
<1> HIDE DEF all
<1> SUFFICES ASSUME NEW i \in DOMAIN all PROVE Arrives(WriteHeader, ReadHeader, all[i])
  BY DEF AllArrive, all
<1>2. all[i] \in HeaderValue
  BY <1>1, LenProperties, ElementOfSeq
<1> DEFINE h == all[i]
<1>3. h = [name |-> h.name, value |-> h.value]
  BY <1>2 DEF HeaderValue
<1>4. Arrives(WriteHeader, ReadHeader, [name |-> h.name, value |-> h.value])
  BY HeaderArrivesWhole
<1> QED BY <1>3, <1>4

LEMMA ModifierOfPathArrives ==
    ASSUME NEW p \in PathModifier PROVE Arrives(WritePath, ReadPathModifier, p)
<1>1. p = [type |-> p.type, value |-> p.value] /\ p.type \in {"ReplaceFullPath", "ReplacePrefixMatch"}
  BY DEF PathModifier
<1>2. Arrives(WritePath, ReadPathModifier, [type |-> p.type, value |-> p.value])
  BY <1>1, ModifiedPathArrivesWhole
<1> QED BY <1>1, <1>2

LEMMA BackendRefArrives ==
    ASSUME NEW b \in BackendRef PROVE Arrives(WriteBackend, ReadBackend, b)
<1>1. /\ b = [ns |-> b.ns, name |-> b.name, port |-> b.port, weight |-> b.weight,
              protocol |-> b.protocol]
      /\ b.port \in U16 /\ b.protocol \in {"http1", "h2c"}
  BY DEF BackendRef
<1>2. Arrives(WriteBackend, ReadBackend,
              [ns |-> b.ns, name |-> b.name, port |-> b.port, weight |-> b.weight,
               protocol |-> b.protocol])
  BY <1>1, BackendArrivesWhole
<1> QED BY <1>1, <1>2

\* Each of the variants of a filter.
LEMMA FilterArrivesWhole == ASSUME NEW f \in RouteFilter PROVE FilterArrives(f)
<1>1. CASE f \in [type : ModifierTypes, add : Seq(HeaderValue), set : Seq(HeaderValue),
                  remove : Seq(Texts)]
  <2>1. /\ f = [type |-> f.type, add |-> f.add, set |-> f.set, remove |-> f.remove]
        /\ f.type \in ModifierTypes
        /\ f.add \in Seq(HeaderValue) /\ f.set \in Seq(HeaderValue)
    BY <1>1
  <2>2. f.type \in {"RequestHeaderModifier", "ResponseHeaderModifier"}
    BY <2>1 DEF ModifierTypes
  <2>3. Arrives(WriteFilter[f.type], ReadFilter[f.type],
                [type |-> f.type, add |-> f.add, set |-> f.set, remove |-> f.remove])
    BY <2>2, ModifierArrivesWhole
  <2>4. AllArrive(WriteHeader, ReadHeader, f.add \o f.set)
    BY <2>1, HeadersArrive
  <2> QED BY <2>1, <2>2, <2>3, <2>4 DEF FilterArrives
<1>2. CASE f \in [type : {"RequestRedirect"}, scheme : AtMostOneOf(Texts),
                  hostname : AtMostOneOf(Seq(Texts)), port : AtMostOneOf(U16),
                  path : AtMostOneOf(PathModifier), status : AtMostOneOf(U16)]
  <2>1. /\ f = [type |-> "RequestRedirect", scheme |-> f.scheme, hostname |-> f.hostname,
                port |-> f.port, path |-> f.path, status |-> f.status]
        /\ f.type = "RequestRedirect"
        /\ f.port \in AtMostOneOf(U16) /\ f.status \in AtMostOneOf(U16)
        /\ f.path \in AtMostOneOf(PathModifier)
    BY <1>2
  <2>2. f.port \in SUBSET U16 /\ f.status \in SUBSET U16 /\ f.path \subseteq PathModifier
    BY <2>1 DEF AtMostOneOf
  <2>3. Arrives(WriteFilter["RequestRedirect"], ReadFilter["RequestRedirect"],
                [type |-> "RequestRedirect", scheme |-> f.scheme, hostname |-> f.hostname,
                 port |-> f.port, path |-> f.path, status |-> f.status])
    BY <2>2, RedirectArrivesWhole
  <2>4. \A p \in f.path : Arrives(WritePath, ReadPathModifier, p)
    BY <2>2, ModifierOfPathArrives
  <2> QED BY <2>1, <2>3, <2>4 DEF FilterArrives
<1>3. CASE f \in [type : {"URLRewrite"}, hostname : AtMostOneOf(Seq(Texts)),
                  path : AtMostOneOf(PathModifier)]
  <2>1. /\ f = [type |-> "URLRewrite", hostname |-> f.hostname, path |-> f.path]
        /\ f.type = "URLRewrite"
        /\ f.path \in AtMostOneOf(PathModifier)
    BY <1>3
  <2>2. f.path \subseteq PathModifier
    BY <2>1 DEF AtMostOneOf
  <2>3. Arrives(WriteFilter["URLRewrite"], ReadFilter["URLRewrite"],
                [type |-> "URLRewrite", hostname |-> f.hostname, path |-> f.path])
    BY RewriteArrivesWhole
  <2>4. \A p \in f.path : Arrives(WritePath, ReadPathModifier, p)
    BY <2>2, ModifierOfPathArrives
  <2> QED BY <2>1, <2>3, <2>4 DEF FilterArrives
<1>4. CASE f \in [type : {"RequestMirror"}, backend : BackendRef, percent : AtMostOneOf(Nat)]
  <2>1. /\ f = [type |-> "RequestMirror", percent |-> f.percent, backend |-> f.backend]
        /\ f.type = "RequestMirror"
        /\ f.backend \in BackendRef
    BY <1>4
  <2>2. Arrives(WriteFilter["RequestMirror"], ReadFilter["RequestMirror"],
                [type |-> "RequestMirror", percent |-> f.percent, backend |-> f.backend])
    BY MirrorArrivesWhole
  <2>3. Arrives(WriteBackend, ReadBackend, f.backend)
    BY <2>1, BackendRefArrives
  <2> QED BY <2>1, <2>2, <2>3 DEF FilterArrives
<1> QED BY <1>1, <1>2, <1>3, <1>4 DEF RouteFilter

\* A match, though its path and its method may be missing.
LEMMA MatchArrivesTyped ==
    ASSUME NEW m \in Match
    PROVE  MatchArrives([m EXCEPT !.path = IF @.type = "none" THEN {} ELSE {@},
                                  !.method = Option(@, "any")])
<1> DEFINE path == IF m.path.type = "none" THEN {} ELSE {m.path}
           method == Option(m.method, "any")
           v == [path |-> path, method |-> method, headers |-> m.headers, params |-> m.params]
<1>1. /\ m = [path |-> m.path, method |-> m.method, headers |-> m.headers, params |-> m.params]
      /\ m.path \in PathMatch /\ m.headers \in Seq(Condition) /\ m.params \in Seq(Condition)
  BY DEF Match
<1>2. [m EXCEPT !.path = IF @.type = "none" THEN {} ELSE {@}, !.method = Option(@, "any")] = v
  <2>1. [m EXCEPT !.path = IF @.type = "none" THEN {} ELSE {@}, !.method = Option(@, "any")]
        = [m EXCEPT !.path = path, !.method = method]
    OBVIOUS
  <2> HIDE DEF path, method
  <2>2. [m EXCEPT !.path = path, !.method = method] = [[m EXCEPT !.path = path] EXCEPT !.method = method]
    OBVIOUS
  <2>3. [m EXCEPT !.path = path] =
            [path |-> path, method |-> m.method, headers |-> m.headers, params |-> m.params]
    BY <1>1
  <2>4. [[path |-> path, method |-> m.method, headers |-> m.headers, params |-> m.params]
            EXCEPT !.method = method] = v
    OBVIOUS
  <2> QED BY <2>1, <2>2, <2>3, <2>4
<1>3. Arrives(WriteMatch, ReadMatch, v)
  <2> HIDE DEF path, method
  <2> QED BY MatchArrivesWhole
<1>4. \A p \in path : Arrives(WritePath, ReadPath, p)
  <2> SUFFICES ASSUME m.path.type # "none" PROVE Arrives(WritePath, ReadPath, m.path)
    OBVIOUS
  <2>1. /\ m.path = [type |-> m.path.type, value |-> m.path.value]
        /\ m.path.type \in {"exact", "prefix", "regex"}
    BY <1>1 DEF PathMatch, PathTypes
  <2>2. Arrives(WritePath, ReadPath, [type |-> m.path.type, value |-> m.path.value])
    BY <2>1, PathArrivesWhole
  <2> QED BY <2>1, <2>2
<1>5. AllArrive(WriteCondition, ReadCondition, m.headers \o m.params)
  <2> DEFINE all == m.headers \o m.params
  <2>1. all \in Seq(Condition)
    BY <1>1, ConcatProperties
  <2> HIDE DEF all
  <2> SUFFICES ASSUME NEW i \in DOMAIN all PROVE Arrives(WriteCondition, ReadCondition, all[i])
    BY DEF AllArrive, all
  <2> DEFINE c == all[i]
  <2>2. c \in Condition
    BY <2>1, LenProperties, ElementOfSeq
  <2>3. /\ c = [name |-> c.name, type |-> c.type, value |-> c.value]
        /\ c.type \in {"exact", "regex"}
    BY <2>2 DEF Condition
  <2>4. Arrives(WriteCondition, ReadCondition, [name |-> c.name, type |-> c.type, value |-> c.value])
    BY <2>3, ConditionArrivesWhole
  <2> QED BY <2>3, <2>4
<1>6. v.path = path /\ v.headers = m.headers /\ v.params = m.params
  OBVIOUS
<1> HIDE DEF v, path, method
<1> QED BY <1>2, <1>3, <1>4, <1>5, <1>6 DEF MatchArrives

LEMMA RuleArrivesTyped ==
    ASSUME NEW rule \in Rule, NEW backends \in Seq(BackendRef), NEW timeout \in Timeouts
    PROVE  RuleArrives(AsTyped(rule, backends, timeout))
<1> DEFINE matches == [i \in DOMAIN rule.matches |->
                          [rule.matches[i] EXCEPT !.path = IF @.type = "none" THEN {} ELSE {@},
                                                  !.method = Option(@, "any")]]
           v == [name |-> {}, backends |-> backends, timeout |-> timeout, filters |-> rule.filters,
                 matches |-> matches]
<1>1. AsTyped(rule, backends, timeout) = v
  BY DEF AsTyped
<1>2. rule.matches \in Seq(Match) /\ rule.filters \in Seq(Filter)
  BY DEF Rule
<1>3. \A i \in DOMAIN matches : MatchArrives(matches[i])
  <2> SUFFICES ASSUME NEW i \in DOMAIN rule.matches
               PROVE  MatchArrives([rule.matches[i] EXCEPT !.path = IF @.type = "none" THEN {} ELSE {@},
                                                           !.method = Option(@, "any")])
    OBVIOUS
  <2>1. rule.matches[i] \in Match
    BY <1>2, LenProperties, ElementOfSeq
  <2> QED BY <2>1, MatchArrivesTyped
<1>4. \A i \in DOMAIN rule.filters : FilterArrives(rule.filters[i])
  <2> SUFFICES ASSUME NEW i \in DOMAIN rule.filters PROVE FilterArrives(rule.filters[i])
    OBVIOUS
  <2>1. rule.filters[i] \in RouteFilter
    BY <1>2, LenProperties, ElementOfSeq, RouteConfigAssumption
  <2> QED BY <2>1, FilterArrivesWhole
<1>5. AllArrive(WriteBackend, ReadBackend, backends)
  <2> SUFFICES ASSUME NEW i \in DOMAIN backends PROVE Arrives(WriteBackend, ReadBackend, backends[i])
    BY DEF AllArrive
  <2>1. backends[i] \in BackendRef
    BY LenProperties, ElementOfSeq
  <2> QED BY <2>1, BackendRefArrives
<1>6. \A t \in timeout : Arrives(WriteTimeout, ReadTimeout, t)
  <2> SUFFICES ASSUME NEW spec \in RuleTimeouts
               PROVE  Arrives(WriteTimeout, ReadTimeout, ConvertTimeouts(spec))
    BY DEF Timeouts
  <2> QED BY TimeoutArrivesWhole DEF ConvertTimeouts
<1> HIDE DEF matches
<1>7. Arrives(WriteRule, ReadRule, v)
  BY RuleArrivesWhole
<1>8. v.matches = matches /\ v.filters = rule.filters /\ v.backends = backends /\ v.timeout = timeout
  OBVIOUS
<1> HIDE DEF v
<1>9. RuleArrives(v)
  BY <1>3, <1>4, <1>5, <1>6, <1>7, <1>8 DEF RuleArrives
<1> QED BY <1>1, <1>9

\* Every route of every table is read by the data plane as the control plane writes it.
THEOREM RoutesArriveWhole == Spec => []RoutesArrive
<1>1. ASSUME TypeOK PROVE RoutesArrive
  <2> SUFFICES ASSUME NEW i \in DOMAIN table
               PROVE  /\ Arrives(WriteRoute, ReadRoute,
                                 [key |-> i, hostnames |-> table[i].hostnames,
                                  attached |-> table[i].attached, rules |-> table[i].rules])
                      /\ \A u \in DOMAIN table[i].rules :
                             \A backends \in RuleBackends, timeout \in Timeouts :
                                 RuleArrives(AsTyped(table[i].rules[u], backends, timeout))
    BY DEF RoutesArrive
  <2>1. table[i] \in Route
    <3>1. table \in Seq(Route)
      BY <1>1, RoutingAssumption DEF TypeOK
    <3> QED BY <3>1, LenProperties, ElementOfSeq
  <2>2. table[i].rules \in Seq(Rule)
    BY <2>1 DEF Route
  <2>3. Arrives(WriteRoute, ReadRoute,
                [key |-> i, hostnames |-> table[i].hostnames, attached |-> table[i].attached,
                 rules |-> table[i].rules])
    BY RouteArrivesWhole
  <2>4. ASSUME NEW u \in DOMAIN table[i].rules, NEW backends \in RuleBackends,
               NEW timeout \in Timeouts
        PROVE  RuleArrives(AsTyped(table[i].rules[u], backends, timeout))
    <3>1. table[i].rules[u] \in Rule
      BY <2>2, LenProperties, ElementOfSeq
    <3>2. backends \in Seq(BackendRef)
      BY RouteConfigAssumption
    <3> QED BY <3>1, <3>2, RuleArrivesTyped
  <2> QED BY <2>3, <2>4
<1> QED BY <1>1, TypeCorrect, PTL

-----------------------------------------------------------------------------
(* Prefixes, element by element.                                           *)

\* Lists of elements that are not empty; the last one is the one that grows.
Begun(S) == Seq(Seq(S)) \ {<<>>}
LastOf(elements) == elements[Len(elements)]

LEMMA BegunType ==
    ASSUME NEW S, NEW es \in Begun(S)
    PROVE  /\ es \in Seq(Seq(S)) /\ Len(es) \in Nat /\ Len(es) >= 1
           /\ LastOf(es) \in Seq(S) /\ Len(LastOf(es)) \in Nat
           /\ \A k \in 1 .. Len(es) : es[k] \in Seq(S) /\ Len(es[k]) \in Nat
<1>1. es \in Seq(Seq(S)) /\ es # <<>>
  BY DEF Begun
<1>2. Len(es) \in Nat /\ Len(es) >= 1
  BY <1>1, EmptySeq
<1>3. \A k \in 1 .. Len(es) : es[k] \in Seq(S)
  BY <1>1, ElementOfSeq
<1>4. \A k \in 1 .. Len(es) : Len(es[k]) \in Nat
  BY <1>3, LenProperties
<1>5. Len(es) \in 1 .. Len(es)
  BY <1>2
<1> QED BY <1>1, <1>2, <1>3, <1>4, <1>5 DEF LastOf

\* A slash begins an element.
LEMMA SlashBegins ==
    ASSUME NEW S, NEW es \in Begun(S)
    PROVE  LET r == WithCharacter(es, "/") IN
           /\ r \in Begun(S)
           /\ Len(r) = Len(es) + 1
           /\ \A k \in 1 .. Len(es) : r[k] = es[k]
           /\ r[Len(es) + 1] = <<>>
<1>1. es \in Seq(Seq(S)) /\ <<>> \in Seq(S)
  BY EmptySeq DEF Begun
<1>2. WithCharacter(es, "/") = Append(es, <<>>)
  BY DEF WithCharacter
<1> DEFINE r == Append(es, <<>>)
<1>3. /\ r \in Seq(Seq(S)) /\ r # <<>> /\ Len(r) = Len(es) + 1
      /\ \A k \in 1 .. Len(es) : r[k] = es[k]
      /\ r[Len(es) + 1] = <<>>
  BY <1>1, AppendProperties
<1> HIDE DEF r
<1>4. r \in Begun(S)
  BY <1>3 DEF Begun
<1> QED BY <1>2, <1>3, <1>4 DEF r

\* Any other character goes to the last element.
LEMMA OtherExtends ==
    ASSUME NEW S, NEW es \in Begun(S), NEW c \in S, c # "/"
    PROVE  LET r == WithCharacter(es, c) IN
           /\ r \in Begun(S)
           /\ Len(r) = Len(es)
           /\ \A k \in 1 .. Len(es) - 1 : r[k] = es[k]
           /\ Len(r[Len(es)]) = Len(es[Len(es)]) + 1
           /\ \A i \in 1 .. Len(es[Len(es)]) : r[Len(es)][i] = es[Len(es)][i]
           /\ r[Len(es)][Len(es[Len(es)]) + 1] = c
<1> DEFINE n == Len(es)
           last == es[n]
           longer == Append(last, c)
           r == [es EXCEPT ![n] = longer]
<1>1. es \in Seq(Seq(S)) /\ n \in Nat /\ n >= 1 /\ last \in Seq(S) /\ n \in 1 .. n
  BY BegunType DEF LastOf
<1>2. WithCharacter(es, c) = r
  BY DEF WithCharacter
<1>3. /\ longer \in Seq(S)
      /\ Len(longer) = Len(last) + 1
      /\ \A i \in 1 .. Len(last) : longer[i] = last[i]
      /\ longer[Len(last) + 1] = c
  BY <1>1, AppendProperties
<1> HIDE DEF longer, last
<1>4. /\ r \in Seq(Seq(S)) /\ Len(r) = n
      /\ \A j \in 1 .. n : r[j] = IF j = n THEN longer ELSE es[j]
  BY <1>1, <1>3, ExceptSeq
<1> HIDE DEF r
<1>5. r # <<>>
  BY <1>1, <1>4, EmptySeq
<1>6. r \in Begun(S)
  BY <1>4, <1>5 DEF Begun
<1> HIDE DEF n
<1>7. r[n] = longer /\ \A k \in 1 .. n - 1 : r[k] = es[k]
  <2>1. \A k \in 1 .. n - 1 : k \in 1 .. n /\ k # n
    BY <1>1
  <2> QED BY <1>1, <1>4, <2>1
<1>8. /\ r \in Begun(S) /\ Len(r) = n
      /\ \A k \in 1 .. n - 1 : r[k] = es[k]
      /\ Len(r[n]) = Len(last) + 1
      /\ \A i \in 1 .. Len(last) : r[n][i] = last[i]
      /\ r[n][Len(last) + 1] = c
  BY <1>3, <1>4, <1>6, <1>7
<1> QED BY <1>2, <1>8 DEF n, last

\* How the elements of a path come about, character after character.
Builds(e, path, S) ==
    /\ e \in [0 .. Len(path) - 1 -> Begun(S)]
    /\ e[0] = <<<<>>>>
    /\ \A n \in 1 .. Len(path) - 1 : e[n] = WithCharacter(e[n - 1], path[n + 1])
    /\ Elements(path) = LET all == e[Len(path) - 1] IN
                        IF all[Len(all)] = <<>> THEN SubSeq(all, 1, Len(all) - 1) ELSE all

LEMMA ElementsAreBuilt ==
    ASSUME NEW S, NEW path \in Seq(S), Absolute(path)
    PROVE  \E e : Builds(e, path, S)
<1> DEFINE N == Len(path) - 1
           V == Begun(S)
           one == <<<<>>>>
           step == [n \in 1 .. N |-> [x \in V |-> WithCharacter(x, path[n + 1])]]
           Goes(f) == [n \in 0 .. N |-> IF n = 0 THEN <<<<>>>> ELSE WithCharacter(f[n - 1], path[n + 1])]
           upTo == CHOOSE f : f = Goes(f)
           Whole(all) == IF all[Len(all)] = <<>> THEN SubSeq(all, 1, Len(all) - 1) ELSE all
<1>1. N \in Nat /\ \A n \in 1 .. N : path[n + 1] \in S
  <2>1. Len(path) \in Nat /\ Len(path) >= 1
    BY EmptySeq DEF Absolute
  <2>2. \A n \in 1 .. N : n + 1 \in 1 .. Len(path)
    BY <2>1
  <2> QED BY <2>1, <2>2, ElementOfSeq
<1>2. Elements(path) = Whole(upTo[N])
  BY DEF Elements
<1>3. one \in V
  <2>1. <<>> \in Seq(S)
    BY EmptySeq
  <2>2. one \in Seq(Seq(S)) /\ one # <<>>
    BY <2>1
  <2> HIDE DEF one
  <2> QED BY <2>2 DEF Begun
<1>4. \A n \in 1 .. N : \A x \in V : WithCharacter(x, path[n + 1]) \in V
  <2> SUFFICES ASSUME NEW n \in 1 .. N, NEW x \in V PROVE WithCharacter(x, path[n + 1]) \in V
    OBVIOUS
  <2>1. CASE path[n + 1] = "/"
    BY <2>1, SlashBegins
  <2>2. CASE path[n + 1] # "/"
    BY <1>1, <2>2, OtherExtends
  <2> QED BY <2>1, <2>2
<1> HIDE DEF N, V, one, upTo, Whole
<1>5. step \in [1 .. N -> [V -> V]]
  BY <1>4
<1>6. PICK g \in [0 .. N -> V] : g[0] = one /\ \A n \in 1 .. N : g[n] = step[n][g[n - 1]]
  <2>0. one \in V /\ N \in Nat /\ step \in [1 .. N -> [V -> V]]
    BY <1>1, <1>3, <1>5
  <2> HIDE DEF step
  <2>1. \E g \in [0 .. N -> V] : g[0] = one /\ \A n \in 1 .. N : g[n] = step[n][g[n - 1]]
    BY <2>0, Recursive, SMTT(60)
  <2> QED BY <2>1
<1>7. \A n \in 1 .. N : g[n] = WithCharacter(g[n - 1], path[n + 1])
  <2> SUFFICES ASSUME NEW n \in 1 .. N PROVE g[n] = WithCharacter(g[n - 1], path[n + 1])
    OBVIOUS
  <2>1. g[n - 1] \in V
    BY <1>1
  <2>2. step[n][g[n - 1]] = WithCharacter(g[n - 1], path[n + 1])
    BY <2>1
  <2> HIDE DEF step
  <2> QED BY <1>6, <2>2
<1>8. g = Goes(g)
  <2>1. \A n \in 0 .. N : n = 0 \/ n \in 1 .. N
    BY <1>1
  <2>2. \A n \in 0 .. N : g[n] = Goes(g)[n]
    BY <1>6, <1>7, <2>1 DEF one
  <2>3. g = [n \in 0 .. N |-> g[n]] /\ Goes(g) = [n \in 0 .. N |-> Goes(g)[n]]
    OBVIOUS
  <2> HIDE DEF Goes
  <2> QED BY <2>2, <2>3
<1>9. upTo = Goes(upTo)
  <2> HIDE DEF Goes
  <2> QED BY <1>8 DEF upTo
<1>10. \A n \in 0 .. N : upTo[n] = g[n]
  <2> DEFINE T == {n \in 0 .. N : upTo[n] = g[n]}
  <2>1. 0 \in T
    BY <1>1, <1>8, <1>9
  <2>2. ASSUME NEW n \in 0 .. N - 1, n \in T PROVE n + 1 \in T
    <3>1. n + 1 \in 0 .. N /\ n + 1 # 0 /\ n + 1 - 1 = n
      BY <1>1
    <3>2. upTo[n + 1] = WithCharacter(upTo[n + 1 - 1], path[n + 1 + 1])
      <4>1. upTo[n + 1] = Goes(upTo)[n + 1]
        BY <1>9
      <4>2. Goes(upTo)[n + 1] = WithCharacter(upTo[n + 1 - 1], path[n + 1 + 1])
        BY <3>1
      <4> HIDE DEF Goes
      <4> QED BY <4>1, <4>2
    <3>3. g[n + 1] = WithCharacter(g[n + 1 - 1], path[n + 1 + 1])
      <4>1. g[n + 1] = Goes(g)[n + 1]
        BY <1>8
      <4>2. Goes(g)[n + 1] = WithCharacter(g[n + 1 - 1], path[n + 1 + 1])
        BY <3>1
      <4> HIDE DEF Goes
      <4> QED BY <4>1, <4>2
    <3>4. upTo[n + 1] = g[n + 1]
      BY <2>2, <3>1, <3>2, <3>3
    <3> QED BY <3>1, <3>4
  <2>3. N \in Nat /\ 0 \in T /\ \A n \in 0 .. N - 1 : n \in T => n + 1 \in T
    BY <1>1, <2>1, <2>2
  <2>4. 0 .. N \subseteq T
    <3> HIDE DEF T
    <3> QED BY <2>3, UpTo
  <2> QED BY <2>4
<1>11. Elements(path) = Whole(g[N])
  BY <1>1, <1>2, <1>10
<1>12. Builds(g, path, S)
  BY <1>6, <1>7, <1>11 DEF Builds, N, V, one, Whole
<1> QED BY <1>12

\* b has the elements of a, the last of which may have grown.
GoesOn(a, b) ==
    /\ Len(a) <= Len(b)
    /\ \A k \in 1 .. Len(a) - 1 : b[k] = a[k]
    /\ StartsWith(b[Len(a)], a[Len(a)])

LEMMA CharacterGoesOn ==
    ASSUME NEW S, NEW a \in Begun(S), NEW c \in S PROVE GoesOn(a, WithCharacter(a, c))
<1> DEFINE b == WithCharacter(a, c)
<1>1. Len(a) \in Nat /\ Len(a) >= 1 /\ Len(a[Len(a)]) \in Nat
  BY BegunType DEF LastOf
<1>2. CASE c = "/"
  <2>1. Len(b) = Len(a) + 1 /\ \A k \in 1 .. Len(a) : b[k] = a[k]
    BY <1>2, SlashBegins
  <2> HIDE DEF b
  <2> QED BY <1>1, <2>1 DEF GoesOn, StartsWith, b
<1>3. CASE c # "/"
  <2>1. /\ Len(b) = Len(a) /\ \A k \in 1 .. Len(a) - 1 : b[k] = a[k]
        /\ Len(b[Len(a)]) = Len(a[Len(a)]) + 1
        /\ \A i \in 1 .. Len(a[Len(a)]) : b[Len(a)][i] = a[Len(a)][i]
    BY <1>3, OtherExtends
  <2> HIDE DEF b
  <2>2. StartsWith(b[Len(a)], a[Len(a)])
    BY <1>1, <2>1 DEF StartsWith
  <2> QED BY <1>1, <2>1, <2>2 DEF GoesOn, b
<1> QED BY <1>2, <1>3

LEMMA GoesOnAndOn ==
    ASSUME NEW S, NEW a \in Begun(S), NEW b \in Begun(S), NEW c \in Begun(S),
           GoesOn(a, b), GoesOn(b, c)
    PROVE  GoesOn(a, c)
<1> DEFINE k == Len(a)
           l == Len(b)
<1>1. /\ k \in Nat /\ k >= 1 /\ l \in Nat /\ l >= 1 /\ Len(c) \in Nat
      /\ Len(a[k]) \in Nat /\ Len(b[l]) \in Nat
  BY BegunType DEF LastOf
<1>2. k <= l /\ l <= Len(c)
  BY DEF GoesOn
<1>3. /\ \A i \in 1 .. k - 1 : b[i] = a[i]
      /\ \A i \in 1 .. l - 1 : c[i] = b[i]
      /\ StartsWith(b[k], a[k]) /\ StartsWith(c[l], b[l])
  BY DEF GoesOn
<1>4. \A i \in 1 .. k - 1 : c[i] = a[i]
  <2> HIDE DEF k, l
  <2> QED BY <1>1, <1>2, <1>3
<1>5. StartsWith(c[k], a[k])
  <2>1. CASE k = l
    <3>1. Len(a[k]) <= Len(b[l]) /\ \A i \in 1 .. Len(a[k]) : b[l][i] = a[k][i]
      BY <1>3, <2>1 DEF StartsWith
    <3>2. Len(b[l]) <= Len(c[l]) /\ \A i \in 1 .. Len(b[l]) : c[l][i] = b[l][i]
      BY <1>3 DEF StartsWith
    <3>3. Len(c[l]) \in Nat
      BY <1>1, <1>2, BegunType
    <3> HIDE DEF k, l
    <3>4. Len(a[k]) <= Len(c[l]) /\ \A i \in 1 .. Len(a[k]) : c[l][i] = a[k][i]
      BY <1>1, <3>1, <3>2, <3>3
    <3> QED BY <2>1, <3>4 DEF StartsWith
  <2>2. CASE k # l
    <3> HIDE DEF k, l
    <3>1. k \in 1 .. l - 1
      BY <1>1, <1>2, <2>2
    <3> QED BY <1>3, <3>1
  <2> QED BY <2>1, <2>2
<1>6. k <= Len(c)
  <2> HIDE DEF k, l
  <2> QED BY <1>1, <1>2
<1> QED BY <1>4, <1>5, <1>6 DEF GoesOn

LEMMA GoesOnItself == ASSUME NEW S, NEW a \in Begun(S) PROVE GoesOn(a, a)
  BY BegunType DEF GoesOn, StartsWith, LastOf

\* The elements of the beginning of a path stay, but for the last, which may grow.
LEMMA ElementsStay ==
    ASSUME NEW S, NEW path \in Seq(S), Absolute(path), NEW e, Builds(e, path, S),
           NEW n \in 0 .. Len(path) - 1, NEW m \in n .. Len(path) - 1
    PROVE  GoesOn(e[n], e[m])
<1> DEFINE N == Len(path) - 1
           T == {i \in 0 .. N - n : GoesOn(e[n], e[n + i])}
<1>1. Len(path) \in Nat /\ Len(path) >= 1
  BY EmptySeq DEF Absolute
<1>2. \A i \in 0 .. N : e[i] \in Begun(S)
  BY DEF Builds
<1>3. N \in Nat /\ n \in 0 .. N /\ N - n \in Nat /\ m - n \in 0 .. N - n /\ n + (m - n) = m
  BY <1>1
<1> HIDE DEF N
<1>4. 0 \in T
  <2>1. GoesOn(e[n], e[n]) /\ n + 0 = n
    BY <1>2, <1>3, GoesOnItself
  <2> QED BY <1>3, <2>1
<1>5. ASSUME NEW i \in 0 .. (N - n) - 1, i \in T PROVE i + 1 \in T
  <2>1. /\ i + 1 \in 0 .. N - n /\ n + i \in 0 .. N /\ n + (i + 1) \in 1 .. N /\ n + (i + 1) \in 0 .. N
        /\ n + (i + 1) - 1 = n + i /\ n + (i + 1) + 1 \in 1 .. Len(path)
    BY <1>1, <1>3 DEF N
  <2>2. e[n + (i + 1)] = WithCharacter(e[n + i], path[n + (i + 1) + 1])
    <3>1. e[n + (i + 1)] = WithCharacter(e[n + (i + 1) - 1], path[n + (i + 1) + 1])
      BY <2>1 DEF Builds, N
    <3> QED BY <2>1, <3>1
  <2>3. path[n + (i + 1) + 1] \in S
    BY <2>1, ElementOfSeq
  <2>4. GoesOn(e[n + i], e[n + (i + 1)])
    BY <1>2, <2>1, <2>2, <2>3, CharacterGoesOn
  <2>5. GoesOn(e[n], e[n + (i + 1)])
    <3>1. GoesOn(e[n], e[n + i])
      BY <1>5
    <3>2. e[n] \in Begun(S) /\ e[n + i] \in Begun(S) /\ e[n + (i + 1)] \in Begun(S)
      BY <1>2, <1>3, <2>1
    <3> QED BY <2>4, <3>1, <3>2, GoesOnAndOn
  <2> QED BY <2>1, <2>5
<1>6. 0 .. N - n \subseteq T
  <2> DEFINE d == N - n
  <2>1. d \in Nat /\ 0 \in T /\ \A i \in 0 .. d - 1 : i \in T => i + 1 \in T
    BY <1>3, <1>4, <1>5
  <2> HIDE DEF T, d
  <2>2. 0 .. d \subseteq T
    BY <2>1, UpTo
  <2> QED BY <2>2 DEF d
<1>7. GoesOn(e[n], e[n + (m - n)])
  BY <1>3, <1>6
<1> QED BY <1>3, <1>7

\* What the next character does to the last element of a beginning of a path.
Continued(e, path, n) ==
    LET all == e[Len(path) - 1]
        k == Len(e[n])
    IN /\ k <= Len(all)
       /\ path[n + 2] = "/" => k < Len(all) /\ all[k] = e[n][k]
       /\ path[n + 2] # "/" => /\ Len(all[k]) > Len(e[n][k])
                               /\ all[k][Len(e[n][k]) + 1] = path[n + 2]

LEMMA NextCharacter ==
    ASSUME NEW S, NEW path \in Seq(S), Absolute(path), NEW e, Builds(e, path, S),
           NEW n \in 0 .. Len(path) - 2
    PROVE  Continued(e, path, n)
<1> DEFINE N == Len(path) - 1
           k == Len(e[n])
           all == e[N]
           c == path[n + 2]
<1>1. Len(path) \in Nat /\ Len(path) >= 1
  BY EmptySeq DEF Absolute
<1>2. N \in Nat /\ n \in 0 .. N /\ n + 1 \in 1 .. N /\ n + 1 \in 0 .. N /\ N \in n + 1 .. N
      /\ n + 1 - 1 = n /\ n + 1 + 1 = n + 2 /\ n + 2 \in 1 .. Len(path)
  BY <1>1
<1>3. e[n] \in Begun(S) /\ e[n + 1] \in Begun(S) /\ all \in Begun(S)
  <2>1. e \in [0 .. N -> Begun(S)]
    BY DEF Builds
  <2>2. N \in 0 .. N
    BY <1>2
  <2> HIDE DEF N
  <2> QED BY <1>2, <2>1, <2>2
<1>4. c \in S
  BY <1>2, ElementOfSeq
<1>5. e[n + 1] = WithCharacter(e[n], c)
  <2>1. e[n + 1] = WithCharacter(e[n + 1 - 1], path[n + 1 + 1])
    <3>1. \A i \in 1 .. N : e[i] = WithCharacter(e[i - 1], path[i + 1])
      BY DEF Builds
    <3> HIDE DEF N
    <3> QED BY <1>2, <3>1
  <2> QED BY <1>2, <2>1
<1>6. GoesOn(e[n + 1], all)
  BY <1>2, ElementsStay
<1>7. k \in Nat /\ k >= 1 /\ Len(all) \in Nat /\ Len(e[n][k]) \in Nat
  BY <1>3, BegunType DEF LastOf
<1> DEFINE b == e[n + 1]
           l == Len(b)
           x == e[n][k]
<1>8. l \in Nat /\ l <= Len(all) /\ (\A i \in 1 .. l - 1 : all[i] = b[i]) /\ StartsWith(all[l], b[l])
  BY <1>3, <1>6, BegunType DEF GoesOn
<1>9. CASE c = "/"
  <2>1. l = k + 1 /\ \A i \in 1 .. k : b[i] = e[n][i]
    BY <1>3, <1>5, <1>9, SlashBegins
  <2> HIDE DEF N, k, all, c, b, l
  <2>2. k < Len(all) /\ k \in 1 .. l - 1 /\ k \in 1 .. k
    BY <1>7, <1>8, <2>1
  <2>3. all[k] = e[n][k]
    BY <1>8, <2>1, <2>2
  <2>4. k <= Len(all)
    BY <1>7, <2>2
  <2> QED BY <1>9, <2>2, <2>3, <2>4 DEF Continued, N, k, all, c
<1>10. CASE c # "/"
  <2>1. l = k /\ Len(b[k]) = Len(x) + 1 /\ b[k][Len(x) + 1] = c
    <3> DEFINE r == WithCharacter(e[n], c)
    <3> HIDE DEF c, l
    <3>1. /\ Len(r) = Len(e[n])
          /\ Len(r[Len(e[n])]) = Len(e[n][Len(e[n])]) + 1
          /\ r[Len(e[n])][Len(e[n][Len(e[n])]) + 1] = c
      BY <1>3, <1>4, <1>10, OtherExtends
    <3> QED BY <1>5, <3>1 DEF l
  <2>2. Len(all[k]) \in Nat
    <3>1. k \in 1 .. Len(all)
      BY <1>7, <1>8, <2>1
    <3> HIDE DEF all, k
    <3> QED BY <1>3, <3>1, BegunType
  <2> HIDE DEF N, k, all, c, b, l, x
  <2>3. Len(b[k]) <= Len(all[k]) /\ \A i \in 1 .. Len(b[k]) : all[k][i] = b[k][i]
    BY <1>8, <2>1 DEF StartsWith
  <2>4. Len(x) \in Nat
    BY <1>7 DEF x
  <2>5. Len(x) + 1 \in 1 .. Len(b[k])
    BY <2>1, <2>4
  <2>6. Len(all[k]) > Len(x) /\ all[k][Len(x) + 1] = c
    BY <2>1, <2>2, <2>3, <2>4, <2>5
  <2>7. k <= Len(all)
    BY <1>8, <2>1
  <2> QED BY <1>10, <2>6, <2>7 DEF Continued, N, k, all, c, x
<1> QED BY <1>9, <1>10

\* Paths that begin alike have the same elements so far.
LEMMA SameBeginning ==
    ASSUME NEW S, NEW prefix \in Seq(S), Absolute(prefix), NEW path \in Seq(S), Absolute(path),
           NEW e, Builds(e, prefix, S), NEW f, Builds(f, path, S),
           NEW j \in Nat, j < Len(prefix), j < Len(path),
           \A i \in 1 .. j + 1 : path[i] = prefix[i]
    PROVE  f[j] = e[j]
<1> DEFINE N == Len(prefix) - 1
           M == Len(path) - 1
           T == {i \in 0 .. j : f[i] = e[i]}
<1>1. N \in Nat /\ M \in Nat /\ j <= N /\ j <= M
  <2>1. Len(prefix) \in Nat /\ Len(prefix) >= 1 /\ Len(path) \in Nat /\ Len(path) >= 1
    BY EmptySeq DEF Absolute
  <2> QED BY <2>1
<1>2. /\ e[0] = <<<<>>>> /\ f[0] = <<<<>>>>
      /\ \A n \in 1 .. N : e[n] = WithCharacter(e[n - 1], prefix[n + 1])
      /\ \A n \in 1 .. M : f[n] = WithCharacter(f[n - 1], path[n + 1])
  BY DEF Builds
<1> HIDE DEF N, M
<1>3. 0 \in T
  BY <1>2
<1>4. ASSUME NEW i \in 0 .. j - 1, i \in T PROVE i + 1 \in T
  <2>1. /\ i + 1 \in 0 .. j /\ i + 1 \in 1 .. N /\ i + 1 \in 1 .. M /\ i + 1 - 1 = i
        /\ i + 1 + 1 \in 1 .. j + 1
    BY <1>1
  <2>2. path[i + 1 + 1] = prefix[i + 1 + 1]
    BY <2>1
  <2>3. e[i + 1] = WithCharacter(e[i], prefix[i + 1 + 1])
    <3>1. e[i + 1] = WithCharacter(e[i + 1 - 1], prefix[i + 1 + 1])
      BY <1>2, <2>1
    <3> QED BY <2>1, <3>1
  <2>4. f[i + 1] = WithCharacter(f[i], path[i + 1 + 1])
    <3>1. f[i + 1] = WithCharacter(f[i + 1 - 1], path[i + 1 + 1])
      BY <1>2, <2>1
    <3> QED BY <2>1, <3>1
  <2>5. f[i] = e[i]
    BY <1>4
  <2> QED BY <2>1, <2>2, <2>3, <2>4, <2>5
<1>5. j \in Nat /\ 0 \in T /\ \A i \in 0 .. j - 1 : i \in T => i + 1 \in T
  BY <1>3, <1>4
<1>6. 0 .. j \subseteq T
  <2> HIDE DEF T
  <2> QED BY <1>5, UpTo
<1> QED BY <1>6

\* The elements of a path are all that are built, but for the last if it is empty.
LEMMA ElementsAre ==
    ASSUME NEW S, NEW path \in Seq(S), Absolute(path), NEW e, Builds(e, path, S)
    PROVE  LET all == e[Len(path) - 1] IN
           /\ all \in Begun(S)
           /\ Len(Elements(path)) \in Nat
           /\ Len(Elements(path)) <= Len(all) /\ Len(Elements(path)) >= Len(all) - 1
           /\ \A k \in 1 .. Len(Elements(path)) : Elements(path)[k] = all[k]
           /\ all[Len(all)] # <<>> => Elements(path) = all
<1> DEFINE N == Len(path) - 1
           all == e[N]
           front == SubSeq(all, 1, Len(all) - 1)
<1>1. N \in 0 .. N
  <2>1. Len(path) \in Nat /\ Len(path) >= 1
    BY EmptySeq DEF Absolute
  <2> QED BY <2>1
<1>2. all \in Begun(S)
  <2>1. e \in [0 .. N -> Begun(S)]
    BY DEF Builds
  <2> HIDE DEF N
  <2> QED BY <1>1, <2>1
<1>3. Elements(path) = IF all[Len(all)] = <<>> THEN front ELSE all
  BY DEF Builds
<1> HIDE DEF all
<1>4. Len(all) \in Nat /\ Len(all) >= 1 /\ all \in Seq(Seq(S))
  BY <1>2, BegunType
<1>5. /\ Len(front) = Len(all) - 1
      /\ \A k \in 1 .. Len(all) - 1 : front[k] = all[k]
  <2> DEFINE n == Len(all) - 1
  <2>1. n \in Nat /\ n - 1 + 1 = n /\ 1 \in Int
    BY <1>4
  <2>2. \A i \in 1 .. n : all[i] \in Seq(S)
    BY <1>4, ElementOfSeq
  <2> HIDE DEF n
  <2>3. /\ Len(SubSeq(all, 1, n)) = IF 1 <= n THEN n - 1 + 1 ELSE 0
        /\ \A i \in 1 .. n - 1 + 1 : SubSeq(all, 1, n)[i] = all[1 + i - 1]
    BY <2>1, <2>2, SubSeqProperties
  <2>4. Len(SubSeq(all, 1, n)) = n
    BY <2>1, <2>3
  <2>5. ASSUME NEW i \in 1 .. n PROVE SubSeq(all, 1, n)[i] = all[i]
    <3>1. i \in 1 .. n - 1 + 1 /\ 1 + i - 1 = i
      BY <2>1
    <3> QED BY <2>3, <3>1
  <2> QED BY <2>4, <2>5 DEF n
<1> HIDE DEF front
<1>6. /\ Len(Elements(path)) \in Nat
      /\ Len(Elements(path)) <= Len(all) /\ Len(Elements(path)) >= Len(all) - 1
      /\ \A k \in 1 .. Len(Elements(path)) : Elements(path)[k] = all[k]
      /\ all[Len(all)] # <<>> => Elements(path) = all
  <2>1. CASE all[Len(all)] = <<>>
    <3>1. Elements(path) = front
      BY <1>3, <2>1
    <3> QED BY <1>4, <1>5, <2>1, <3>1
  <2>2. CASE all[Len(all)] # <<>>
    <3>1. Elements(path) = all
      BY <1>3, <2>2
    <3> QED BY <1>4, <2>2, <3>1
  <2> QED BY <2>1, <2>2
<1> QED BY <1>2, <1>6 DEF all

\* If a path does not end in a slash its last element is not empty.
LEMMA LastIsNotEmpty ==
    ASSUME NEW S, NEW path \in Seq(S), Absolute(path), NEW e, Builds(e, path, S),
           path[Len(path)] # "/"
    PROVE  Elements(path) = e[Len(path) - 1] /\ Len(path) >= 2
<1> DEFINE N == Len(path) - 1
           c == path[Len(path)]
           r == WithCharacter(e[N - 1], c)
<1>1. Len(path) \in Nat /\ Len(path) >= 2
  <2>1. Len(path) \in Nat /\ Len(path) >= 1
    BY EmptySeq DEF Absolute
  <2>2. Len(path) # 1
    BY DEF Absolute
  <2> DEFINE L == Len(path)
  <2>3. L \in Nat /\ L >= 1 /\ L # 1
    BY <2>1, <2>2
  <2> HIDE DEF L
  <2>4. L \in Nat /\ L >= 2
    BY <2>3
  <2> QED BY <2>4 DEF L
<1>2. N \in 1 .. N /\ N - 1 \in 0 .. N /\ N + 1 = Len(path) /\ Len(path) \in 1 .. Len(path)
  BY <1>1
<1>3. e \in [0 .. N -> Begun(S)] /\ \A n \in 1 .. N : e[n] = WithCharacter(e[n - 1], path[n + 1])
  BY DEF Builds
<1>4. c \in S
  BY <1>2, ElementOfSeq
<1>5. e[N] = r
  <2> HIDE DEF N
  <2> QED BY <1>2, <1>3
<1>6. e[N - 1] \in Begun(S)
  <2> HIDE DEF N
  <2> QED BY <1>2, <1>3
<1>7. r[Len(r)] # <<>>
  <2> DEFINE a == e[N - 1]
  <2>1. a \in Begun(S) /\ c \in S /\ c # "/"
    BY <1>4, <1>6
  <2> HIDE DEF a, c
  <2>2. Len(WithCharacter(a, c)) = Len(a) /\ Len(WithCharacter(a, c)[Len(a)]) = Len(a[Len(a)]) + 1
    BY <2>1, OtherExtends
  <2>3. Len(a[Len(a)]) \in Nat
    BY <2>1, BegunType DEF LastOf
  <2>4. WithCharacter(a, c)[Len(WithCharacter(a, c))] # <<>>
    BY <2>2, <2>3, EmptySeq
  <2> QED BY <2>4 DEF a
<1>8. e[N][Len(e[N])] # <<>>
  <2> HIDE DEF r
  <2> QED BY <1>5, <1>7
<1> QED BY <1>1, <1>8, ElementsAre

\* prefix_path_matches compares element by element.
LEMMA MatchesByElements ==
    ASSUME NEW S, NEW prefix \in Seq(S), Absolute(prefix), NEW path \in Seq(S), Absolute(path),
           prefix = <<"/">> \/ prefix[Len(prefix)] # "/"
    PROVE  PrefixPathMatches(prefix, path) <=> StartsWith(Elements(path), Elements(prefix))
<1>1. PICK e : Builds(e, prefix, S)
  BY ElementsAreBuilt
<1>2. PICK f : Builds(f, path, S)
  BY ElementsAreBuilt
<1> DEFINE N == Len(prefix) - 1
           M == Len(path) - 1
           all == e[N]
           K == Len(all)
           found == f[M]
           g == Elements(path)
<1>3. Len(prefix) \in Nat /\ Len(prefix) >= 1 /\ Len(path) \in Nat /\ Len(path) >= 1
  BY EmptySeq DEF Absolute
<1>4. /\ found \in Begun(S) /\ Len(g) \in Nat
      /\ Len(g) <= Len(found) /\ Len(g) >= Len(found) - 1
      /\ \A k \in 1 .. Len(g) : g[k] = found[k]
  BY <1>2, ElementsAre
<1>5. all \in Begun(S)
  BY <1>1, ElementsAre
<1>6. K \in Nat /\ K >= 1 /\ Len(all[K]) \in Nat /\ Len(found) \in Nat
  BY <1>4, <1>5, BegunType DEF LastOf
<1>7. CASE prefix = <<"/">>
  <2>1. N = 0 /\ e[0] = <<<<>>>>
    BY <1>1, <1>7 DEF Builds
  <2>2. Elements(prefix) = <<>>
    <3>1. Elements(prefix) = IF e[0][Len(e[0])] = <<>> THEN SubSeq(e[0], 1, Len(e[0]) - 1) ELSE e[0]
      BY <1>1, <2>1 DEF Builds
    <3>2. Len(e[0]) = 1 /\ e[0][1] = <<>>
      BY <2>1
    <3>3. Elements(prefix) = SubSeq(e[0], 1, 0)
      BY <3>1, <3>2
    <3> QED BY <3>3, SubSeqEmpty
  <2>3. StartsWith(g, Elements(prefix))
    <3> HIDE DEF g
    <3> QED BY <1>4, <2>2 DEF StartsWith
  <2> QED BY <1>7, <2>3 DEF PrefixPathMatches
<1>8. CASE prefix # <<"/">>
  <2>1. Elements(prefix) = all /\ Len(prefix) >= 2
    BY <1>1, <1>8, LastIsNotEmpty
  <2>2. ASSUME PrefixPathMatches(prefix, path) PROVE StartsWith(g, all)
    <3>1. CASE path = prefix
      <4>1. g = all
        BY <2>1, <3>1
      <4> HIDE DEF g, all
      <4> QED BY <1>6, <4>1 DEF StartsWith, K
    <3>2. CASE /\ StartsWith(path, prefix) /\ Len(path) > Len(prefix)
               /\ path[Len(prefix) + 1] = "/"
      <4>1. /\ \A i \in 1 .. N + 1 : path[i] = prefix[i]
            /\ N \in Nat /\ N < Len(prefix) /\ N < Len(path)
            /\ N \in 0 .. Len(path) - 2 /\ N + 2 = Len(prefix) + 1
            /\ N \in 0 .. M /\ M \in N .. M
        BY <1>3, <3>2 DEF StartsWith
      <4>2. f[N] = all
        <5> HIDE DEF N, M
        <5> QED BY <1>1, <1>2, <4>1, SameBeginning
      <4>3. K < Len(found) /\ found[K] = all[K]
        <5>1. path[N + 2] = "/"
          BY <3>2, <4>1
        <5> HIDE DEF N
        <5>2. Continued(f, path, N)
          BY <1>2, <4>1, NextCharacter
        <5> QED BY <4>2, <5>1, <5>2 DEF Continued
      <4>4. \A k \in 1 .. K - 1 : found[k] = all[k]
        <5>1. GoesOn(f[N], found)
          BY <1>2, <4>1, ElementsStay
        <5> QED BY <4>2, <5>1 DEF GoesOn
      <4> HIDE DEF N, M, all, K, found, g
      <4>5. \A k \in 1 .. K : k \in 1 .. Len(g) /\ found[k] = all[k]
        BY <1>4, <1>6, <4>3, <4>4
      <4>6. Len(all) <= Len(g) /\ \A k \in 1 .. Len(all) : g[k] = all[k]
        BY <1>4, <1>6, <4>3, <4>5 DEF K
      <4> QED BY <4>6 DEF StartsWith
    <3> QED BY <1>8, <2>2, <3>1, <3>2 DEF PrefixPathMatches
  <2>3. ASSUME StartsWith(g, all) PROVE PrefixPathMatches(prefix, path)
    <3>1. K <= Len(found) /\ \A k \in 1 .. K : found[k] = all[k]
      <4>1. K <= Len(g) /\ \A k \in 1 .. K : g[k] = all[k]
        BY <2>3 DEF StartsWith
      <4> HIDE DEF all, K, found, g
      <4> QED BY <1>4, <1>6, <4>1
    <3> DEFINE Alike(j) == j < Len(path) /\ \A i \in 1 .. j + 1 : path[i] = prefix[i]
               T == {j \in 0 .. N : Alike(j)}
    <3>2. 0 \in T
      BY <1>3 DEF Absolute
    <3>3. ASSUME NEW j \in 0 .. N - 1, j \in T PROVE j + 1 \in T
      <4>1. /\ j \in Nat /\ j < Len(prefix) /\ j < Len(path)
            /\ \A i \in 1 .. j + 1 : path[i] = prefix[i]
            /\ j \in 0 .. Len(prefix) - 2 /\ j + 1 \in 0 .. N
        BY <1>3, <3>3
      <4>2. f[j] = e[j]
        BY <1>1, <1>2, <4>1, SameBeginning
      <4> DEFINE k == Len(e[j])
                 l == Len(e[j][k])
                 c == prefix[j + 2]
                 d == path[j + 2]
      <4>3. /\ k <= K
            /\ c = "/" => k < K /\ all[k] = e[j][k]
            /\ c # "/" => Len(all[k]) > l /\ all[k][l + 1] = c
        <5>1. Continued(e, prefix, j)
          BY <1>1, <4>1, NextCharacter
        <5> QED BY <5>1 DEF Continued
      <4>4. /\ k \in Nat /\ k >= 1 /\ l \in Nat
        <5>1. e[j] \in Begun(S)
          <6>1. e \in [0 .. N -> Begun(S)] /\ j \in 0 .. N
            BY <1>1 DEF Builds
          <6> HIDE DEF N
          <6> QED BY <6>1
        <5> QED BY <5>1, BegunType DEF LastOf
      <4>5. k \in 1 .. K /\ found[k] = all[k]
        <5> HIDE DEF k, all, K, found
        <5> QED BY <1>6, <3>1, <4>3, <4>4
      <4>6. j # M
        <5> SUFFICES ASSUME j = M PROVE FALSE
          OBVIOUS
        <5>1. found = e[j]
          BY <4>2
        <5> HIDE DEF k, l, c, all, K, found
        <5>2. Len(found) = k /\ Len(found[k]) = l
          BY <5>1 DEF k, l
        <5>3. CASE c = "/"
          BY <1>6, <3>1, <4>3, <4>4, <5>2, <5>3
        <5>4. CASE c # "/"
          BY <4>3, <4>4, <4>5, <5>2, <5>4
        <5> QED BY <5>3, <5>4
      <4>7. j \in 0 .. Len(path) - 2 /\ j + 1 < Len(path)
        <5> DEFINE L == Len(path)
        <5>1. L \in Nat /\ j < L /\ j # L - 1 /\ j \in Nat
          BY <1>3, <4>1, <4>6
        <5> HIDE DEF L
        <5>2. j \in 0 .. L - 2 /\ j + 1 < L
          BY <5>1
        <5> QED BY <5>2 DEF L
      <4>8. /\ d = "/" => found[k] = e[j][k]
            /\ d # "/" => Len(found[k]) > l /\ found[k][l + 1] = d
        <5>1. /\ d = "/" => found[Len(f[j])] = f[j][Len(f[j])]
              /\ d # "/" => /\ Len(found[Len(f[j])]) > Len(f[j][Len(f[j])])
                            /\ found[Len(f[j])][Len(f[j][Len(f[j])]) + 1] = d
          <6>1. j \in 0 .. Len(path) - 2
            BY <4>7
          <6>2. Continued(f, path, j)
            BY <1>2, <6>1, NextCharacter
          <6> QED BY <6>2 DEF Continued
        <5> HIDE DEF d, found
        <5> QED BY <4>2, <5>1
      <4>9. c = d
        <5> DEFINE x == e[j][k]
        <5>1. l = Len(x)
          OBVIOUS
        <5> HIDE DEF k, l, c, d, all, K, found, x
        <5>2. CASE c = "/"
          <6>1. all[k] = x
            BY <4>3, <5>2 DEF x
          <6>2. Len(found[k]) = l
            BY <4>5, <5>1, <6>1
          <6> QED BY <4>4, <4>8, <5>2, <6>2
        <5>3. CASE c # "/"
          <6>1. Len(all[k]) > l /\ all[k][l + 1] = c
            BY <4>3, <5>3
          <6>2. d # "/"
            <7> SUFFICES ASSUME d = "/" PROVE FALSE
              OBVIOUS
            <7>1. Len(found[k]) = l
              BY <4>8, <5>1 DEF x
            <7> QED BY <4>4, <4>5, <6>1, <7>1
          <6> QED BY <4>5, <4>8, <6>1, <6>2
        <5> QED BY <5>2, <5>3
      <4>10. ASSUME NEW i \in 1 .. j + 1 + 1 PROVE path[i] = prefix[i]
        <5>1. i \in 1 .. j + 1 \/ i = j + 2
          BY <4>1
        <5> QED BY <4>1, <4>9, <5>1
      <4> QED BY <4>1, <4>7, <4>10
    <3>4. 0 .. N \subseteq T
      <4>1. N \in Nat /\ 0 \in T /\ \A j \in 0 .. N - 1 : j \in T => j + 1 \in T
        BY <1>3, <3>2, <3>3
      <4> HIDE DEF N, T
      <4> QED BY <4>1, UpTo
    <3>5. /\ N \in Nat /\ N < Len(path) /\ N < Len(prefix)
          /\ \A i \in 1 .. N + 1 : path[i] = prefix[i]
      <4>1. N \in T
        <5>1. N \in 0 .. N
          BY <1>3
        <5> HIDE DEF N, T
        <5> QED BY <3>4, <5>1
      <4> QED BY <1>3, <4>1
    <3>6. StartsWith(path, prefix)
      BY <1>3, <3>5 DEF StartsWith
    <3>7. CASE Len(path) = Len(prefix)
      <4>1. path = prefix
        BY <3>6, <3>7, SeqEqual DEF StartsWith
      <4> QED BY <4>1 DEF PrefixPathMatches
    <3>8. CASE Len(path) # Len(prefix)
      <4>1. Len(path) > Len(prefix) /\ N \in 0 .. Len(path) - 2 /\ N + 2 = Len(prefix) + 1
        BY <1>3, <3>5, <3>8
      <4>2. f[N] = all
        <5> HIDE DEF N
        <5> QED BY <1>1, <1>2, <3>5, SameBeginning
      <4>3. path[N + 2] # "/" => Len(found[K]) > Len(all[K])
        <5> HIDE DEF N
        <5>1. Continued(f, path, N)
          BY <1>2, <4>1, NextCharacter
        <5> QED BY <4>2, <5>1 DEF Continued
      <4>4. found[K] = all[K]
        <5> HIDE DEF K, found, all
        <5> QED BY <1>6, <3>1
      <4>5. path[N + 2] = "/"
        <5> HIDE DEF N, K, found, all
        <5> QED BY <1>6, <4>3, <4>4
      <4>6. path[Len(prefix) + 1] = "/"
        BY <4>1, <4>5
      <4> QED BY <3>6, <4>1, <4>6 DEF PrefixPathMatches
    <3> QED BY <3>7, <3>8
  <2> QED BY <2>1, <2>2, <2>3
<1> QED BY <1>7, <1>8

\* A prefix without a slash at its end matches element by element, in every table and
\* for every path of a request: the comparison of characters in prefix_path_matches
\* never takes the beginning of an element for the element.
THEOREM PrefixesMatchByElements == Spec => []PrefixByElements
<1>1. ASSUME TypeOK PROVE PrefixByElements
  <2> SUFFICES ASSUME NEW i \in DOMAIN table, NEW u \in DOMAIN table[i].rules,
                      NEW k \in DOMAIN table[i].rules[u].matches,
                      LET p == table[i].rules[u].matches[k].path IN
                      /\ p.type = "prefix" /\ Absolute(p.value) /\ Absolute(request.path)
                      /\ p.value = <<"/">> \/ p.value[Len(p.value)] # "/"
               PROVE  LET p == table[i].rules[u].matches[k].path IN
                      PathMatches(p, request.path) <=>
                          StartsWith(Elements(request.path), Elements(p.value))
    BY DEF PrefixByElements
  <2> DEFINE m == table[i].rules[u].matches[k]
             p == m.path
  <2>1. m \in Match
    <3>1. table[i].rules[u].matches \in Seq(Match)
      BY <1>1, TableType DEF TypeOK
    <3> QED BY <3>1, LenProperties, ElementOfSeq
  <2> HIDE DEF m
  <2>2. p.value \in Seq(STRING)
    BY <2>1 DEF Match, PathMatch, Path
  <2>3. request.path \in Seq(STRING)
    BY <1>1, RoutingAssumption DEF TypeOK, Request, Path
  <2>4. /\ p.type = "prefix" /\ Absolute(p.value) /\ Absolute(request.path)
        /\ p.value = <<"/">> \/ p.value[Len(p.value)] # "/"
    BY DEF m
  <2>5. PathMatches(p, request.path) <=> PrefixPathMatches(p.value, request.path)
    BY <2>4 DEF PathMatches
  <2>6. PrefixPathMatches(p.value, request.path) <=>
            StartsWith(Elements(request.path), Elements(p.value))
    BY <2>2, <2>3, <2>4, MatchesByElements
  <2> QED BY <2>5, <2>6 DEF m
<1> QED BY <1>1, TypeCorrect, PTL

===============================================================================
