------------------------------- MODULE Router -------------------------------
(***************************************************************************)
(* crow::Router and its Trie: rules are added, the trie is optimized once  *)
(* when the application is validated, and requests are dispatched.         *)
(*                                                                         *)
(* A url is a sequence of characters; a rule is a sequence of characters   *)
(* and parameter tags.  Node 0 is the head; a child index of 0 is none.    *)
(***************************************************************************)
EXTENDS Integers, Sequences, FiniteSets, SequencesExt, FiniteSetsExt

CONSTANTS
  Rules,         \* the urls of the rules that may be added
  Signatures,    \* argument types of the handlers that may be attached
  Urls,          \* the urls that are requested
  MaxIntDigits,  \* digits of the largest long long
  MaxUintDigits, \* digits of the largest unsigned long long
  MaxRules       \* bound: rules that are added

ASSUME RouterAssumption == MaxRules \in Nat /\ MaxIntDigits \in Nat /\ MaxUintDigits \in Nat

VARIABLES
  rules,  \* rules_: index 0 and 1 hold no rule
  nodes,  \* nodes_
  phase,  \* "adding", "serving", or the end: "threw", "looping"
  res     \* the last answer

vars == <<rules, nodes, phase, res>>

ParamType == {"INT", "UINT", "DOUBLE", "STRING", "PATH"}
RULE_SPECIAL_REDIRECT_SLASH == 1
NoRule == [url |-> <<>>, methods |-> {}, kind |-> "null", args |-> <<>>]

\* The parameter tags, in the order of the table in add().
paramTraits == [t \in {"<int>", "<uint>", "<float>", "<double>", "<str>", "<string>", "<path>"} |->
  CASE t = "<int>" -> "INT" [] t = "<uint>" -> "UINT" [] t \in {"<float>", "<double>"} -> "DOUBLE"
    [] t \in {"<str>", "<string>"} -> "STRING" [] t = "<path>" -> "PATH"]
Unknown == {"<other>"}
Tags == DOMAIN paramTraits \cup Unknown

(***************************************************************************)
(* Trie.                                                                   *)
(***************************************************************************)
NewNode == [rule_index |-> 0, param_childrens |-> [t \in ParamType |-> 0], children |-> <<>>]
Trie == [i \in {0} |-> NewNode]

IsSimpleNode(node) == node.rule_index = 0 /\ \A t \in ParamType : node.param_childrens[t] = 0

Extended(f, x, y) == [z \in DOMAIN f \cup {x} |-> IF z = x THEN y ELSE f[z]]

new_node(ns) == Cardinality(DOMAIN ns)

\* One piece of a rule's url: the child for it is found or made.
Descend(at, piece) ==
  LET node == at.nodes[at.idx]
      new == new_node(at.nodes)
      grown == Extended(at.nodes, new, NewNode)
      t == paramTraits[piece]
      f == <<piece>>
  IN IF at.looping \/ piece \in Unknown THEN [at EXCEPT !.looping = TRUE]
     ELSE IF piece \in Tags
     THEN IF node.param_childrens[t] # 0 THEN [at EXCEPT !.idx = node.param_childrens[t]]
          ELSE [at EXCEPT !.idx = new, !.nodes = [grown EXCEPT ![at.idx].param_childrens[t] = new]]
     ELSE IF f \in DOMAIN node.children THEN [at EXCEPT !.idx = node.children[f]]
          ELSE [at EXCEPT !.idx = new,
                          !.nodes = [grown EXCEPT ![at.idx].children = Extended(@, f, new)]]

\* add(): an unknown tag moves i back to its "<" for ever; the node of a url
\* takes one rule.
add(ns, url, rule_index) ==
  LET at == FoldLeft(Descend, [nodes |-> ns, idx |-> 0, looping |-> FALSE], url)
  IN IF at.looping THEN [nodes |-> at.nodes, end |-> "looping"]
     ELSE IF at.nodes[at.idx].rule_index # 0 THEN [nodes |-> at.nodes, end |-> "threw"]
     ELSE [nodes |-> [at.nodes EXCEPT ![at.idx].rule_index = rule_index], end |-> "adding"]

\* The children of the children of n, under both fragments.
Merged(ns, n) ==
  LET kids == ns[n].children
      pairs == {<<f, g>> : f \in DOMAIN kids, g \in UNION {DOMAIN ns[kids[h]].children : h \in DOMAIN kids}}
      there == {p \in pairs : p[2] \in DOMAIN ns[kids[p[1]]].children}
  IN [f \in {p[1] \o p[2] : p \in there} |->
        LET p == CHOOSE q \in there : q[1] \o q[2] = f IN ns[kids[p[1]]].children[p[2]]]

\* Mistake: a node is merged with its children though one ends a rule.
MergeableMistake(ns, n) ==
  \A f \in DOMAIN ns[n].children :
    LET child == ns[ns[n].children[f]]
    IN DOMAIN child.children # {} /\ \A t \in ParamType : child.param_childrens[t] = 0

Mergeable(ns, n) == \A f \in DOMAIN ns[n].children : IsSimpleNode(ns[ns[n].children[f]])

RECURSIVE optimizeNode(_, _)
optimizeNode(ns, n) ==
  LET each(m, done) == optimizeNode(done, m)
      params == FoldSet(each, ns, {ns[n].param_childrens[t] : t \in ParamType} \ {0})
      kids == ns[n].children
  IN IF DOMAIN kids = {} THEN params
     ELSE IF Mergeable(params, n)
     THEN optimizeNode([params EXCEPT ![n].children = Merged(params, n)], n)
     ELSE FoldSet(each, params, {kids[f] : f \in DOMAIN kids})

Digits == {"0", "1", "2", "3", "4", "5", "6", "7", "8", "9"}
\* The first position at or after pos that does not hold one of S.
Past(url, pos, S) == Min({i \in pos .. Len(url) + 1 : i > Len(url) \/ url[i] \notin S})
Signed(url, pos, S) == IF url[pos] \in S THEN pos + 1 ELSE pos

\* strtoll(), strtoull() and strtod(): the end of the number, or pos when there
\* is none or it is out of range.
IntegerEnd(url, pos, signs, digits) ==
  LET from == Signed(url, pos, signs)
      to == Past(url, from, Digits)
  IN IF to = from \/ to - from > digits THEN pos ELSE to
DoubleEnd(url, pos) ==
  LET from == Signed(url, pos, {"+", "-"})
      dot == Past(url, from, Digits)
      to == IF dot <= Len(url) /\ url[dot] = "." THEN Past(url, dot + 1, Digits) ELSE dot
  IN IF \E i \in from .. to - 1 : url[i] \in Digits THEN to ELSE pos

\* The end of what a parameter takes of the url from pos on.
End(t, url, pos) ==
  CASE t = "INT" -> IntegerEnd(url, pos, {"+", "-"}, MaxIntDigits)
    [] t = "UINT" -> IntegerEnd(url, pos, {"+"}, MaxUintDigits)
    [] t = "DOUBLE" -> DoubleEnd(url, pos)
    [] t = "STRING" -> Min({i \in pos .. Len(url) + 1 : i > Len(url) \/ url[i] = "/"})
    [] t = "PATH" -> Len(url) + 1

\* routing_params: a vector per type; a path is a string.
VectorOf(t) == IF t = "PATH" THEN "STRING" ELSE t
empty == [t \in ParamType \ {"PATH"} |-> <<>>]
NotFound == [rule |-> 0, params |-> empty]

\* update_found(): the lowest index wins; 0 is no rule.
update_found(rets) ==
  LET found == {r \in rets : r.rule # 0}
  IN IF found = {} THEN NotFound ELSE CHOOSE r \in found : \A q \in found : r.rule <= q.rule

RECURSIVE find(_, _, _, _, _)
find(ns, url, n, pos, params) ==
  LET node == ns[n]
      takes == {t \in ParamType : node.param_childrens[t] # 0 /\ End(t, url, pos) # pos}
      follows == {f \in DOMAIN node.children : IsPrefix(f, SubSeq(url, pos, Len(url)))}
      with(t) == [params EXCEPT ![VectorOf(t)] = Append(@, SubSeq(url, pos, End(t, url, pos) - 1))]
  IN IF pos > Len(url) THEN [rule |-> node.rule_index, params |-> params]
     ELSE update_found(
            {find(ns, url, node.param_childrens[t], End(t, url, pos), with(t)) : t \in takes}
            \cup {find(ns, url, node.children[f], pos + Len(f), params) : f \in follows})

Find(url) == find(nodes, url, 0, 1, empty)

(***************************************************************************)
(* The types of a handler.                                                 *)
(***************************************************************************)
TagValue == [t \in ParamType |-> CASE t = "INT" -> 1 [] t = "UINT" -> 2 [] t = "DOUBLE" -> 3
                                   [] t = "STRING" -> 4 [] t = "PATH" -> 5]
TypesOf(url) ==
  LET tags == SelectSeq(url, LAMBDA p : p \in Tags)
  IN [i \in DOMAIN tags |-> paramTraits[tags[i]]]

\* get_parameter_tag_runtime() and compute_parameter_tag_from_args_list.
parameter_tag(types) == FoldRight(LAMBDA t, rest : rest * 6 + TagValue[t], types, 0)

\* "int sb = a%6": the digits that are compared are both a's.
RECURSIVE is_parameter_tag_compatible(_, _)
is_parameter_tag_compatible(a, b) ==
  IF a = 0 THEN b = 0
  ELSE IF b = 0 THEN a = 0
  ELSE LET sa == IF a % 6 = 5 THEN 4 ELSE a % 6
           sb == IF a % 6 = 5 THEN 4 ELSE a % 6
       IN sa = sb /\ is_parameter_tag_compatible(a \div 6, b \div 6)

\* Mistake: every argument takes the first value of its type.
PositionMistake(args, i) == 1

\* The position of argument i among the arguments of its type (NInt, NUint, ...).
Position(args, i) == Cardinality({j \in 1 .. i : args[j] = args[i]})

\* call<>: an argument beyond its vector is undefined.
call(args, params) ==
  [i \in DOMAIN args |-> IF Position(args, i) \in DOMAIN params[args[i]]
                         THEN params[args[i]][Position(args, i)] ELSE <<"undefined">>]

(***************************************************************************)
(* Router.                                                                 *)
(***************************************************************************)
NoAnswer == [code |-> 0, url |-> <<>>, rule |-> 0, values |-> <<>>]

Init ==
  /\ rules = [i \in {0, 1} |-> NoRule]
  /\ nodes = Trie
  /\ phase = "adding"
  /\ res = NoAnswer

\* internal_add_rule_object(): the rule and, for a directory, its redirection.
internal_add_rule_object(ns, url, index) ==
  LET first == add(ns, url, index)
  IN IF first.end # "adding" \/ Len(url) <= 1 \/ Last(url) # "/" THEN first
     ELSE add(first.nodes, Front(url), RULE_SPECIAL_REDIRECT_SLASH)

\* app.route_dynamic(url).methods(ms)(f), or without f, or .websocket().
route(url, ms, kind, args) ==
  LET index == Cardinality(DOMAIN rules)
      added == internal_add_rule_object(nodes, url, index)
      compatible == is_parameter_tag_compatible(parameter_tag(TypesOf(url)), parameter_tag(args))
  IN /\ phase = "adding" /\ index < MaxRules + 2
     /\ nodes' = added.nodes
     /\ phase' = IF added.end = "adding" /\ kind = "handler" /\ ~compatible THEN "threw" ELSE added.end
     /\ rules' = Extended(rules, index, [url |-> url, methods |-> ms, kind |-> kind, args |-> args])
     /\ UNCHANGED res

\* A websocket rule replaces the rule it was made from, with its own methods.
upgrade(rule) == IF rule.kind = "websocket" THEN [rule EXCEPT !.methods = {"GET"}] ELSE rule

validate ==
  /\ phase = "adding"
  /\ IF IsSimpleNode(nodes[0])
     THEN /\ nodes' = optimizeNode(nodes, 0)
          /\ rules' = [i \in DOMAIN rules |-> upgrade(rules[i])]
          /\ phase' = IF \E i \in DOMAIN rules : rules[i].kind = "none" THEN "threw" ELSE "serving"
     ELSE phase' = "threw" /\ UNCHANGED <<nodes, rules>>
  /\ UNCHANGED res

Answer(code, url, rule, values) ==
  res' = [code |-> code, url |-> url, rule |-> rule, values |-> values]

\* What handle() and handle_upgrade() share.
Unmatched(url, method, rule) ==
  \/ rule = 0 /\ Answer(404, url, rule, <<>>)
  \/ rule = RULE_SPECIAL_REDIRECT_SLASH /\ Answer(301, Append(url, "/"), rule, <<>>)
  \/ rule > 1 /\ method \notin rules[rule].methods /\ Answer(404, url, rule, <<>>)

Matched(method, rule) == rule > 1 /\ method \in rules[rule].methods

handle(url, method, throws) ==
  LET found == Find(url)
  IN /\ phase = "serving"
     /\ \/ Unmatched(url, method, found.rule)
        \/ /\ Matched(method, found.rule)
           /\ rules[found.rule].kind = "handler"
           /\ Answer(IF throws THEN 500 ELSE 200, url, found.rule,
                     call(rules[found.rule].args, found.params))
        \/ /\ Matched(method, found.rule)
           /\ rules[found.rule].kind = "websocket"
           /\ Answer(404, url, found.rule, <<>>)
     /\ UNCHANGED <<rules, nodes, phase>>

handle_upgrade(url, method) ==
  LET found == Find(url)
  IN /\ phase = "serving"
     /\ \/ Unmatched(url, method, found.rule)
        \/ /\ Matched(method, found.rule)
           /\ rules[found.rule].kind = "websocket"
           /\ Answer(101, url, found.rule, <<>>)
        \/ /\ Matched(method, found.rule)
           /\ rules[found.rule].kind = "handler"
           /\ Answer(404, url, found.rule, <<>>)
     /\ UNCHANGED <<rules, nodes, phase>>

Next ==
  \/ \E url \in Rules, ms \in {{"GET"}, {"POST"}} :
       \/ \E args \in Signatures : route(url, ms, "handler", args)
       \/ \E kind \in {"none", "websocket"} : route(url, ms, kind, <<>>)
  \/ validate
  \/ /\ res = NoAnswer  \* one request is enough: none changes the router
     /\ \E url \in Urls :
          \/ \E throws \in BOOLEAN : handle(url, "GET", throws)
          \/ handle_upgrade(url, "GET")

Spec == Init /\ [][Next]_vars

(***************************************************************************)
(* Properties.                                                             *)
(***************************************************************************)
\* What a rule takes of a url, left to right, each parameter as much as it can.
RECURSIVE Consume(_, _, _, _)
Consume(pattern, url, pos, params) ==
  IF pattern = <<>> \/ pos > Len(url)
  THEN [ok |-> pattern = <<>> /\ pos > Len(url), params |-> params]
  ELSE LET p == Head(pattern)
           t == paramTraits[p]
       IN IF p \notin Tags
          THEN IF url[pos] = p THEN Consume(Tail(pattern), url, pos + 1, params)
               ELSE [ok |-> FALSE, params |-> params]
          ELSE IF End(t, url, pos) = pos THEN [ok |-> FALSE, params |-> params]
          ELSE Consume(Tail(pattern), url, End(t, url, pos),
                       [params EXCEPT ![VectorOf(t)] = Append(@, SubSeq(url, pos, End(t, url, pos) - 1))])

Accepts(pattern, url) == Consume(pattern, url, 1, empty).ok
IsDirectory(pattern) == Len(pattern) > 1 /\ Last(pattern) = "/"
Added == DOMAIN rules \ {0, 1}

\* Optimized or not, the trie finds of the rules that accept a url the one
\* that was added first, with its parameters, and a redirection before any.  A
\* redirected request then arrives at a rule, unless a directory's <path>
\* takes the slash itself.
Settled == phase \in {"adding", "serving"} /\ res = NoAnswer
FirstRuleIsFound ==
  Settled => \A url \in Urls :
    LET accepting == {i \in Added : Accepts(rules[i].url, url)}
        redirected == \E i \in Added : IsDirectory(rules[i].url) /\ Accepts(Front(rules[i].url), url)
        found == Find(url)
        greedy == \E i \in Added : Len(rules[i].url) > 1 /\ Last(Front(rules[i].url)) = "<path>"
    IN IF redirected
       THEN /\ found.rule = RULE_SPECIAL_REDIRECT_SLASH
            /\ greedy \/ Find(Append(url, "/")).rule > 1
       ELSE IF accepting = {} THEN found.rule = 0
       ELSE /\ found.rule = Min(accepting)
            /\ found.params = Consume(rules[found.rule].url, url, 1, empty).params

\* A handler has as many arguments as its url has parameters.  If they have
\* the parameters' types too, which is_parameter_tag_compatible() does not
\* compare, it is called with what the url holds for them, in its order.
VectorTypes(types) == [i \in DOMAIN types |-> VectorOf(types[i])]
RECURSIVE Captured(_, _, _)
Captured(pattern, url, pos) ==
  IF pattern = <<>> THEN <<>>
  ELSE IF Head(pattern) \notin Tags THEN Captured(Tail(pattern), url, pos + 1)
  ELSE LET to == End(paramTraits[Head(pattern)], url, pos)
       IN <<SubSeq(url, pos, to - 1)>> \o Captured(Tail(pattern), url, to)
HandlersGetTheUrlsValues ==
  res.code \in {200, 500} =>
    LET rule == rules[res.rule]
    IN /\ Len(rule.args) = Len(TypesOf(rule.url))
       /\ rule.args = VectorTypes(TypesOf(rule.url)) => res.values = Captured(rule.url, res.url, 1)
=============================================================================
