----------------------------- MODULE QueryText -----------------------------
(***************************************************************************)
(* A caller writes the text of a query, token by token, and compiles it.   *)
(***************************************************************************)
EXTENDS QueryCompiler, FiniteSets

CONSTANT MaxTokens  \* bound on the length of a text

VARIABLES text, query,
          compiled  \* has the text been compiled?

vars == <<text, query, compiled>>

Init == text = <<>> /\ query = NoQuery /\ compiled = FALSE

(* Where a reader expects a name, and how many parentheses are open. *)
Operand(s) == s = <<>> \/ Last(s) \in {"&", "|", "!", "("}
Open(s) == Cardinality({x \in DOMAIN s : s[x] = "("}) -
           Cardinality({x \in DOMAIN s : s[x] = ")"})

Continues(s, tok) ==
  IF Operand(s) THEN tok \in Name \cup {"!", "("}
                ELSE tok \in {"&", "|"} \cup (IF Open(s) > 0 THEN {")"} ELSE {})

(* Bound: nothing is written behind the first token that is out of place. *)
WriteToken(tok) ==
  /\ ~ compiled /\ Len(text) < MaxTokens
  /\ text # <<>> => Continues(Front(text), Last(text))
  /\ text' = Append(text, tok)
  /\ UNCHANGED <<query, compiled>>

Compile ==
  /\ ~ compiled
  /\ query' = CompileQuery(text) /\ compiled' = TRUE
  /\ UNCHANGED text

Next == Compile \/ \E tok \in Token : WriteToken(tok)

Spec == Init /\ [][Next]_vars

-----------------------------------------------------------------------------
(* What a text means.  A reading of a part of it has the sets of components
   that satisfy it (worlds), the ways to make it TRUE or FALSE, each the choice
   of some of its names, by position, with a sign that no two of them with the
   same name dispute (ways), and the most ways that it or a part of it has as
   the choice is made from within (most). *)
NameAt(x) == [worlds |-> {w \in SUBSET Name : text[x] \in w},
              ways |-> [b \in BOOLEAN |-> {{<<x, b>>}}],
              most |-> [b \in BOOLEAN |-> 1]]

Negated(r) == [worlds |-> SUBSET Name \ r.worlds,
               ways |-> [b \in BOOLEAN |-> r.ways[~ b]],
               most |-> [b \in BOOLEAN |-> r.most[~ b]]]

Both(r, s) ==
  LET Agree(way) == \A p, q \in way : text[p[1]] = text[q[1]] => p[2] = q[2]
      all == {x \cup y : x \in r.ways[TRUE], y \in s.ways[TRUE]}
      ways == [b \in BOOLEAN |-> IF b THEN {way \in all : Agree(way)}
                                      ELSE r.ways[FALSE] \cup s.ways[FALSE]]
  IN [worlds |-> r.worlds \cap s.worlds, ways |-> ways,
      most |-> [b \in BOOLEAN |-> Max({r.most[b], s.most[b], Cardinality(ways[b])})]]

Either(r, s) == Negated(Both(Negated(r), Negated(s)))

(* The readings of the text from l to r: the grammar at the head of the source
   as it stands, where a text of a kind is either of the next kind, or made of
   two around some operator. *)
RECURSIVE OrText(_, _), AndText(_, _), UnaryText(_, _)

Around(l, r, op, Left(_, _), Right(_, _), Join(_, _)) ==
  UNION {{Join(a, b) : a \in Left(l, x - 1), b \in Right(x + 1, r)} :
           x \in {y \in l..r : text[y] = op}}

UnaryText(l, r) ==
  CASE l > r -> {}
    [] l <= r /\ text[l] = "!" -> {Negated(a) : a \in UnaryText(l + 1, r)}
    [] l = r /\ text[l] \in Name -> {NameAt(l)}
    [] r > l + 1 /\ text[l] = "(" /\ text[r] = ")" -> OrText(l + 1, r - 1)
    [] OTHER -> {}

AndText(l, r) == UnaryText(l, r) \cup Around(l, r, "&", AndText, UnaryText, Both)

OrText(l, r) == AndText(l, r) \cup Around(l, r, "|", OrText, AndText, Either)

Readings == OrText(1, Len(text))

Accepts(q, w) ==
  \E cl \in Resolved(q) : cl.include \subseteq w /\ cl.exclude \cap w = {}

(* A query that was compiled matches the entities its text means: negation
   over parentheses, precedence, distribution and the clauses dropped as
   contradictory included; and a text means one thing. *)
CompiledMeans ==
  query # NoQuery =>
    {r.worlds : r \in Readings} = {{w \in SUBSET Name : Accepts(query, w)}}

(* A text is refused exactly when there is a reason: it is no expression, it
   can match nothing, it names no tree, or it is over a limit.  The limit on
   clauses is for the ways of the whole text; those of a part of it may be as
   many as the normal form holds. *)
RefusedForCause ==
  LET names == {text[x] : x \in {y \in DOMAIN text : text[y] \in Name}}
      nodes == {x \in DOMAIN text : text[x] \notin {"(", ")"}}
      Fits(r) == /\ r.most[TRUE] <= MaxDnf
                 /\ Cardinality(r.ways[TRUE]) \in 1..MaxClauses
  IN compiled =>
       (query = NoQuery <=>
          \/ ~ \E r \in Readings : Fits(r)
          \/ ~ names \subseteq Component
          \/ Cardinality(names) > MaxTerms
          \/ Cardinality(nodes) > MaxNodes)
=============================================================================
