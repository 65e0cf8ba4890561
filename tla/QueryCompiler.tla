--------------------------- MODULE QueryCompiler ---------------------------
(***************************************************************************)
(* From the text of a query to its clauses (ecs_compile_query): a          *)
(* recursive descent parser over tokens, the disjunctive normal form with  *)
(* negations pushed to the names, and the limits of each stage.            *)
(*                                                                         *)
(* The lexer is taken as read: a text is a sequence of tokens, a name is   *)
(* one token.  A parser p carries what it has left to read (p.rest), the   *)
(* names met so far, the number of nodes taken, and the node it returns.   *)
(***************************************************************************)
EXTENDS Naturals, SequencesExt

CONSTANTS Name,        \* identifiers
          Component,   \* those that name a tree of the world
          MaxNodes,    \* ECS_QUERY_MAX_NODES
          MaxTerms,    \* ECS_QUERY_MAX_TERMS
          MaxDnf,      \* ECS_QUERY_MAX_DNF
          MaxClauses   \* ECS_QUERY_MAX_CLAUSES

Symbol == {"&", "|", "!", "(", ")"}

ASSUME NameAssumption == Component \subseteq Name /\ Name \cap Symbol = {}

Token == Name \cup Symbol

NoQuery == [trees |-> <<>>, clauses |-> <<>>]

-----------------------------------------------------------------------------
(* The parser *)

Started(text) ==
  [rest |-> text, names |-> <<>>, nodes |-> 0, err |-> FALSE, node |-> [kind |-> "none"]]

Sees(p, tok) == p.rest # <<>> /\ Head(p.rest) = tok
SeesName(p) == p.rest # <<>> /\ Head(p.rest) \in Name
Advanced(p) == [p EXCEPT !.rest = Tail(@)]
Failed(p) == [p EXCEPT !.err = TRUE]
Then(p, Continue(_)) == IF p.err THEN p ELSE Continue(p)

(* alloc_node, and what the caller fills in. *)
Alloc(p, node) ==
  IF p.nodes >= MaxNodes THEN Failed(p)
                         ELSE [p EXCEPT !.nodes = @ + 1, !.node = node]

(* intern_atom: each name has one index, by first appearance. *)
Interned(p, name) ==
  IF Contains(p.names, name) THEN p
  ELSE IF Len(p.names) >= MaxTerms THEN Failed(p)
  ELSE [p EXCEPT !.names = Append(@, name)]

RECURSIVE ParseUnary(_), Chain(_, _)

ParseAnd(p) == Chain(ParseUnary(p), "&")
ParseOr(p) == Chain(ParseAnd(p), "|")

ParseAtom(p) ==
  LET Close(q) == IF Sees(q, ")") THEN Advanced(q) ELSE Failed(q)
      Leaf(q) == Alloc(q, [kind |-> "atom",
                           idx |-> CHOOSE x \in DOMAIN q.names : q.names[x] = Head(p.rest)])
  IN CASE Sees(p, "(") -> Then(ParseOr(Advanced(p)), Close)
       [] SeesName(p) -> Then(Advanced(Interned(p, Head(p.rest))), Leaf)
       [] OTHER -> Failed(p)

ParseUnary(p) ==
  LET Not(q) == Alloc(q, [kind |-> "!", a |-> q.node])
  IN IF Sees(p, "!") THEN Then(ParseUnary(Advanced(p)), Not) ELSE ParseAtom(p)

(* The loops of parse_and and parse_or, from the left. *)
Chain(p, op) ==
  LET right == IF op = "&" THEN ParseUnary(Advanced(p)) ELSE ParseAnd(Advanced(p))
      Join(q) == Alloc(q, [kind |-> op, a |-> p.node, b |-> q.node])
  IN IF p.err \/ ~ Sees(p, op) THEN p ELSE Chain(Then(right, Join), op)

-----------------------------------------------------------------------------
(* The normal form: sequences of [pos, neg], the indices of names.  One of
   more than MaxDnf clauses stands for the failure of the function. *)

(* Mutant: the limit on the clauses of the query, for those of a part of it. *)
TooMany_ForQuery(A, B) == Len(A) > MaxClauses \/ Len(B) > MaxClauses

TooMany(A, B) == Len(A) > MaxDnf \/ Len(B) > MaxDnf

DnfOr(A, B) == A \o B

(* Mutant: the clauses are paired off, not distributed. *)
DnfAnd_PairedOff(A, B) ==
  IF TooMany(A, B) THEN A \o B
  ELSE [x \in 1..(IF Len(A) < Len(B) THEN Len(A) ELSE Len(B)) |->
          [pos |-> A[x].pos \cup B[x].pos, neg |-> A[x].neg \cup B[x].neg]]

DnfAnd(A, B) ==
  LET Both(x) == [y \in DOMAIN B |-> [pos |-> A[x].pos \cup B[y].pos,
                                      neg |-> A[x].neg \cup B[y].neg]]
      Consistent(cl) == cl.pos \cap cl.neg = {}
  IN IF TooMany(A, B) THEN A \o B
     ELSE FlattenSeq([x \in DOMAIN A |-> SelectSeq(Both(x), Consistent)])

RECURSIVE Dnf(_, _)
Dnf(n, neg) ==
  CASE n.kind = "atom" -> <<[pos |-> IF neg THEN {} ELSE {n.idx},
                             neg |-> IF neg THEN {n.idx} ELSE {}]>>
    [] n.kind = "!" -> Dnf(n.a, ~ neg)
    [] (n.kind = "&") # neg /\ n.kind \in {"&", "|"} -> DnfAnd(Dnf(n.a, neg), Dnf(n.b, neg))
    [] OTHER -> DnfOr(Dnf(n.a, neg), Dnf(n.b, neg))

-----------------------------------------------------------------------------
(* The parser failed or stopped before the end, or a name has no tree (which
   the code asks last). *)
Refused(p) == p.err \/ p.rest # <<>> \/ Range(p.names) \ Component # {}

CompileQuery(text) ==
  LET p == ParseOr(Started(text))
      d == Dnf(p.node, FALSE)
  IN IF Refused(p) THEN NoQuery
     ELSE IF Len(d) = 0 \/ Len(d) > MaxDnf \/ Len(d) > MaxClauses THEN NoQuery
     ELSE [trees |-> p.names,
           clauses |-> [x \in DOMAIN d |-> [include |-> d[x].pos, exclude |-> d[x].neg]]]

(* The clauses with their trees in place of the indices. *)
Resolved(q) ==
  {[include |-> {q.trees[x] : x \in cl.include},
    exclude |-> {q.trees[x] : x \in cl.exclude}] : cl \in Range(q.clauses)}
=============================================================================
