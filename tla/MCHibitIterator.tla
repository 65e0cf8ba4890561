-------------------------- MODULE MCHibitIterator --------------------------
(* Model checking HibitIterator: the queries of the runs, over a tree A and,
   where there is one, a tree B, as ecs_compile_query makes them.  A clause's
   changed mask is set by hand afterwards. *)
EXTENDS HibitIterator, TLC

CONSTANTS A, B

Compiler == INSTANCE QueryCompiler WITH
  Name <- {A, B}, MaxNodes <- 64, MaxTerms <- 8, MaxDnf <- 64, MaxClauses <- 4

Clauses(text, Changed(_)) ==
  {[include |-> cl.include, exclude |-> cl.exclude, changed |-> Changed(cl)] :
     cl \in Compiler!Resolved(Compiler!CompileQuery(text))}

NoChange(cl) == {}
AChanged(cl) == {A}
AChangedIfAlone(cl) == IF A \in cl.include THEN {} ELSE {A}

(* One clause that names one tree, whose write_mask is the tree. *)
OneTree == {[clauses |-> Clauses(<<A>>, NoChange), write |-> {A}],
            [clauses |-> Clauses(<<A>>, AChanged), write |-> {A}]}

(* With and without, read only or with A written; and a tag, with A or changed. *)
TwoTrees ==
  [clauses : {Clauses(<<A, "&", "!", B>>, NoChange)}, write : {{}, {A}}] \cup
  {[clauses |-> Clauses(<<B, "&", "(", A, "|", B, ")">>, AChangedIfAlone), write |-> {A}]}

(* Nothing orders the slots of a block: the lowest position is taken first at
   the two levels above only. *)
Alike == Permutations(Fan1)

(* Bound: the iteration that first misreads a slot is followed to its end, and
   what its caller may do with the trees then is not explored. *)
MisreadEnds == pc = "idle" => misread = {}
=============================================================================
