------------------------------- MODULE Datalog -------------------------------
(***************************************************************************)
(* Atoms, clauses, matching and instantiation: the pure part of the        *)
(* evaluator (include/etb/ast.h, src/engine/unify.c, the helpers at the    *)
(* top of src/engine/eval.c, and the checks of src/engine/strata.c).       *)
(*                                                                         *)
(* Strings, integers, symbols and null are all members of Constants: no    *)
(* property tells them apart. A binding set is a function whose domain is  *)
(* the set of variables bound so far.                                      *)
(***************************************************************************)
EXTENDS Delegation, Sequences

CONSTANTS
  Constants,     \* ground terms
  Variables,     \* variable names
  Capabilities   \* predicates declared  capability p/n [path=...]

ASSUME DatalogAssumption ==
  /\ Capabilities \subseteq Predicates
  /\ Constants \cap Variables = {}

-----------------------------------------------------------------------------
(* Atoms                                                                   *)

Tag == [kind : {"none", "expires", "anchored"}, at : Nat]
NoTag == [kind |-> "none", at |-> 0]

PredicateAtom(terms) ==
  [kind : {"pred"}, pred : Predicates, args : Seq(terms), tag : Tag]
SaysAtom(terms) ==
  [kind : {"says"}, who : Principals, pred : Predicates, args : Seq(terms),
   tag : Tag]
SpeaksForAtom ==
  [kind : {"speaks"}, who : Principals, to : Principals, scope : Scopes,
   expires : Nat, depth : Nat, tag : Tag]

Atom(terms) == PredicateAtom(terms) \cup SaysAtom(terms) \cup SpeaksForAtom
GroundAtom == Atom(Constants)

Literal == [neg : BOOLEAN, atom : Atom(Constants \cup Variables)]
Clause == [head : Atom(Constants \cup Variables), body : Seq(Literal)]

Args(atom) == IF atom.kind = "speaks" THEN <<>> ELSE atom.args
ArgSet(atom) == {Args(atom)[i] : i \in DOMAIN Args(atom)}
VariablesOf(atom) == ArgSet(atom) \cap Variables

(* etb_atom_is_ground: a speaks_for atom has no terms and is always ground. *)
IsGround(atom) == VariablesOf(atom) = {}

Positive(clause) == {i \in DOMAIN clause.body : ~ clause.body[i].neg}
IsCapability(literal) ==
  literal.atom.kind = "pred" /\ literal.atom.pred \in Capabilities

-----------------------------------------------------------------------------
(* Bindings                                                                *)

Env == UNION {[bound -> Constants] : bound \in SUBSET Variables}
EmptyEnv == [v \in {} |-> v]

(* The same kind of atom about the same relation. ignoreSpeaker is set by  *)
(* the says-branch, which has already compared the speakers itself.        *)
SameRelation(pattern, fact, ignoreSpeaker) ==
  /\ pattern.kind = fact.kind
  /\ pattern.kind = "speaks" => pattern.who = fact.who /\ pattern.to = fact.to
  /\ pattern.kind = "says" => ignoreSpeaker \/ pattern.who = fact.who
  /\ pattern.kind # "speaks" => /\ pattern.pred = fact.pred
                                /\ Len(pattern.args) = Len(fact.args)

(* etb_unify_atom against a ground fact: a constant must be equal, a bound *)
(* variable must hold the fact's term, and two occurrences of an unbound   *)
(* variable must meet the same term.                                       *)
Unifies(env, pattern, fact, ignoreSpeaker) ==
  /\ SameRelation(pattern, fact, ignoreSpeaker)
  /\ \A i \in DOMAIN Args(pattern) :
       LET term == Args(pattern)[i] IN
       IF term \notin Variables THEN term = Args(fact)[i]
       ELSE IF term \in DOMAIN env THEN env[term] = Args(fact)[i]
       ELSE \A j \in DOMAIN Args(pattern) :
              Args(pattern)[j] = term => Args(fact)[j] = Args(fact)[i]

(* The bindings after a successful etb_unify_atom.                         *)
Bind(env, pattern, fact) ==
  [v \in DOMAIN env \cup VariablesOf(pattern) |->
     IF v \in DOMAIN env THEN env[v]
     ELSE Args(fact)[CHOOSE i \in DOMAIN Args(pattern) : Args(pattern)[i] = v]]

(* etb_instantiate_atom: bound variables are replaced, all else is copied, *)
(* the temporal tag and the delegation attributes included.                *)
Instantiate(pattern, env) ==
  IF pattern.kind = "speaks" THEN pattern
  ELSE [pattern EXCEPT !.args =
          [i \in DOMAIN pattern.args |->
             IF pattern.args[i] \in DOMAIN env THEN env[pattern.args[i]]
             ELSE pattern.args[i]]]

-----------------------------------------------------------------------------
(* Matching a literal against the stored atoms                             *)

(* etb_fact_valid_now and etb_literal_temporal_matches.                    *)
ValidNow(atom, now) == atom.tag.kind = "expires" => now <= atom.tag.at
TagMatches(pattern, atom) == pattern.tag.kind = "none" \/ pattern.tag = atom.tag

Links(atoms) == {atom \in atoms : atom.kind = "speaks"}

(* The speaker test of the says-branch: a statement counts as who's when   *)
(* who made it or when the stored delegations let its speaker stand for    *)
(* who.                                                                    *)
SpeaksAs(fact, who, pred, atoms, now) ==
  fact.who = who \/ Allows(Links(atoms), fact.who, who, pred, now)

(* Slip: expired atoms matched like any other.                             *)
MatchesExpired(env, pattern, atoms, now) ==
  {fact \in atoms :
     /\ TagMatches(pattern, fact)
     /\ Unifies(env, pattern, fact, TRUE)
     /\ pattern.kind = "says" =>
          SpeaksAs(fact, pattern.who, fact.pred, atoms, now)}

(* The stored atoms a positive literal matches under env.                  *)
Matches(env, pattern, atoms, now) ==
  {fact \in atoms :
     /\ ValidNow(fact, now)
     /\ TagMatches(pattern, fact)
     /\ Unifies(env, pattern, fact, TRUE)
     /\ pattern.kind = "says" =>
          SpeaksAs(fact, pattern.who, fact.pred, atoms, now)}

(* The negation branch: some stored, valid atom of the relation matches.   *)
(* Validation admits only negated predicate atoms.                         *)
Refuted(env, pattern, atoms, now) ==
  \E fact \in atoms :
    /\ ValidNow(fact, now)
    /\ TagMatches(pattern, fact)
    /\ Unifies(env, pattern, fact, FALSE)

-----------------------------------------------------------------------------
(* Validation                                                              *)

(* etb_negated_literal_allowed.                                            *)
NegationAllowed(literal) ==
  literal.neg => literal.atom.kind = "pred" /\ ~ IsCapability(literal)

(* Every variable of the head and of a negated literal occurs in a         *)
(* positive literal, before or after it.                                   *)
RangeRestricted(clause) ==
  LET bound == UNION {VariablesOf(clause.body[i].atom) : i \in Positive(clause)}
  IN  /\ VariablesOf(clause.head) \subseteq bound
      /\ \A i \in DOMAIN clause.body : VariablesOf(clause.body[i].atom) \subseteq bound

(* etb_program_validate. It also computes strata, which its only caller    *)
(* frees unread, and which never make it reject a program.                 *)
Validates(program) ==
  \A c \in DOMAIN program :
    /\ \A i \in DOMAIN program[c].body : NegationAllowed(program[c].body[i])
    /\ RangeRestricted(program[c])

-----------------------------------------------------------------------------
(* What one application of the clauses to a set of atoms yields. This is   *)
(* the reference the evaluator is held to, not code: every clause under    *)
(* every assignment to its variables.                                      *)
ClauseVariables(cl) == UNION {VariablesOf(cl.body[i].atom) : i \in Positive(cl)}

(* A capability literal holds of any tuple an adapter may reply with.      *)
Holds(env, literal, atoms, tuples, now) ==
  IF IsCapability(literal) THEN Instantiate(literal.atom, env).args \in tuples
  ELSE IF literal.neg THEN ~ Refuted(env, literal.atom, atoms, now)
  ELSE Matches(env, literal.atom, atoms, now) # {}

Consequences(program, atoms, tuples, now) ==
  UNION {{Instantiate(program[c].head, env) :
            env \in {e \in [ClauseVariables(program[c]) -> Constants] :
                       \A i \in DOMAIN program[c].body :
                         Holds(e, program[c].body[i], atoms, tuples, now)}} :
           c \in DOMAIN program}
=============================================================================
