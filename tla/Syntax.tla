-------------------------------- MODULE Syntax --------------------------------
(***************************************************************************)
(* Programs and atoms as text: the scanner and the recursive descent parser *)
(* (src/core/parser.c), the canonical text of an atom and its relation key  *)
(* (src/core/canon.c).                                                      *)
(*                                                                          *)
(* A text is a sequence of pieces: a word is one piece, every other piece   *)
(* stands for one character. The scanner is run over the whole text before  *)
(* the parser starts; the program scans one token ahead of its parser, and  *)
(* a text with an unreadable token is refused by both.                      *)
(*                                                                          *)
(* A parsing operator takes the tokens and the place of the next one and    *)
(* returns what it read with the place after it, or place 0 when it fails.  *)
(***************************************************************************)
EXTENDS Integers, Sequences, SequencesExt

CONSTANTS
  Names,      \* words that start with a small letter; the keywords are words
  Caps,       \* words that start with a capital
  Numerals,   \* the digits, in the order of their values
  IntMax,     \* the largest integer, where strtoll stops (INT64_MAX)
  DepthSize,  \* the number of delegation depths and timeouts (2^32)
  None        \* a NULL text

Keywords == {"says", "speaks_for", "at", "not", "capability", "null", "true",
             "scope", "expires", "depth", "path", "deterministic",
             "proof_admissible", "timeout_ms"}
Digits == ToSet(Numerals)
Base == Len(Numerals)
IdentPieces == Names \cup Keywords \cup Caps \cup Digits \cup {"_", ":", "-"}
Spaces == {" ", "nl"}
Marks == {"(", ")", "[", "]", ",", ".", "/", "=", "@"}

ASSUME SyntaxAssumption ==
  /\ IntMax \in Nat /\ Base > 1 /\ DepthSize \in Nat \ {0}
  /\ (Names \cup Caps \cup Keywords) \cap (Digits \cup Spaces \cup Marks) = {}

-----------------------------------------------------------------------------
(* The scanner. *)

Token(kind, text, value) == [kind |-> kind, text |-> text, value |-> value]

\* The first place from i on whose piece is not one of S.
Past(text, i, S) ==
  LET past[j \in i..(Len(text) + 1)] ==
        IF j <= Len(text) /\ text[j] \in S THEN past[j + 1] ELSE j
  IN past[i]

Min2(a, b) == IF a < b THEN a ELSE b

DigitValue(d) == (CHOOSE k \in 1..Base : Numerals[k] = d) - 1

ValueOf(digits) ==
  FoldLeft(LAMBDA v, d : Min2(IntMax, v * Base + DigitValue(d)), 0, digits)

StartsRule(text, i) == text[i] = ":" /\ i < Len(text) /\ text[i + 1] = "-"

Scan(text) ==
  LET all == {text[i] : i \in 1..Len(text)}
      scan[i \in 1..(Len(text) + 1)] ==
        IF i > Len(text) THEN <<>>
        ELSE LET p == text[i]
                 until(S) == Past(text, i, S)
                 word(S) == SubSeq(text, i, until(S) - 1)
                 quote == Past(text, i + 1, all \ {"quote"})
             IN CASE p \in Spaces -> scan[i + 1]
                  [] p = "#" -> scan[until(all \ {"nl"})]
                  [] p \in Marks -> <<Token(p, None, 0)>> \o scan[i + 1]
                  [] StartsRule(text, i) -> <<Token(":-", None, 0)>> \o scan[i + 2]
                  [] p = "quote" ->
                       IF quote > Len(text) THEN <<Token("bad", None, 0)>>
                       ELSE <<Token("string", SubSeq(text, i + 1, quote - 1), 0)>>
                              \o scan[quote + 1]
                  [] p \in Digits ->
                       <<Token("integer", word(Digits), ValueOf(word(Digits)))>>
                         \o scan[until(Digits)]
                  [] p \in IdentPieces \ Digits /\ ~StartsRule(text, i) ->
                       <<Token("ident", word(IdentPieces), 0)>> \o scan[until(IdentPieces)]
                  [] OTHER -> <<Token("bad", None, 0)>>
  IN scan[1]

-----------------------------------------------------------------------------
(* Terms, atoms and statements. *)

BlankAtom ==
  [kind |-> "predicate", principal |-> None, delegate |-> None,
   predicate |-> None, terms |-> <<>>, temporal |-> "none", value |-> 0,
   scope |-> None, expires |-> 0, depth |-> 0]

Term(kind, text, value) == [kind |-> kind, text |-> text, value |-> value]

Fail == [at |-> 0]
Read(at, val) == [at |-> at, val |-> val]

Kind(toks, i) == IF i > Len(toks) THEN "eof" ELSE toks[i].kind
Text(toks, i) == IF i > Len(toks) THEN None ELSE toks[i].text
IsWord(toks, i, w) == Kind(toks, i) = "ident" /\ Text(toks, i) = <<w>>

\* Go on with then(place, value) unless the reading failed. (The bound r makes
\* TLC evaluate the reading once.)
Then(read, then(_, _)) ==
  CHOOSE all \in {IF r.at = 0 THEN Fail ELSE then(r.at, r.val) : r \in {read}} : TRUE

\* Step over a mark.
Expect(toks, i, mark, val) ==
  IF Kind(toks, i) = mark THEN Read(i + 1, val) ELSE Fail

\* Items up to one of the marks in stop or to the first that no comma
\* follows: the list may be empty, and a comma may stand before the stop.
Items(toks, i, stop, item(_)) ==
  LET list[j \in 1..(Len(toks) + 1)] ==
        IF Kind(toks, j) \in stop THEN Read(j, <<>>)
        ELSE Then(item(j), LAMBDA k, val :
               IF Kind(toks, k) # "," THEN Read(k, <<val>>)
               ELSE Then(list[k + 1], LAMBDA at, rest : Read(at, <<val>> \o rest)))
  IN list[i]

TermOf(token) ==
  CASE token.kind = "integer" -> Term("integer", <<>>, token.value)
    [] token.kind = "string" -> Term("string", token.text, 0)
    [] token.kind = "ident" ->
         IF token.text = <<"null">> THEN Term("null", <<>>, 0)
         ELSE IF Head(token.text) \in Caps \cup {"_"}
              THEN Term("variable", token.text, 0)
              ELSE Term("symbol", token.text, 0)

ParseTerm(toks, i) ==
  IF Kind(toks, i) \in {"integer", "string", "ident"}
  THEN Read(i + 1, TermOf(toks[i]))
  ELSE Fail

ParseTerms(toks, i, atom) ==
  IF Kind(toks, i) # "(" THEN Read(i, atom)
  ELSE Then(Items(toks, i + 1, {")"}, LAMBDA j : ParseTerm(toks, j)),
         LAMBDA j, terms : Expect(toks, j, ")", [atom EXCEPT !.terms = terms]))

\* The predicate of a says atom is the text of whatever token comes next; at
\* a mark and at the end of the text it is NULL.
ParsePredicateAtom(toks, i, principal) ==
  ParseTerms(toks, Min2(i, Len(toks)) + 1,
    [BlankAtom EXCEPT !.kind = "says", !.principal = principal,
                      !.predicate = Text(toks, i)])

ParseAttributes(toks, i) ==
  IF Kind(toks, i) # "[" THEN Read(i, <<>>)
  ELSE Then(Items(toks, i + 1, {"]"}, LAMBDA j :
              IF /\ Kind(toks, j) = "ident" /\ Kind(toks, j + 1) = "="
                 /\ Kind(toks, j + 2) # "eof"
              THEN Read(j + 3, [key |-> Text(toks, j), token |-> toks[j + 2]])
              ELSE Fail),
         LAMBDA j, attributes : Expect(toks, j, "]", attributes))

\* The value of the last attribute with this key and a value of such a kind.
AttributeOf(attributes, key, kinds, default, value(_)) ==
  LET at == {k \in 1..Len(attributes) : /\ attributes[k].key = <<key>>
                                        /\ attributes[k].token.kind \in kinds}
  IN IF at = {} THEN default
     ELSE value(attributes[CHOOSE k \in at : \A l \in at : l <= k].token)

Delegated(atom, attributes) ==
  [atom EXCEPT
    !.scope = AttributeOf(attributes, "scope", {"ident", "string"}, None,
                LAMBDA t : t.text),
    !.expires = AttributeOf(attributes, "expires", {"integer"}, 0,
                  LAMBDA t : t.value),
    !.depth = AttributeOf(attributes, "depth", {"integer"}, 0,
                LAMBDA t : t.value % DepthSize)]

ParseAtomCore(toks, i) ==
  IF Kind(toks, i) # "ident" THEN Fail
  ELSE IF IsWord(toks, i + 1, "says")
  THEN ParsePredicateAtom(toks, i + 2, Text(toks, i))
  ELSE IF IsWord(toks, i + 1, "speaks_for")
  THEN IF Kind(toks, i + 2) # "ident" THEN Fail
       ELSE Then(ParseAttributes(toks, i + 3), LAMBDA j, attributes :
              Read(j, Delegated(
                [BlankAtom EXCEPT !.kind = "speaks_for",
                   !.principal = Text(toks, i), !.delegate = Text(toks, i + 2)],
                attributes)))
  ELSE ParseTerms(toks, i + 1, [BlankAtom EXCEPT !.predicate = Text(toks, i)])

ParseAtom(toks, i) ==
  Then(ParseAtomCore(toks, i), LAMBDA j, atom :
    LET timed(kind) ==
          IF Kind(toks, j + 1) # "integer" THEN Fail
          ELSE Read(j + 2, [atom EXCEPT !.temporal = kind,
                                        !.value = toks[j + 1].value])
    IN CASE Kind(toks, j) = "@" -> timed("expires")
         [] IsWord(toks, j, "at") -> timed("anchored")
         [] OTHER -> Read(j, atom))

\* Slip: the sign is read over and dropped.
ParseLiteralUnsigned(toks, i) ==
  Then(ParseAtom(toks, IF IsWord(toks, i, "not") THEN i + 1 ELSE i), LAMBDA j, atom :
    Read(j, [negated |-> FALSE, atom |-> atom]))

ParseLiteral(toks, i) ==
  LET negated == IsWord(toks, i, "not")
  IN Then(ParseAtom(toks, IF negated THEN i + 1 ELSE i), LAMBDA j, atom :
       Read(j, [negated |-> negated, atom |-> atom]))

ParseClause(toks, i) ==
  Then(ParseAtom(toks, i), LAMBDA j, head :
    LET body == IF Kind(toks, j) # ":-" THEN Read(j, <<>>)
                ELSE Items(toks, j + 1, {".", "eof"}, LAMBDA k : ParseLiteral(toks, k))
    IN Then(body, LAMBDA k, literals :
         Expect(toks, k, ".", [kind |-> "clause", head |-> head, body |-> literals])))

ParseCapability(toks, i) ==
  IF ~ /\ Kind(toks, i + 1) = "ident" /\ Kind(toks, i + 2) = "/"
       /\ Kind(toks, i + 3) = "integer"
  THEN Fail
  ELSE Then(ParseAttributes(toks, i + 4), LAMBDA j, attributes :
    LET isTrue(t) == t.kind = "ident" /\ t.text = <<"true">>
        any == {attributes[k].token.kind : k \in 1..Len(attributes)}
        flag(key) == AttributeOf(attributes, key, any, FALSE, isTrue)
    IN IF \E k \in 1..Len(attributes) :
            /\ attributes[k].key = <<"path">>
            /\ attributes[k].token.kind \notin {"string", "ident"}
       THEN Fail
       ELSE Expect(toks, j, ".",
              [kind |-> "capability", name |-> Text(toks, i + 1),
               arity |-> toks[i + 3].value,
               path |-> AttributeOf(attributes, "path", {"string", "ident"}, None,
                          LAMBDA t : t.text),
               deterministic |-> flag("deterministic"),
               proof_admissible |-> flag("proof_admissible"),
               timeout_ms |-> AttributeOf(attributes, "timeout_ms", {"integer"},
                                1000 % DepthSize, LAMBDA t : t.value % DepthSize)]))

ParseStatement(toks, i) ==
  IF IsWord(toks, i, "capability") THEN ParseCapability(toks, i)
  ELSE ParseClause(toks, i)

Readable(toks) == \A i \in 1..Len(toks) : toks[i].kind # "bad"

\* etb_parse_program_text, and etb_parse_file on the text of a file.
ParseProgram(text) ==
  LET toks == Scan(text)
      program[i \in 1..(Len(toks) + 1)] ==
        IF Kind(toks, i) = "eof" THEN Read(i, <<>>)
        ELSE Then(ParseStatement(toks, i), LAMBDA j, statement :
               Then(program[j], LAMBDA k, rest : Read(k, <<statement>> \o rest)))
  IN IF Readable(toks) THEN program[1] ELSE Fail

\* etb_parse_atom_text: one atom, a dot if it likes, and nothing else.
ParseAtomText(text) ==
  LET toks == Scan(text)
  IN Then(IF Readable(toks) THEN ParseAtom(toks, 1) ELSE Fail, LAMBDA j, atom :
       LET k == IF Kind(toks, j) = "." THEN j + 1 ELSE j
       IN IF Kind(toks, k) = "eof" THEN Read(k, atom) ELSE Fail)

-----------------------------------------------------------------------------
(* Canonical text. *)

Numeral(n) ==
  LET write[k \in 0..n] ==
        IF k < Base THEN <<Numerals[k + 1]>>
        ELSE LET high == write[k \div Base] IN Append(high, Numerals[(k % Base) + 1])
  IN write[n]

IntegerText(n) == IF n < 0 THEN <<"-">> \o Numeral(-n) ELSE Numeral(n)

TermText(term) ==
  CASE term.kind = "symbol" -> term.text
    [] term.kind = "variable" -> <<"?">> \o term.text
    [] term.kind = "string" -> <<"quote">> \o term.text \o <<"quote">>
    [] term.kind = "integer" -> IntegerText(term.value)
    [] term.kind = "null" -> <<"null">>

TermsText(terms) ==
  LET listed == [k \in 1..Len(terms) |-> <<",">> \o TermText(terms[k])]
  IN IF terms = <<>> THEN <<>>
     ELSE <<"(">> \o Tail(FlattenSeq(listed)) \o <<")">>

\* Slip: both annotations are written as an expiry.
TemporalTextAlike(atom) ==
  IF atom.temporal = "none" THEN <<>> ELSE <<"@">> \o Numeral(atom.value)

TemporalText(atom) ==
  CASE atom.temporal = "none" -> <<>>
    [] atom.temporal = "expires" -> <<"@">> \o Numeral(atom.value)
    [] atom.temporal = "anchored" -> <<" ", "at", " ">> \o Numeral(atom.value)

CanonicalText(atom) ==
  IF atom.kind = "speaks_for"
  THEN atom.principal \o <<" ", "speaks_for", " ">> \o atom.delegate \o <<"[">>
         \o (IF atom.scope = None THEN <<"*">> ELSE atom.scope)
         \o <<"|">> \o Numeral(atom.expires) \o <<"|">> \o Numeral(atom.depth) \o <<"]">>
  ELSE (IF atom.kind = "says" THEN atom.principal \o <<" ", "says", " ">> ELSE <<>>)
         \o atom.predicate \o TermsText(atom.terms)
         \o TemporalText(atom)

=============================================================================
