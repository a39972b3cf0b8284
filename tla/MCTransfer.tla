------------------------------ MODULE MCTransfer ------------------------------
(***************************************************************************)
(* Texts a user types at one node, and messages that one node sends to      *)
(* another, with certificates whose answers come from an adapter.           *)
(***************************************************************************)
EXTENDS Connection, FiniteSets

CONSTANT MaxStrokes  \* bound: strokes a user types

VARIABLE typed       \* the text of a program, as far as it is typed

allVars == <<vars, typed>>

-----------------------------------------------------------------------------
(* What is typed. *)

MCNumerals == <<"0", "1", "2">>

Strokes == {
  <<"k", " ", "says", " ">>, <<"p", "(">>, <<"p">>, <<"X">>, <<"1", "0">>, <<",">>,
  <<")">>, <<".">>, <<":", "-">>, <<" ", "not", " ", "p">>, <<"@">>, <<" ", "at", " ">>,
  <<"quote">>, <<"-">>, <<"k", " ", "speaks_for", " ", "d", "[", "depth", "=">>,
  <<"]">>, <<"#">>, <<"capability", " ", "p", "/">>, <<")", ".">>}

Typings == UNION {[1..n -> Strokes] : n \in 0..MaxStrokes}

\* The tokens of a statement, written out: attributes are left out.
Ident(text) == Token("ident", text, 0)
Mark(m) == Token(m, None, 0)
Comma(seqs) == Tail(FlattenSeq([k \in 1..Len(seqs) |-> <<Mark(",")>> \o seqs[k]]))

TermTokens(t) ==
  CASE t.kind = "integer" -> <<Token("integer", None, t.value)>>
    [] t.kind = "string" -> <<Token("string", t.text, 0)>>
    [] t.kind = "null" -> <<Ident(<<"null">>)>>
    [] OTHER -> <<Ident(t.text)>>

TermsTokens(terms) ==
  IF terms = <<>> THEN <<>>
  ELSE <<Mark("(")>> \o Comma([k \in 1..Len(terms) |-> TermTokens(terms[k])])
         \o <<Mark(")")>>

AtomTokens(a) ==
  (CASE a.kind = "speaks_for" ->
          <<Ident(a.principal), Ident(<<"speaks_for">>), Ident(a.delegate)>>
     [] a.kind = "says" ->
          <<Ident(a.principal), Ident(<<"says">>), Ident(a.predicate)>>
     [] a.kind = "predicate" -> <<Ident(a.predicate)>>)
  \o TermsTokens(a.terms)
  \o (CASE a.temporal = "none" -> <<>>
        [] a.temporal = "expires" -> <<Mark("@"), Token("integer", None, a.value)>>
        [] a.temporal = "anchored" ->
             <<Ident(<<"at">>), Token("integer", None, a.value)>>)

LiteralTokens(l) ==
  (IF l.negated THEN <<Ident(<<"not">>)>> ELSE <<>>) \o AtomTokens(l.atom)

StatementTokens(s) ==
  (IF s.kind = "capability"
   THEN <<Ident(<<"capability">>), Ident(s.name), Mark("/"), Token("integer", None, s.arity)>>
   ELSE AtomTokens(s.head)
          \o (IF s.body = <<>> THEN <<>>
              ELSE <<Mark(":-")>> \o Comma([k \in 1..Len(s.body) |-> LiteralTokens(s.body[k])])))
  \o <<Mark(".")>>

\* Tokens that say nothing: a comma before a closing mark, empty parentheses,
\* a rule mark before the dot, and attributes.
Tidied(toks) ==
  LET kind(i) == Kind(toks, i)
      inside(i) == \E j \in 1..i : /\ kind(j) = "["
                                   /\ \A k \in j..(i - 1) : kind(k) # "]" \/ kind(k - 1) = "="
      idle(i) ==
        \/ kind(i) = "," /\ kind(i + 1) \in {")", "."}
        \/ kind(i) = "(" /\ kind(i + 1) = ")"
        \/ i > 1 /\ kind(i) = ")" /\ kind(i - 1) = "("
        \/ kind(i) = ":-" /\ kind(i + 1) = "."
        \/ inside(i)
      kept == SelectSeq([i \in 1..Len(toks) |-> i], LAMBDA i : ~idle(i))
      plain(t) == IF t.kind = "integer" THEN [t EXCEPT !.text = None] ELSE t
  IN [k \in 1..Len(kept) |-> plain(toks[kept[k]])]

-----------------------------------------------------------------------------
(* What is sent. *)

Goal == [BlankAtom EXCEPT !.kind = "says", !.principal = <<"k">>, !.predicate = <<"p">>]

WithTerm(atom, t) == [atom EXCEPT !.terms = <<t>>]

AdapterTerms ==
  {Term("integer", <<>>, n) : n \in {-(WordSize \div 2), -5, -1, 0, 7, 10, IntMax}}
  \cup {Term("symbol", t, 0) : t \in {<<"d">>, <<"X">>, <<"null">>, <<"1", "0">>,
                                      <<"d", " ", "d">>, <<":", "-", "d">>, <<"d", "-", "1">>}}
  \cup {Term("string", t, 0) : t \in {<<>>, <<"d">>, <<"d", "quote", "d">>, <<"d", "#", ",">>}}
  \cup {Term("null", <<>>, 0), Term("variable", <<"X">>, 0)}

\* The reply of an adapter with one tuple of one term.
Reply(t) == WriteArray(<<WriteArray(<<WriteTerms(<<t>>)>>), WriteArray(<<>>)>>)

Answers ==
  {WithTerm(Goal, t) : t \in AdapterTerms}
  \cup {[Goal EXCEPT !.temporal = kind, !.value = 10] : kind \in {"expires", "anchored"}}
  \cup {[BlankAtom EXCEPT !.kind = "speaks_for", !.principal = <<"k">>, !.delegate = <<"d">>]}

\* The answer as the engine holds it: its terms were read from the reply.
Held(answer) ==
  IF answer.terms = <<>> THEN answer
  ELSE WithTerm(answer, ReadTuples(Reply(answer.terms[1])).val.tuples[1][1])

BundleOf(answer) ==
  [node |-> <<"n">>, query |-> CanonicalText(Goal), trace |-> None,
   cert |-> BuildCertificate(Goal, <<Held(answer)>>, 1),
   proof |-> IF answer.terms = <<>> THEN <<>> ELSE <<Byte("proof", 0)>>]

Routes ==
  << [principal |-> <<"k">>, endpoint |-> <<"e">>],
     [principal |-> <<>>, endpoint |-> <<"f">>],
     [principal |-> <<"d">>, endpoint |-> <<"f">>] >>

Responding(answer) ==
  [ok |-> TRUE, error |-> <<>>, bundles |-> <<BundleOf(answer)>>,
   routes |-> <<>>, endpoint |-> None]

Responses == [answer \in Answers |-> Responding(answer)]

MCMessages ==
  {Responses[answer] : answer \in Answers}
  \cup {ErrorResponse(<<"no", " ", "route">>),
        [ErrorResponse(<<>>) EXCEPT !.ok = TRUE, !.routes = Routes, !.endpoint = <<"e">>],
        [BlankRequest EXCEPT !.op = <<"query">>, !.query = CanonicalText(Goal),
           !.node = <<"n">>, !.endpoint = <<"e">>, !.routes = Routes],
        [BlankRequest EXCEPT !.op = <<"announce">>, !.node = <<"n">>,
           !.endpoint = <<"e">>, !.routes = Routes],
        [BlankRequest EXCEPT !.op = <<"registry">>, !.node = <<"n">>, !.endpoint = <<"e">>],
        [BlankRequest EXCEPT !.op = <<"resolve">>, !.node = <<"n">>, !.endpoint = <<"e">>,
           !.principal = <<"k">>]}

-----------------------------------------------------------------------------
(* The system: a user types while nothing is sent, or a message is sent. *)

MCInit == Init /\ typed = <<>>

Type ==
  /\ sent = Idle
  /\ \E s \in Strokes : typed' = Append(typed, s)
  /\ Len(typed) < MaxStrokes
  /\ UNCHANGED vars

MCNext ==
  \/ typed = <<>> /\ Next /\ UNCHANGED typed
  \/ Type

MCSpec == MCInit /\ [][MCNext]_allVars /\ WF_vars(typed = <<>> /\ Transfer)

TypedText == FlattenSeq(typed)

-----------------------------------------------------------------------------
(* Properties. *)

\* What becomes of a term that is written as canonical text and parsed.
IsWordText(t) ==
  /\ t \notin {None, <<>>} /\ ToSet(t) \subseteq IdentPieces
  /\ Head(t) \notin Digits /\ ~StartsRule(t, 1)

TermAsRead(t) ==
  CASE t.kind = "null" -> {t}
    [] t.kind = "variable" -> {}
    [] t.kind = "string" -> IF "quote" \in ToSet(t.text) THEN {} ELSE {t}
    [] t.kind = "integer" ->
         {IF t.value >= 0 THEN t ELSE Term("symbol", <<"-">> \o Numeral(-t.value), 0)}
    [] t.kind = "symbol" ->
         IF t.text # <<>> /\ ToSet(t.text) \subseteq Digits
         THEN {Term("integer", <<>>, ValueOf(t.text))}
         ELSE IF ~IsWordText(t.text) THEN {}
         ELSE IF t.text = <<"null">> THEN {Term("null", <<>>, 0)}
         ELSE IF Head(t.text) \in Caps \cup {"_"} THEN {Term("variable", t.text, 0)}
         ELSE {t}

\* The readings of an atom's canonical text: none or one. A delegation's
\* text is not in the language.
AsRead(atom) ==
  IF atom.kind = "speaks_for" \/ \E k \in 1..Len(atom.terms) : TermAsRead(atom.terms[k]) = {}
  THEN {}
  ELSE {[atom EXCEPT !.terms = [k \in 1..Len(@) |->
                                  CHOOSE t \in TermAsRead(@[k]) : TRUE]]}

Arrived == outcome \notin {Idle, Pending, Lost}

\* A node imports from another's certificate exactly the answers an adapter
\* gave, except that what canonical text cannot carry makes the whole import
\* fail (a variable, a string with a quote, a symbol that is no word, a
\* delegation) and that a negative integer comes back as a symbol, a symbol of
\* digits as an integer and a capitalised symbol as a variable (cert.c 12-18,
\* 124-225; canon.c 28-111; parser.c 296-319, 610-633; cbor.c 127-132, 191-218).
AnswersArriveAsText ==
  Arrived => \A answer \in Answers :
    outcome = Responses[answer] =>
      LET read == ReadCertificate(outcome.bundles[1].cert)
      IN IF AsRead(answer) = {} THEN read.at = 0
         ELSE /\ read.at # 0 /\ read.val.query = Goal
              /\ read.val.answers = <<CHOOSE a \in AsRead(answer) : TRUE>>

\* A certificate of which only a part was written (etb_certificate_write_file
\* is cut short, or the file is read while it is written) is refused.
CutIsRefused ==
  Arrived => \A answer \in Answers :
    outcome = Responses[answer] =>
      LET cert == outcome.bundles[1].cert
      IN \A n \in 0..(Len(cert) - 1) : ReadCertificate(SubSeq(cert, 1, n)).at = 0

AtomsOf(s) ==
  IF s.kind = "capability" THEN {}
  ELSE {s.head} \cup {s.body[k].atom : k \in 1..Len(s.body)}

Worded(atom) == atom.kind = "speaks_for" \/ IsWordText(atom.predicate)

\* A program that parses is made of the tokens of its text, in their order,
\* and of nothing else; only what says nothing may be left out. (A says atom
\* takes any token for its predicate: programs with such a one are left out.)
ReadsWhatIsWritten ==
  LET program == ParseProgram(TypedText)
      tokens == Tidied(Scan(TypedText))
  IN /\ program.at # 0
     /\ \A k \in 1..Len(program.val) : \A a \in AtomsOf(program.val[k]) : Worded(a)
     => tokens = FlattenSeq([k \in 1..Len(program.val) |-> StatementTokens(program.val[k])])

\* Nodes compare goals by their text: an atom typed by a user, with a word as
\* its predicate, is read back unchanged from its canonical text, its temporal
\* annotation included, unless it is a delegation or holds a variable.
TypedAtomsSurvive ==
  LET read == ParseAtomText(TypedText)
  IN read.at # 0 /\ Worded(read.val) =>
       LET again == ParseAtomText(CanonicalText(read.val))
       IN IF \/ read.val.kind = "speaks_for"
             \/ \E k \in 1..Len(read.val.terms) : read.val.terms[k].kind = "variable"
          THEN again.at = 0
          ELSE again.at # 0 /\ again.val = read.val
=============================================================================
