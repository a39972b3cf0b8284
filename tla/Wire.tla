--------------------------------- MODULE Wire ---------------------------------
(***************************************************************************)
(* What nodes, adapters and certificates are written as: CBOR               *)
(* (src/core/cbor.c), certificates (src/engine/cert.c), the exchange with   *)
(* an adapter (src/runtime/capability.c) and the requests and responses of  *)
(* nodes (src/runtime/distributed.c).                                       *)
(*                                                                          *)
(* A byte is the first byte of an item, with its major type and what it     *)
(* says of the length; or one digit of a number; or one piece of a text.    *)
(* An operator that reads takes the bytes and the place of the next one and *)
(* returns what it read with the place after it, or place 0 when it fails,  *)
(* as the parsing operators of Syntax do.                                   *)
(***************************************************************************)
EXTENDS Syntax

CONSTANTS
  Immediate,  \* lengths below it fit in the first byte (24)
  ByteSize    \* the number of values of a byte (256)

ASSUME WireAssumption == Immediate \in Nat \ {0} /\ ByteSize \in Nat \ {0, 1}

Byte(major, value) == [major |-> major, value |-> value]

\* The numbers of digits that may follow the first byte.
Widths == <<1, 2, 4, 8>>

\* The values of an unsigned and of a signed integer of the widest kind.
WordSize == ByteSize ^ 8
AsSigned(n) == IF n >= WordSize \div 2 THEN n - WordSize ELSE n

DigitsOf(n, width) ==
  [k \in 1..width |-> Byte("digit", (n \div ByteSize ^ (width - k)) % ByteSize)]

NumberOf(bytes) == FoldLeft(LAMBDA n, b : n * ByteSize + b.value, 0, bytes)

-----------------------------------------------------------------------------
(* Writing. *)

WriteHead(major, n) ==
  LET w == CHOOSE w \in 1..4 : /\ w = 4 \/ n < ByteSize ^ Widths[w]
                               /\ \A v \in 1..(w - 1) : n >= ByteSize ^ Widths[v]
  IN IF n < Immediate THEN <<Byte(major, n)>>
     ELSE <<Byte(major, Immediate + w - 1)>> \o DigitsOf(n, Widths[w])

WriteInt(n) == IF n >= 0 THEN WriteHead("uint", n) ELSE WriteHead("negative", -1 - n)
WriteBool(b) == <<Byte("flag", IF b THEN 1 ELSE 0)>>
WriteNull == <<Byte("nil", 0)>>
WriteText(text) ==
  WriteHead("text", Len(text)) \o [k \in 1..Len(text) |-> Byte(text[k], 0)]
WriteBytes(bytes) == WriteHead("bytes", Len(bytes)) \o bytes
WriteArray(items) == WriteHead("array", Len(items)) \o FlattenSeq(items)
\* Fields are pairs of a key and its written value, in the order of writing.
WriteMap(fields) ==
  WriteHead("map", Len(fields))
    \o FlattenSeq([k \in 1..Len(fields) |-> WriteText(<<fields[k][1]>>) \o fields[k][2]])

-----------------------------------------------------------------------------
(* Reading. *)

MajorAt(bytes, i) == IF i > Len(bytes) THEN "end" ELSE bytes[i].major

ReadHead(bytes, i, major) ==
  IF MajorAt(bytes, i) # major THEN Fail
  ELSE IF bytes[i].value < Immediate THEN Read(i + 1, bytes[i].value)
  ELSE LET width == Widths[bytes[i].value - Immediate + 1]
       IN IF i + width > Len(bytes) THEN Fail
          ELSE Read(i + 1 + width, NumberOf(SubSeq(bytes, i + 1, i + width)))

\* Slip: a negative number is the negation of what was written.
ReadIntNegated(bytes, i) ==
  IF MajorAt(bytes, i) = "uint"
  THEN Then(ReadHead(bytes, i, "uint"), LAMBDA j, n : Read(j, AsSigned(n)))
  ELSE Then(ReadHead(bytes, i, "negative"), LAMBDA j, n : Read(j, -AsSigned(n)))

\* A negative number is one less than the negation of what was written; the
\* negation of the smallest integer overflows and leaves it as it is.
ReadInt(bytes, i) ==
  IF MajorAt(bytes, i) = "uint"
  THEN Then(ReadHead(bytes, i, "uint"), LAMBDA j, n : Read(j, AsSigned(n)))
  ELSE Then(ReadHead(bytes, i, "negative"), LAMBDA j, n :
         LET up == AsSigned((n + 1) % WordSize)
         IN Read(j, IF up = -(WordSize \div 2) THEN up ELSE -up))

ReadBool(bytes, i) ==
  IF MajorAt(bytes, i) = "flag" THEN Read(i + 1, bytes[i].value = 1) ELSE Fail
ReadNull(bytes, i) == IF MajorAt(bytes, i) = "nil" THEN Read(i + 1, None) ELSE Fail

\* The n bytes from place i on, if there are as many.
Taken(bytes, i, n) ==
  IF i + n - 1 > Len(bytes) THEN Fail ELSE Read(i + n, SubSeq(bytes, i, i + n - 1))

ReadBytes(bytes, i) ==
  Then(ReadHead(bytes, i, "bytes"), LAMBDA j, n : Taken(bytes, j, n))
ReadText(bytes, i) ==
  Then(ReadHead(bytes, i, "text"), LAMBDA j, n :
    Then(Taken(bytes, j, n), LAMBDA k, chars :
      Read(k, [c \in 1..n |-> chars[c].major])))

OrNull(bytes, i, read(_, _)) ==
  IF MajorAt(bytes, i) = "nil" THEN ReadNull(bytes, i) ELSE read(bytes, i)

\* n items, one after the other.
Repeat(n, i, item(_)) ==
  LET one(read, k) ==
        Then(read, LAMBDA j, vals :
          Then(item(j), LAMBDA at, val : Read(at, Append(vals, val))))
  IN FoldLeft(one, Read(i, <<>>), [k \in 1..n |-> k])

ReadArray(bytes, i, item(_)) ==
  Then(ReadHead(bytes, i, "array"), LAMBDA j, n : Repeat(n, j, item))

\* The fields in the order they stand in, each read by field(key, place),
\* which fails on a key it does not know.
ReadMap(bytes, i, field(_, _)) ==
  Then(ReadHead(bytes, i, "map"), LAMBDA j, n : Repeat(n, j, LAMBDA at :
    Then(ReadText(bytes, at), LAMBDA k, key :
      Then(field(key, k), LAMBDA l, val : Read(l, <<key[1], val>>)))))

\* The value of a field: of the last one with the key.
Field(fields, key, default) ==
  FoldLeft(LAMBDA v, f : IF f[1] = key THEN f[2] ELSE v, default, fields)

-----------------------------------------------------------------------------
(* Certificates: a query and its answers by their canonical text, digests  *)
(* of the trace, and a digest of all that stands before it. The reader     *)
(* drops the digests of the trace and does not compute the root again, so  *)
(* one text stands for every digest.                                       *)

Digest == <<"digest">>

\* Slip: the root is appended and not counted.
BuildUncounted(query, answers, steps) ==
  WriteMap(<<
    <<"query", WriteText(CanonicalText(query))>>,
    <<"answers", WriteArray([k \in 1..Len(answers) |-> WriteText(CanonicalText(answers[k]))])>>,
    <<"trace", WriteArray([k \in 1..steps |-> WriteText(Digest)])>> >>)
  \o WriteText(<<"root">>) \o WriteText(Digest)

BuildCertificate(query, answers, steps) ==
  WriteMap(<<
    <<"query", WriteText(CanonicalText(query))>>,
    <<"answers", WriteArray([k \in 1..Len(answers) |-> WriteText(CanonicalText(answers[k]))])>>,
    <<"trace", WriteArray([k \in 1..steps |-> WriteText(Digest)])>>,
    <<"root", WriteText(Digest)>> >>)

ReadAtom(bytes, i) ==
  Then(ReadText(bytes, i), LAMBDA j, text :
    Then(ParseAtomText(text), LAMBDA k, atom : Read(j, atom)))

ReadCertificate(bytes) ==
  Then(ReadMap(bytes, 1, LAMBDA key, i :
         CASE key = <<"query">> -> ReadAtom(bytes, i)
           [] key = <<"answers">> -> ReadArray(bytes, i, LAMBDA j : ReadAtom(bytes, j))
           [] key = <<"trace">> -> ReadArray(bytes, i, LAMBDA j : ReadText(bytes, j))
           [] key = <<"root">> -> ReadText(bytes, i)
           [] OTHER -> Fail),
    LAMBDA i, fields : Read(i,
      [query |-> Field(fields, "query", BlankAtom),
       answers |-> Field(fields, "answers", <<>>),
       root |-> Field(fields, "root", <<>>)]))

-----------------------------------------------------------------------------
(* The exchange with an adapter. The kinds of terms are numbered. *)

TermKinds == <<"symbol", "variable", "integer", "string", "null">>
KindNumber(kind) == (CHOOSE k \in 1..5 : TermKinds[k] = kind) - 1

WriteTerm(term) ==
  WriteArray(<<WriteHead("uint", KindNumber(term.kind)),
    CASE term.kind = "integer" -> WriteInt(term.value)
      [] term.kind = "null" -> WriteNull
      [] OTHER -> WriteText(term.text)>>)

\* A number that is the number of no kind is taken for that of a symbol.
ReadTerm(bytes, i) ==
  Then(ReadHead(bytes, i, "array"), LAMBDA j, n :
    IF n # 2 THEN Fail
    ELSE Then(ReadHead(bytes, j, "uint"), LAMBDA k, number :
      LET kind == IF number < 5 THEN TermKinds[number + 1] ELSE "symbol"
      IN CASE kind = "integer" ->
                Then(ReadInt(bytes, k), LAMBDA l, v : Read(l, Term(kind, <<>>, v)))
           [] kind = "null" ->
                Then(ReadNull(bytes, k), LAMBDA l, v : Read(l, Term(kind, <<>>, 0)))
           [] OTHER ->
                Then(ReadText(bytes, k), LAMBDA l, t : Read(l, Term(kind, t, 0)))))

WriteTerms(terms) == WriteArray([k \in 1..Len(terms) |-> WriteTerm(terms[k])])

WriteCall(args, bound) ==
  WriteArray(<<WriteTerms(args),
               WriteArray([k \in 1..Len(bound) |-> WriteBool(bound[k])])>>)

ReadTuples(bytes) ==
  Then(ReadHead(bytes, 1, "array"), LAMBDA i, n :
    IF n # 2 THEN Fail
    ELSE Then(ReadArray(bytes, i, LAMBDA j :
                ReadArray(bytes, j, LAMBDA k : ReadTerm(bytes, k))), LAMBDA j, tuples :
           Then(ReadArray(bytes, j, LAMBDA k : ReadText(bytes, k)), LAMBDA k, evidence :
             Read(k, [tuples |-> tuples, evidence |-> evidence]))))

-----------------------------------------------------------------------------
(* Requests and responses of nodes. *)

Publishable(route) == route.principal # <<>> /\ route.endpoint # <<>>

\* Slip: every route of the map is shown.
WriteAllRoutes(routes) ==
  WriteArray([k \in 1..Len(routes) |->
    WriteMap(<< <<"principal", WriteText(routes[k].principal)>>,
                <<"endpoint", WriteText(routes[k].endpoint)>> >>)])

WriteRoutes(routes) ==
  LET shown == SelectSeq(routes, Publishable)
  IN WriteArray([k \in 1..Len(shown) |->
       WriteMap(<< <<"principal", WriteText(shown[k].principal)>>,
                   <<"endpoint", WriteText(shown[k].endpoint)>> >>)])

\* A principal keeps its place in the list and gets the newer endpoint.
PutRoute(routes, route) ==
  IF \E k \in 1..Len(routes) : routes[k].principal = route.principal
  THEN [k \in 1..Len(routes) |->
          IF routes[k].principal = route.principal THEN route ELSE routes[k]]
  ELSE Append(routes, route)

ReadRoutes(bytes, i) ==
  Then(ReadArray(bytes, i, LAMBDA j :
         Then(ReadMap(bytes, j, LAMBDA key, k :
                IF key \in {<<"principal">>, <<"endpoint">>} THEN ReadText(bytes, k)
                ELSE Fail),
           LAMBDA k, fields :
             LET route == [principal |-> Field(fields, "principal", None),
                           endpoint |-> Field(fields, "endpoint", None)]
             IN IF None \in {route.principal, route.endpoint} THEN Fail
                ELSE Read(k, route))),
    LAMBDA j, routes : Read(j, FoldLeft(PutRoute, <<>>, routes)))

WriteBundle(bundle) ==
  WriteMap(<<
    <<"node", WriteText(bundle.node)>>,
    <<"query", WriteText(bundle.query)>>,
    <<"trace", IF bundle.trace = None THEN WriteNull ELSE WriteText(bundle.trace)>>,
    <<"cert", WriteBytes(bundle.cert)>>,
    <<"proof", IF bundle.proof = <<>> THEN WriteNull ELSE WriteBytes(bundle.proof)>> >>)

ReadBundle(bytes, i) ==
  Then(ReadMap(bytes, i, LAMBDA key, j :
         CASE key \in {<<"node">>, <<"query">>} -> ReadText(bytes, j)
           [] key = <<"trace">> -> OrNull(bytes, j, ReadText)
           [] key = <<"cert">> -> ReadBytes(bytes, j)
           [] key = <<"proof">> -> OrNull(bytes, j, ReadBytes)
           [] OTHER -> Fail),
    LAMBDA j, fields :
      LET proof == Field(fields, "proof", None)
          bundle == [node |-> Field(fields, "node", None),
                     query |-> Field(fields, "query", None),
                     trace |-> Field(fields, "trace", None),
                     cert |-> Field(fields, "cert", None),
                     proof |-> IF proof = None THEN <<>> ELSE proof]
      IN IF None \in {bundle.node, bundle.query, bundle.cert} THEN Fail
         ELSE Read(j, bundle))

\* The first bundle of a node for a query is kept.
PutBundle(bundles, bundle) ==
  IF \E k \in 1..Len(bundles) : /\ bundles[k].node = bundle.node
                                /\ bundles[k].query = bundle.query
  THEN bundles ELSE Append(bundles, bundle)

WriteResponse(r) ==
  WriteMap(<<
    <<"ok", WriteBool(r.ok)>>,
    <<"error", WriteText(r.error)>>,
    <<"bundles", WriteArray([k \in 1..Len(r.bundles) |-> WriteBundle(r.bundles[k])])>>,
    <<"routes", WriteRoutes(r.routes)>>,
    <<"endpoint", IF r.endpoint = None THEN WriteNull ELSE WriteText(r.endpoint)>> >>)

ErrorResponse(message) ==
  [ok |-> FALSE, error |-> message, bundles |-> <<>>, routes |-> <<>>,
   endpoint |-> None]

\* A response that is not ok, or says nothing of it, fails the call; what it
\* carries is dropped.
ReadResponse(bytes) ==
  Then(ReadMap(bytes, 1, LAMBDA key, i :
         CASE key = <<"ok">> -> ReadBool(bytes, i)
           [] key = <<"error">> -> ReadText(bytes, i)
           [] key = <<"bundles">> -> ReadArray(bytes, i, LAMBDA j : ReadBundle(bytes, j))
           [] key = <<"routes">> -> ReadRoutes(bytes, i)
           [] key = <<"endpoint">> -> OrNull(bytes, i, ReadText)
           [] OTHER -> Fail),
    LAMBDA i, fields :
      IF ~Field(fields, "ok", FALSE)
      THEN Read(i, ErrorResponse(Field(fields, "error", <<>>)))
      ELSE Read(i, [ok |-> TRUE, error |-> Field(fields, "error", <<>>),
             bundles |-> FoldLeft(PutBundle, <<>>, Field(fields, "bundles", <<>>)),
             routes |-> Field(fields, "routes", <<>>),
             endpoint |-> Field(fields, "endpoint", None)]))

\* The fields of a request by its operation; routes are a node's own.
FieldsOf(op) ==
  CASE op = "query" -> <<"query", "node", "endpoint", "routes">>
    [] op = "announce" -> <<"node", "endpoint", "routes">>
    [] op = "registry" -> <<"node", "endpoint">>
    [] op = "resolve" -> <<"node", "endpoint", "principal">>

BlankRequest ==
  [op |-> None, query |-> None, node |-> None, endpoint |-> None,
   principal |-> None, routes |-> <<>>]

WriteRequest(r) ==
  LET keys == FieldsOf(r.op[1])
      write(key) == IF key = "routes" THEN WriteRoutes(r.routes) ELSE WriteText(r[key])
  IN WriteMap(<< <<"op", WriteText(r.op)>> >>
       \o [k \in 1..Len(keys) |-> <<keys[k], write(keys[k])>>])

ReadRequest(bytes) ==
  Then(ReadMap(bytes, 1, LAMBDA key, i :
         CASE key = <<"routes">> -> ReadRoutes(bytes, i)
           [] key[1] \in DOMAIN BlankRequest \ {"routes"} -> ReadText(bytes, i)
           [] OTHER -> Fail),
    LAMBDA i, fields :
      LET request == [key \in DOMAIN BlankRequest |->
                        Field(fields, key, BlankRequest[key])]
      IN IF request.op = None THEN Fail ELSE Read(i, request))

=============================================================================
