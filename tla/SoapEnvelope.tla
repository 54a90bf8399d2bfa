---------------------------- MODULE SoapEnvelope ----------------------------
(***************************************************************************)
(* parse_soap_request over the tokens of a document: tags, white space,    *)
(* text, comments, CDATA sections, processing instructions.  The parser    *)
(* works on spans of one text; here a span is a sequence of tokens.        *)
(*                                                                         *)
(* A tag's name is <<prefix, local name>>, its namespaces a function from  *)
(* the prefixes it declares ("" for the default one) to URNs.  A text is   *)
(* its value and the form that its special characters are written in.      *)
(***************************************************************************)
EXTENDS Integers, FiniteSets, SequencesExt

\* The empty string: the default prefix, no namespace, no error.
NoName == ""

Open(q, ns)     == [k |-> "open", q |-> q, ns |-> ns, self |-> FALSE]
Alone(q, ns)    == [k |-> "open", q |-> q, ns |-> ns, self |-> TRUE]
Close(q)        == [k |-> "close", q |-> q]
Text(v, form)   == [k |-> "text", v |-> v, form |-> form]
Other(kind)     == [k |-> kind] \* "space", "comment", "cdata", "pi", "doctype"

Plain     == [p \in {} |-> NoName] \* declares no namespace
IsOpen(t) == t.k = "open"

\* The first position from p on of a token that is none of Kinds.
Skip(s, p, Kinds) == Min({i \in p..Len(s) : s[i].k \notin Kinds} \cup {Len(s) + 1})

\* skip_meta.
SkipMeta(doc) == SubSeq(doc, Skip(doc, 1, {"space", "pi", "comment", "doctype"}), Len(doc))

NextTag(s, p) == \* mutant: only white space may lie between two elements
  LET i == Skip(s, p, {"space"}) IN
  IF i <= Len(s) /\ IsOpen(s[i]) THEN i ELSE 0

\* next_element: 0 at an end tag, at anything else that is no element and at
\* the end of the span.
NextElement(s, p) ==
  LET i == Skip(s, p, {"space", "text", "comment", "cdata"}) IN
  IF i <= Len(s) /\ IsOpen(s[i]) THEN i ELSE 0

\* find_close: where the element that opens at p ends, 0 if it does not.
FindClose(s, p) ==
  LET tags == {i \in (p + 1)..Len(s) :
                 \/ IsOpen(s[i]) /\ s[i].q = s[p].q /\ ~ s[i].self
                 \/ s[i].k = "close" /\ s[i].q = s[p].q}
      upTo(i) == {j \in tags : j <= i}
      ends == {i \in tags : 2 * Cardinality({j \in upTo(i) : IsOpen(s[j])}) < Cardinality(upTo(i))} IN
  IF ends = {} THEN 0 ELSE Min(ends)

\* The element at p: it ends, what is in it, where the next may begin.
Ends(s, p)  == s[p].self \/ FindClose(s, p) # 0
Inner(s, p) == IF s[p].self THEN <<>> ELSE SubSeq(s, p + 1, FindClose(s, p) - 1)
After(s, p) == IF s[p].self THEN p + 1 ELSE FindClose(s, p) + 1

\* find_xmlns: what the tag itself declares for its own prefix.
Xmlns(tag) == IF tag.q[1] \in DOMAIN tag.ns THEN tag.ns[tag.q[1]] ELSE NoName

\* inner_text, xml_unescape: the five entities are decoded; a value that holds
\* a comment, a CDATA section or another reference is taken as it is written.
ValueOf(s) ==
  LET rest == {i \in DOMAIN s : s[i].k # "space"} IN
  IF rest = {} THEN <<>>
  ELSE IF Cardinality(rest) = 1 /\ s[Min(rest)].k = "text" /\ s[Min(rest)].form = "entities"
  THEN s[Min(rest)].v ELSE <<"as written">>

-----------------------------------------------------------------------------

Failed(error)        == [error |-> error]
Parsed(urn, a, args) == [error |-> NoName, urn |-> urn, action |-> a, args |-> args]

\* The positions of a span's elements, each looked for where the one before it
\* ends; one that does not end is the last.
ElementsOf(s) ==
  LET from[p \in 1..(Len(s) + 1)] ==
        LET n == NextElement(s, p) IN
        IF n = 0 THEN <<>> ELSE IF Ends(s, n) THEN <<n>> \o from[After(s, n)] ELSE <<n>>
  IN from[1]

\* locate_body: the position of Body in the envelope's span; 0 if there is none,
\* -1 if it or an element before it does not end.
BodyAt(s) ==
  LET elements == ElementsOf(s)
      bodies   == {i \in DOMAIN elements : s[elements[i]].q[2] \in {"Body", "body"}} IN
  IF bodies # {}
  THEN IF FindClose(s, elements[Min(bodies)]) = 0 THEN -1 ELSE elements[Min(bodies)]
  ELSE IF \A i \in DOMAIN elements : Ends(s, elements[i]) THEN 0 ELSE -1

\* The elements of an action's span as (name, value) pairs, the pair <<>> for
\* one that does not end.
ArgsOf(s) ==
  LET elements == ElementsOf(s) IN
  [i \in DOMAIN elements |->
     IF Ends(s, elements[i]) THEN <<s[elements[i]].q[2], ValueOf(Inner(s, elements[i]))>> ELSE <<>>]

ParseAction(s) ==
  LET n == NextElement(s, 1) IN
  IF n = 0 THEN Failed("action_not_found")
  ELSE IF Xmlns(s[n]) = NoName THEN Failed("namespace_missing")
  ELSE IF ~ Ends(s, n) \/ <<>> \in ToSet(ArgsOf(Inner(s, n))) THEN Failed("malformed")
  ELSE Parsed(Xmlns(s[n]), s[n].q[2], ArgsOf(Inner(s, n)))

ParseEnvelope(s) ==
  LET b == BodyAt(Inner(s, 1)) IN
  IF ~ IsOpen(s[1]) \/ s[1].q[2] \notin {"Envelope", "envelope"} THEN Failed("malformed")
  ELSE IF s[1].self THEN Failed("body_not_found")
  ELSE IF FindClose(s, 1) = 0 \/ b = -1 THEN Failed("malformed")
  ELSE IF b = 0 THEN Failed("body_not_found")
  ELSE ParseAction(Inner(Inner(s, 1), b))

\* ParseBudget: what a parse that reaches the arguments has scanned.  Each span
\* is scanned once, up to the end of its element.
Scanned(s) ==
  LET body   == BodyAt(Inner(s, 1))
      inner  == Inner(Inner(s, 1), body)
      action == NextElement(inner, 1) IN
  FindClose(s, 1) - 1 + FindClose(Inner(s, 1), body)
    + After(inner, action) - 1 + Len(Inner(inner, action))

\* scan_budget_for, without the floor it gives small documents.
ScanBudget(doc) == 8 * Len(doc)

\* A budget that is used up exactly when the arguments end counts as exceeded.
Parse(doc) ==
  LET s == SkipMeta(doc)
      parsed == ParseEnvelope(s) IN
  IF s = <<>> THEN Failed("empty")
  ELSE IF parsed.error = NoName /\ Scanned(s) >= ScanBudget(doc) THEN Failed("too_complex")
  ELSE parsed

-----------------------------------------------------------------------------
\* What a control point sends for a request: its arguments in order, within the
\* liberties the parser says it tolerates.  style is a record of them: upper
\* (case of the element names), bare (no prefixes but the action's), prolog,
\* header (a Header before the Body), notes (comments and white space between
\* elements), alone (empty values as self-closing tags).
Element(q, ns, inner) == <<Open(q, ns)>> \o inner \o <<Close(q)>>

Render(urn, action, args, style) ==
  LET prefix   == IF style.bare THEN NoName ELSE "s"
      envelope == <<prefix, IF style.upper THEN "Envelope" ELSE "envelope">>
      body     == <<prefix, IF style.upper THEN "Body" ELSE "body">>
      prolog   == IF style.prolog THEN <<Other("pi"), Other("space"), Other("comment")>> ELSE <<>>
      gap      == IF style.notes THEN <<Other("space"), Other("comment"), Other("space")>> ELSE <<>>
      header   == IF style.header
                  THEN Element(<<prefix, "Header">>, Plain, <<Alone(<<"h", "Body">>, Plain)>>) ELSE <<>>
      value(v) == IF v = <<>> THEN <<>> ELSE <<Text(v, "entities")>>
      arg(a)   == IF a[2] = <<>> /\ style.alone THEN <<Alone(<<NoName, a[1]>>, Plain)>>
                  ELSE Element(<<NoName, a[1]>>, Plain, value(a[2]))
      call     == Element(<<"u", action>>, [p \in {"u"} |-> urn],
                          FlattenSeq([i \in DOMAIN args |-> gap \o arg(args[i])]) \o gap)
  IN prolog \o Element(envelope, Plain, gap \o header \o gap \o Element(body, Plain, gap \o call \o gap) \o gap)
=============================================================================
