------------------------------- MODULE TextRules -------------------------------
(***************************************************************************)
(* What the rules about wording ask of a text (src/src/lib/semantic-       *)
(* validate.ts): that it names nothing the evidence does not, denies       *)
(* nothing that was observed, and speaks of what it cites.                 *)
(*                                                                         *)
(* A text is the set of the mentions that extraction finds in it; wording, *)
(* synonyms, stems and stop words are in the extraction and left out here. *)
(* A mention is [as, what]:                                                *)
(*   WORD       a content word of the prose, which no rule holds up        *)
(*   NAME       a quoted name, of a control or a label                     *)
(*   WORDING    a quoted string said to be the exact text on screen        *)
(*   SECRET     a literal credential, quoted or in the test data           *)
(*   EMAIL      an account's address                                       *)
(*   FEATURE    a capability of the vocabulary FEATURE_GROUPS              *)
(*   ROUTE      a URL or a path                                            *)
(*   REQUEST    a method and a path, what = [method, path]                 *)
(*   LACKS      the claim that a thing is missing or does nothing at all   *)
(* A text mentions at least one thing; placeholders are no mentions.       *)
(***************************************************************************)
EXTENDS FiniteSets

CONSTANTS
  ToldBy,     \* what the documentation says of an operation, and the host of a probe: texts by id
  RequestOf,  \* the method and path of each documented operation
  Features,   \* the capabilities of FEATURE_GROUPS
  Addresses   \* the strings EMAIL_PATTERN takes for an account's address

Err(code, S) == {<<code, x>> : x \in S}

Forms == {"WORD", "NAME", "WORDING", "SECRET", "EMAIL", "FEATURE", "ROUTE", "REQUEST", "LACKS"}

\* A capability or an address is found wherever a text has it, whatever else
\* it stands for there.
FoundAs(form, vocabulary, text) == \A m \in text :
  /\ m.as = form => m.what \in vocabulary
  /\ m.what \in vocabulary => [as |-> form, what |-> m.what] \in text

IsText(text) ==
  /\ \A m \in text : DOMAIN m = {"as", "what"} /\ m.as \in Forms
  /\ FoundAs("FEATURE", Features, text) /\ FoundAs("EMAIL", Addresses, text)

What(text) == {m.what : m \in text}

Quoted == {"NAME", "WORDING", "SECRET"}

\* What a text may draw on: everything that some texts say, and the requests of
\* the operations the documentation declares.
Corpus(texts, ops) ==
  [said |-> UNION texts, requests |-> {RequestOf[o] : o \in ops}]

\* A string occurs somewhere in the evidence, quoted or not.
Heard(what, corpus) == what \in What(corpus.said)

\* Somebody upstream quoted it; a description of it is not enough.
WasQuoted(what, corpus) == \E m \in corpus.said : m.what = what /\ m.as \in Quoted

Routes(corpus) ==
  {m.what : m \in {x \in corpus.said : x.as = "ROUTE"}}
  \cup {m.what.path : m \in {x \in corpus.said : x.as = "REQUEST"}}
  \cup {q.path : q \in corpus.requests}

\* A declared path has the methods the documentation declares for it.
MethodDeclared(q, corpus) ==
  LET samePath == {r \in corpus.requests : r.path = q.path}
  IN samePath = {} \/ q \in samePath

Supported(m, corpus) ==
  CASE m.as \in {"NAME", "SECRET", "EMAIL", "FEATURE"} -> Heard(m.what, corpus)
    [] m.as = "WORDING" -> WasQuoted(m.what, corpus)
    [] m.as = "ROUTE" -> m.what \in Routes(corpus)
    [] m.as = "REQUEST" -> m.what.path \in Routes(corpus) /\ MethodDeclared(m.what, corpus)
    [] OTHER -> TRUE

Invented(text, corpus) ==
  {IF m.as \in {"SECRET", "EMAIL"} THEN "FABRICATED_CREDENTIAL" ELSE "UNSUPPORTED_FACT" :
     m \in {x \in text : ~Supported(x, corpus)}}

\* Of a judgement, such as a reason, only hard facts are checked.
InventedHardFact(text, corpus) ==
  {IF m.as = "EMAIL" THEN "FABRICATED_CREDENTIAL" ELSE "UNSUPPORTED_FACT" :
     m \in {x \in text :
              \/ x.as = "EMAIL" /\ ~Heard(x.what, corpus)
              \/ x.as = "ROUTE" /\ x.what \notin Routes(corpus)
              \/ x.as = "REQUEST" /\ x.what.path \notin Routes(corpus)}}

\* What discovery saw with confidence.  That a thing is named is enough: the
\* sentence may itself have said that it is missing.
Observations(d) ==
  What(UNION {d[b].says : b \in {c \in DOMAIN d : d[c].status # "INFERRED" /\ d[c].sure}})

Contradicts(text, d) == \E m \in text : m.as = "LACKS" /\ m.what \in Observations(d)

\* The cited texts share no content word with the claim.
SaysNothingOf(claim, cited) ==
  claim # {} /\ cited # {} /\ What(claim) \cap What(UNION cited) = {}
=============================================================================
