--------------------------- MODULE SteeringGrammar ---------------------------
(***************************************************************************)
(* The language steering is written in, and what becomes of an expression  *)
(* that is recorded, inverted and read again.                              *)
(*                                                                         *)
(*   drowse/steering/grammar.py   _Parser, _fold, parse_expr, format_expr  *)
(*   drowse/store/selectors.py    resolve_bare_atom and its tiers          *)
(*   drowse/loom/recipe.py        Recipe.invert_steering                   *)
(*                                                                         *)
(* A text is the sequence of its lexemes.  A key of Steering.alphas is the *)
(* sequence of lexemes it prints as, so two keys are equal when they print *)
(* alike.  A number keeps its sign apart, as a float does: there is a      *)
(* negative zero.  A parser takes a position and gives the one behind what *)
(* it read, or Fail, from which every parser fails.                        *)
(***************************************************************************)
EXTENDS Integers, Sequences, FiniteSets, SequencesExt

CONSTANTS
  Texts,        \* what a caller may write
  Value,        \* the numerals and their magnitudes, in halves
  Slug,         \* the names, and the slug each canonicalizes to
  Variants,     \* the `:variant` suffixes VARIANT_SUFFIX_RE accepts
  Manifolds,    \* the folders that may be installed
  ProfileKeys,  \* the keys that may be registered in the session
  MaxInstalls   \* bound

VARIABLES
  catalog,      \* the installed manifolds
  profiles,     \* the registered keys
  said,         \* the steering of the call
  recipe,       \* its receipt: the text Steering prints as, or <<>>
  settled,      \* whether catalog and registry are those the call was read in
  installs

grammarVars == <<catalog, profiles, said, recipe, settled, installs>>

---------------------------------------------------------------------------
(* Lexemes.                                                                *)

Fail == 0
Tok(t, p) == IF p \in DOMAIN t THEN t[p] ELSE "EOF"
Behind(p, holds) == IF p # Fail /\ holds THEN p + 1 ELSE Fail

Name(t, p) == Behind(p, Tok(t, p) \in DOMAIN Slug)
Number(t, p) == Behind(p, Tok(t, p) \in DOMAIN Value)
Integer(t, p) == Behind(p, Tok(t, p) \in DOMAIN Value /\ Value[Tok(t, p)] % 2 = 0)
Magnitude(t, p) == IF Number(t, p) = Fail THEN 0 ELSE Value[t[p]]
SignedNum(t, p) == Number(t, IF Tok(t, p) \in {"+", "-"} THEN p + 1 ELSE p)

\* The lexemes from p up to q.  A number prints without its plus.
Read(t, p, q) == SelectSeq(SubSeq(t, p, q - 1), LAMBDA lexeme : lexeme # "+")

\* Floats: sums of opposites are positive zero, a product keeps the sign.
Float(neg, mag) == [neg |-> neg, mag |-> mag]
Zero == Float(FALSE, 0)
Amount(x) == IF x.neg THEN -x.mag ELSE x.mag
Plus(x, y) ==
  LET sum == Amount(x) + Amount(y)
  IN  Float(IF sum = 0 THEN x.neg /\ y.neg ELSE sum < 0, IF sum < 0 THEN -sum ELSE sum)
Negated(x) == Float(~x.neg, x.mag)

---------------------------------------------------------------------------
(* Parsing.                                                                *)

Reserved == {"jlens", "slens", "sae", "neuron", "head"}

\* _namespaced_name: a feature id, an exact vocabulary id, or a name.
NamespacedName(t, p, ns) ==
  IF ns = "sae" /\ Number(t, p) # Fail THEN Integer(t, p)
  ELSE IF ns \in {"jlens", "slens"} /\ Tok(t, p) = "#" THEN Integer(t, p + 1)
  ELSE Name(t, p)

Typed(t, p) == Tok(t, Name(t, p)) = "/"
FullName(t, p) == IF Typed(t, p) THEN NamespacedName(t, p + 2, Tok(t, p)) ELSE Name(t, p)
Dotted(t, p) == IF Tok(t, p) = "." THEN Name(t, p + 1) ELSE p

\* _atom: a name, dotted or not, with a namespace or a variant.
AtomOf(t, p, end, typed, suffixed) ==
  [at |-> IF ~suffixed THEN end
          ELSE IF typed /\ Tok(t, p) \in Reserved THEN Fail ELSE Name(t, end + 1),
   ns |-> IF typed THEN Tok(t, p) ELSE "",
   concept |-> SubSeq(t, IF typed THEN p + 2 ELSE p, end - 1),
   variant |-> IF suffixed THEN Tok(t, end + 1) ELSE "raw"]
AtomUpTo(t, p, end) == AtomOf(t, p, end, Typed(t, p), Tok(t, end) = ":")
AtomAt(t, p) == AtomUpTo(t, p, Dotted(t, FullName(t, p)))

\* The rest of a coordinate list: signed numbers and commas.
Coordinates(t, p) ==
  LET rest[q \in 0 .. Len(t) + 1] ==
        LET n == SignedNum(t, q)
        IN  IF n # Fail /\ Tok(t, n) = "," THEN rest[n + 1] ELSE n
  IN rest[p]

\* _selector: an atom, a projection of it, or a position on it.
Place(t, p) == IF Name(t, p) # Fail THEN Name(t, p) ELSE Coordinates(t, p)
Unchained(t, p, ops) == IF Tok(t, p) \in ops THEN Fail ELSE p
Selector(at, base, op, onto, position) ==
  [at |-> at, base |-> base, op |-> op, onto |-> onto, position |-> position]
SelectorOn(t, base, op, from, onto) ==
  CASE op = "%" -> Selector(Unchained(t, Place(t, from), {"~", "|", "%"}), base, op, onto,
                            Read(t, from, Place(t, from)))
    [] op \in {"~", "|"} -> Selector(Unchained(t, onto.at, {"~", "|"}), base, op, onto, <<>>)
    [] OTHER -> Selector(base.at, base, "", onto, <<>>)
SelectorBehind(t, base) ==
  SelectorOn(t, base, Tok(t, base.at), base.at + 1, AtomAt(t, base.at + 1))
SelectorAt(t, p) == SelectorBehind(t, AtomAt(t, p))

\* _parse_when_gate, from behind its colon: the probe is kept verbatim.
Axis(t, p) == IF Tok(t, p) # "[" THEN p ELSE Behind(Integer(t, p + 1), Tok(t, p + 2) = "]")
GateChannel(t, p) ==
  CASE Tok(t, p) = ":" -> Behind(p + 1, Tok(t, p + 1) \in {"fraction", "membership"})
    [] Tok(t, p) \in {"@", "~"} -> Name(t, p + 1)
    [] OTHER -> Axis(t, Dotted(t, p))
Threshold(t, p) == IF Tok(t, p) \in {">", ">=", "<", "<="} THEN SignedNum(t, p + 1) ELSE Fail
GateUpTo(t, p, end) == [at |-> end, gate |-> Read(t, p, end)]
GateAt(t, p) == GateUpTo(t, p, Threshold(t, GateChannel(t, FullName(t, p))))

\* The windows and the keywords that name them: two have an alias.
Window(kw) == CASE kw = "prompt" -> "before" [] kw = "generated" -> "response" [] OTHER -> kw
Keywords == {"both", "after", "before", "thinking", "response", "prompt", "generated"}

BothWindow == [window |-> <<"both">>, gate |-> <<>>]
NoTrigger == [window |-> <<>>, gate |-> <<>>]

\* _parse_trigger, from behind the @: a window, a gate, or a window with one.
Clause(t, p) == GateAt(t, IF Tok(t, p) = "when" /\ Tok(t, p + 1) = ":" THEN p + 2 ELSE Fail)
Trigger(window, clause) == [at |-> clause.at, window |-> window, gate |-> clause.gate]
TriggerBehind(t, window, p) ==
  Trigger(window, IF Tok(t, p) = "&" THEN Clause(t, p + 1) ELSE [at |-> p, gate |-> <<>>])
TriggerAt(t, p) ==
  IF Tok(t, p) = "when" THEN Trigger(<<"response">>, Clause(t, p))
  ELSE IF Tok(t, p) \in {"first", "after"} /\ Tok(t, p + 1) = ":"
  THEN TriggerBehind(t, Read(t, p, Integer(t, p + 2)), Integer(t, p + 2))
  ELSE TriggerBehind(t, <<Window(Tok(t, p))>>, Behind(p, Tok(t, p) \in Keywords))

\* _term: its coefficients carry its sign; an absent one is 0.5, or 1 for an
\* ablation.
ParsedTerm(coeffs, ablation, selector, trigger) ==
  [at |-> trigger.at, coeffs |-> coeffs, ablation |-> ablation, selector |-> selector,
   trigger |-> [window |-> trigger.window, gate |-> trigger.gate]]
TermWith(t, coeffs, ablation, selector) ==
  ParsedTerm(coeffs, ablation, selector,
       IF Tok(t, selector.at) = "@" THEN TriggerAt(t, selector.at + 1)
       ELSE [at |-> selector.at, window |-> <<>>, gate |-> <<>>])
Scaled(t, p, coeffs) ==
  IF Tok(t, p) = "!" THEN TermWith(t, coeffs, TRUE, SelectorAt(t, p + 1))
                     ELSE TermWith(t, coeffs, FALSE, SelectorAt(t, p))
Starred(t, p) == IF Tok(t, p) = "*" THEN p + 1 ELSE p
LastCoefficient(t, p) == IF Tok(t, p) = "," THEN Fail ELSE p
TermAt(t, p, neg) ==
  IF Number(t, p) = Fail
  THEN Scaled(t, p, <<Float(neg, IF Tok(t, p) = "!" THEN Value["1"] ELSE Value["0.5"])>>)
  ELSE IF Tok(t, p + 1) # ","
  THEN Scaled(t, Starred(t, p + 1), <<Float(neg, Value[Tok(t, p)])>>)
  ELSE Scaled(t, Starred(t, LastCoefficient(t, SignedNum(t, p + 2))),
              <<Float(neg, Value[Tok(t, p)]),
                Float(neg # (Tok(t, p + 2) = "-"), Magnitude(t, SignedNum(t, p + 2) - 1))>>)

\* parse: signed terms up to the end of the text; <<>> is a syntax error.
TermsOf(t) ==
  LET rest[p \in 0 .. Len(t) + 1] ==
        LET From(term) ==
              IF term.at = Fail THEN <<>>
              ELSE IF term.at = Len(t) + 1 THEN <<term>>
              ELSE IF Tok(t, term.at) \notin {"+", "-"} \/ rest[term.at] = <<>> THEN <<>>
              ELSE <<term>> \o rest[term.at]
        IN  From(TermAt(t, IF Tok(t, p) \in {"+", "-"} THEN p + 1 ELSE p, Tok(t, p) = "-"))
  IN rest[1]

---------------------------------------------------------------------------
(* Resolution.                                                             *)

WithVariant(key, variant) == IF variant = "raw" THEN key ELSE key \o <<":", variant>>
Under(ns, name) == IF ns = "" THEN name ELSE <<ns, "/">> \o name

\* canonicalize_atom: each pole of a name is slugged.
Canonical(concept) ==
  [i \in DOMAIN concept |-> IF concept[i] \in DOMAIN Slug THEN Slug[concept[i]] ELSE concept[i]]

Known(atom) == atom.ns \in Reserved \/ atom.variant \in Variants \cup {"raw"}

\* _resolve_atom: an instrument's unit is kept verbatim, a pole is slugged.
PoleKey(atom) ==
  IF atom.ns \in Reserved THEN Under(atom.ns, atom.concept)
  ELSE WithVariant(Under(atom.ns, Canonical(atom.concept)), atom.variant)

\* _resolve_manifold_atom: the name as it was written.
ManifoldKey(atom) == WithVariant(Under(atom.ns, atom.concept), atom.variant)

Placed(m, label) == Under(m.ns, m.name) \o <<"%", label>>

\* resolve_bare_atom: the labels of all manifolds, then the names of those that
\* read as a vector, for an atom without a variant.  More than one answer is
\* ambiguous; none leaves a pole.
LabelsOf(atom, installed) ==
  IF atom.variant # "raw" \/ atom.ns # "" \/ Len(atom.concept) # 1 THEN {}
  ELSE {Placed(m, atom.concept[1]) : m \in {x \in installed : atom.concept[1] \in ToSet(x.labels)}}
NamesOf(atom, installed) ==
  IF atom.variant # "raw" THEN {}
  ELSE {Placed(m, m.labels[1]) :
          m \in {x \in installed : x.pca /\ Len(x.labels) = 2 /\ x.name = atom.concept
                                   /\ atom.ns \in {"", x.ns}}}
BareAtom(atom, installed) ==
  IF LabelsOf(atom, installed) # {} THEN LabelsOf(atom, installed) ELSE NamesOf(atom, installed)

Entry(kind, key, along, onto, trigger) ==
  [kind |-> kind, key |-> key, along |-> along, onto |-> onto, trigger |-> trigger]

OrBoth(trigger) == IF trigger = NoTrigger THEN BothWindow ELSE trigger

\* _expand_along_onto_coeffs
Onto(coeffs) == IF Len(coeffs) = 2 THEN coeffs[2] ELSE Zero

\* The entry a term stands for, in a set; the empty set is an error.
ResolvedTo(term, sel, atom, hits) ==
  LET At(key) == Entry("manifold", key, term.coeffs[1], Onto(term.coeffs), OrBoth(term.trigger))
      Vector(kind, key, trigger) == Entry(kind, key, term.coeffs[1], Zero, trigger)
  IN IF sel.op = "%"
     THEN IF term.ablation THEN {} ELSE {At(ManifoldKey(atom) \o <<"%">> \o sel.position)}
     ELSE IF ~Known(atom) \/ Cardinality(hits) > 1 THEN {}
     ELSE IF hits # {} THEN {At(key) : key \in hits}
     ELSE IF Len(term.coeffs) = 2 \/ (sel.op # "" /\ (term.ablation \/ ~Known(sel.onto))) THEN {}
     ELSE IF term.ablation
     THEN {Vector("ablation", <<"!">> \o PoleKey(atom), OrBoth(term.trigger))}
     ELSE IF sel.op = "" THEN {Vector("plain", PoleKey(atom), term.trigger)}
     ELSE {Vector("projected", PoleKey(atom) \o <<sel.op>> \o PoleKey(sel.onto), OrBoth(term.trigger))}

IsBare(term, atom) == term.selector.op = "" /\ ~term.ablation /\ atom.ns \notin Reserved
Resolved(term, installed, registered) ==
  LET atom == term.selector.base
  IN  ResolvedTo(term, term.selector, atom,
                 IF IsBare(term, atom) /\ PoleKey(atom) \notin registered
                 THEN BareAtom(atom, installed) ELSE {})

\* _merge_plain, _merge_projected, _merge_ablation, _merge_manifold: entries of
\* one key add up if they agree in kind and trigger; else <<>>, an error.
Merged(alphas, e) ==
  LET same == {i \in DOMAIN alphas : alphas[i].key = e.key}
  IN  IF same = {} THEN Append(alphas, e)
      ELSE LET i == CHOOSE i \in same : TRUE
           IN  IF alphas[i].kind # e.kind \/ alphas[i].trigger # e.trigger THEN <<>>
               ELSE [alphas EXCEPT ![i].along = Plus(@, e.along), ![i].onto = Plus(@, e.onto)]

\* _fold
Folded(terms, installed, registered) ==
  LET upto[i \in 0 .. Len(terms)] ==
        IF i = 0 THEN <<>>
        ELSE LET entries == Resolved(terms[i], installed, registered)
             IN  IF entries = {} \/ (i > 1 /\ upto[i - 1] = <<>>) THEN <<>>
                 ELSE Merged(upto[i - 1], CHOOSE e \in entries : TRUE)
  IN upto[Len(terms)]

\* parse_expr: the alphas in order, or <<>> when it raises.
ParseExpr(t, installed, registered) == Folded(TermsOf(t), installed, registered)

---------------------------------------------------------------------------
(* Printing.                                                               *)

Numeral(x) ==
  (IF x.neg THEN <<"-">> ELSE <<>>) \o <<CHOOSE n \in DOMAIN Value : Value[n] = x.mag>>

\* _fmt_manifold's coefficients: the parser gives the sign of the first to both.
Coeffs_AsStored(e) ==
  IF e.onto.mag = 0 THEN Numeral(e.along) ELSE Numeral(e.along) \o <<",">> \o Numeral(e.onto)
Coeffs(e) ==
  IF e.onto.mag = 0 THEN Numeral(e.along)
  ELSE Numeral(e.along) \o <<",">> \o
       Numeral(IF Amount(e.along) < 0 THEN Negated(e.onto) ELSE e.onto)

\* _trigger_name
TriggerName(trigger) ==
  IF trigger.gate = <<>> THEN trigger.window
  ELSE (IF trigger.window = <<"response">> THEN <<>> ELSE trigger.window \o <<"&">>)
       \o <<"when", ":">> \o trigger.gate

Printed(e) ==
  (IF e.kind # "ablation" \/ e.along.mag # Value["1"] THEN Coeffs(e)
   ELSE IF e.along.neg THEN <<"-">> ELSE <<>>)
  \o e.key
  \o (IF OrBoth(e.trigger) = BothWindow THEN <<>> ELSE <<"@">> \o TriggerName(e.trigger))

\* format_expr: the sign of a later term joins it.
FormatExpr(alphas) ==
  FoldLeft(LAMBDA out, e : out \o (IF out = <<>> \/ Head(Printed(e)) = "-" THEN <<>> ELSE <<"+">>)
                               \o Printed(e),
           <<>>, alphas)

---------------------------------------------------------------------------
(* A call, its receipt, and the calls made from it.                        *)

\* Recipe.invert_steering: it parses without the registered keys.
Opposite(alphas) == [i \in DOMAIN alphas |-> [alphas[i] EXCEPT !.along = Negated(@)]]
Inverted(t, installed) == FormatExpr(Opposite(ParseExpr(t, installed, {})))

GrammarInit ==
  /\ catalog \in SUBSET Manifolds /\ profiles \in SUBSET ProfileKeys
  /\ said = <<>> /\ recipe = <<>> /\ settled = TRUE /\ installs = 0

\* resolve_call and the receipt of the node.
Call(t) ==
  /\ said' = ParseExpr(t, catalog, profiles) /\ said' # <<>>
  /\ recipe' = FormatExpr(said')
  /\ settled' = TRUE
  /\ UNCHANGED <<catalog, profiles, installs>>

Ask == said = <<>> /\ \E t \in Texts : Call(t)
Replay == recipe # <<>> /\ Call(recipe)
Invert == recipe # <<>> /\ Call(Inverted(recipe, catalog))

Elsewhere ==
  /\ installs < MaxInstalls /\ installs' = installs + 1
  /\ settled' = (said = <<>>)
  /\ UNCHANGED <<said, recipe>>

\* A manifold is installed or removed, by this process or another.
Install == Elsewhere /\ UNCHANGED profiles /\ \E m \in Manifolds : catalog' \in {catalog \cup {m}, catalog \ {m}}
Register == Elsewhere /\ UNCHANGED catalog /\ \E k \in ProfileKeys : profiles' \in {profiles \cup {k}, profiles \ {k}}

GrammarNext == Ask \/ Replay \/ Invert \/ Install \/ Register

---------------------------------------------------------------------------
(* Properties.                                                             *)

Meaning(alphas) == {[alphas[i] EXCEPT !.trigger = OrBoth(@)] : i \in DOMAIN alphas}

\* A bare name means what the catalog and the registry say when it is read;
\* every other term, and the unit of an instrument, says which artifact it is of.
SaysWhich(e) == e.kind # "plain" \/ Head(e.key) \in Reserved

\* What the code says of its printer (format_expr's docstring): it round-trips
\* for any steering the parser makes.
ReceiptReadsBack ==
  recipe # <<>> /\ (settled \/ \A i \in DOMAIN said : SaysWhich(said[i])) =>
    Meaning(ParseExpr(recipe, catalog, profiles)) = Meaning(said)

\* A collapse without a slide loses its sign when it is inverted, and what was
\* inverted so does not print as it was read.
Slides(alphas) ==
  \A i \in DOMAIN alphas : alphas[i].onto.mag # 0 => alphas[i].along # Negated(Zero)

\* The `inverted` regeneration of a call steers along the opposite of each of
\* its terms, and as far onto each manifold.  A key that is both registered and
\* installed is inverted as installed.
Invertible(e) ==
  /\ e.onto.mag # 0 => e.along.mag # 0
  /\ e.kind = "plain" => e.key \notin profiles
InversionIsOpposite ==
  recipe # <<>> /\ settled /\ (\A i \in DOMAIN said : Invertible(said[i])) =>
    Meaning(ParseExpr(Inverted(recipe, catalog), catalog, profiles)) =
      {[e EXCEPT !.along = Negated(@)] : e \in Meaning(said)}

\* The receipt of a call, read again, is the steering the call ran under: now,
\* and, if no term is a bare name, whatever is installed or registered later;
\* and its inversion is its opposite.
ReceiptsKeepTheirMeaning ==
  /\ Slides(said) => ReceiptReadsBack
  /\ InversionIsOpposite
=============================================================================
